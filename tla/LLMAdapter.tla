------------------------------ MODULE LLMAdapter ------------------------------
(***************************************************************************)
(* One call of the language model (llm/responses.py): posts to the         *)
(* provider, each retried when it gets no usable status, repeated when the *)
(* answer holds no text, and at last sent to the older endpoint.           *)
(*                                                                         *)
(* The provider may do anything.  The text of an answer is chosen by the   *)
(* module that calls; here it only arrives or not.                         *)
(***************************************************************************)
EXTENDS Integers

CONSTANTS
    PostAttempts,   \* _PROVIDER_REQUEST_ATTEMPTS, for one request
    OutputAttempts, \* the same constant, for answers without text
    MaxPosts        \* bound: where the count of posts stops

ASSUME AttemptsAssumption ==
    /\ PostAttempts \in Nat \ {0}
    /\ OutputAttempts \in Nat \ {0}
    /\ MaxPosts \in Nat

VARIABLES
    link,   \* where the call stands: endpoint, post and answer it is at
    posts   \* posts made for the answer that is waited for, over all its calls

adapterVars == <<link, posts>>

Place(at, post, output) == [at |-> at, post |-> post, output |-> output]
Unused == Place("unused", 0, 0)
Text == Place("text", 0, 0)
Error == Place("error", 0, 0)   \* LLMProviderError
Fallback == Place("chat", 1, OutputAttempts)

Links ==
    [at : {"responses", "chat"}, post : 1..PostAttempts, output : 1..OutputAttempts]
        \cup {Unused, Text, Error}

Busy == link.at \in {"responses", "chat"}

Call == link' = Place("responses", 1, 1)

(* No answer, or a status worth another try: 408, 409, 425, 429, 5xx.      *)
RepeatForever(l) == l   \* mutant: the attempts are not counted

Lost(l) ==
    IF l.post < PostAttempts THEN [l EXCEPT !.post = @ + 1] ELSE Error

AskAfresh(l) == Place("responses", 1, l.output) \* mutant: answers without text are not counted

(* An answer without text: asked again, then asked of the other endpoint.  *)
Empty(l) ==
    IF l.at = "chat" THEN Error
    ELSE IF l.output < OutputAttempts THEN Place("responses", 1, l.output + 1)
    ELSE Fallback

(* What may come of a post: another status or a body that is not JSON is   *)
(* final.                                                                  *)
Outcomes(l) == {Lost(l), Empty(l), Error, Text}

Post ==
    /\ Busy
    /\ link' \in Outcomes(link)
    /\ posts' = IF posts < MaxPosts THEN posts + 1 ELSE posts

(* The posts that one call can make.                                       *)
CallBudget == PostAttempts * OutputAttempts + PostAttempts

=============================================================================
