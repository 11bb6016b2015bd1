-------------------------- MODULE MCResearchPlanning --------------------------
(* Constants for TLC.                                                      *)
EXTENDS ResearchPlanning, TLC

CONSTANTS f1, f2, f3, p1, p2

Row(run, f, n) == [run |-> run, family |-> f, at |-> n]

GivenValidations == {Row("r1", f1, 1)}
GivenOutcomes == {Row("r1", f1, 1), Row("r2", f2, 2), Row("r2", f2, 3)}
GivenHealth == {[at |-> 1]}

(* The last two outcomes are all that is read of three.                    *)
GivenRecorded ==
    {[validations |-> GivenValidations, outcomes |-> {Row("r1", f1, 1), Row("r2", f2, 2)},
      health |-> {}, losing |-> {}]}

(* A report on two families of three.                                      *)
GivenLists == {{f2, f3}}

FirstRef == <<"validation", "r1", 1>>
GivenOwnerRefs == {<<"owner">>}

GivenInputs ==
    {[family |-> NoFamily, override |-> FALSE, max |-> 2],
     [family |-> f1, override |-> TRUE, max |-> 1]}

Proposal(f, p, refs) ==
    [schema |-> TRUE, family |-> f, validator |-> TRUE, sources |-> TRUE,
     params |-> p, fields |-> TRUE, refs |-> refs]

Sparse == [Proposal(f1, p1, {FirstRef}) EXCEPT !.schema = FALSE]

Template(refs) ==
    [schema |-> TRUE, safe |-> TRUE, fields |-> TRUE, refs |-> refs,
     name |-> "new", family |-> f2]

Sections(ps, ts) == [form |-> "sections", proposals |-> ps, templates |-> ts]
Whole(form) == [form |-> form, proposals |-> <<>>, templates |-> <<>>]

(* Answers that are no batch; one that is accepted, alone and beside one   *)
(* that is not; those that fail for one reason each; a template beside an  *)
(* unsafe one.                                                             *)
GivenAnswers ==
    {Whole("text"), Whole("unsafe"),
     Sections(<<Proposal(f1, p1, {FirstRef})>>, <<>>),
     Sections(<<Sparse, Proposal(f2, p2, {GapRef})>>, <<>>),
     Sections(<<[Proposal(f1, p2, {GapRef}) EXCEPT !.sources = FALSE],
                [Proposal(f1, p2, {GapRef}) EXCEPT !.fields = FALSE]>>, <<>>),
     Sections(<<>>, <<Template({<<"paper", f1, 1>>}), [Template({FirstRef}) EXCEPT !.safe = FALSE]>>)}

Candidate(refs, capital) ==
    [refs |-> refs, capital |-> capital, reviewed |-> TRUE, complete |-> TRUE]

GivenBatches ==
    {[candidates |-> {Candidate({FirstRef, <<"paper", f2, 2>>}, FALSE),
                      Candidate({<<"health", 1>>, <<"owner">>}, FALSE),
                      Candidate({<<"owner">>, <<"made up">>}, FALSE)},
      capital |-> FALSE],
     [candidates |-> {Candidate({<<"owner">>}, FALSE), Candidate({<<"owner">>}, TRUE)},
      capital |-> TRUE]}

StopOf(f) == Record(<<"degraded", f>>, f, NoParams, {"operator_stop"}, {f, "degraded"})

Validation(reasons, outcome) == Record(<<"validation", f1>>, f1, p1, reasons, {outcome})

(* One set of parameters is blocked until another command approves it.     *)
GivenRemembered == {{Validation({"non_positive_net_return"}, "blocked")}}

GivenOthers == {StopOf(f1), Validation({}, "approved")}
=============================================================================
