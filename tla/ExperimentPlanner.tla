--------------------------- MODULE ExperimentPlanner ---------------------------
(***************************************************************************)
(* What the experiment planner takes from memory, how it judges an answer  *)
(* of the language model, and the records it makes of its verdict          *)
(* (pipeline/experiment_planner.py).                                       *)
(*                                                                         *)
(* A record of the memory keeps what the planner reads of it: the family   *)
(* its sections name, the parameters they hold (of the section itself or   *)
(* of a proposal in it), the rejection reasons and the tags.  A proposal   *)
(* keeps which of the checks its fields would pass; parameters, refs and   *)
(* families are values.                                                    *)
(***************************************************************************)
EXTENDS Integers, Sequences, SequencesExt, FiniteSets

CONSTANTS
    Families,           \* registered families
    FundingFamilies,    \* those that read candles and funding rates
    OwnEvidenceFamilies,\* _FAMILY_SPECIFIC_EVIDENCE_REQUIRED
    NoFamily, NoParams

ASSUME FamiliesAssumption ==
    /\ FundingFamilies \subseteq Families
    /\ OwnEvidenceFamilies \subseteq Families
    /\ NoFamily \notin Families

Upsert(records, r) == {x \in records : x.id # r.id} \cup {r}

----------------------------------------------------------------------------
(* What the memory says.                                                   *)

PlannerMarkers ==
    {"degraded", "degraded_expectancy", "fee_killed_edge", "negative_expectancy"}

ReportMarkers == PlannerMarkers \cup
    {"slippage_killed_edge", "insufficient_evidence_progress", "drawdown_breach",
     "too_many_blocked_runs"}

Marks(r, markers) == (r.tags \cup r.reasons) \cap markers # {}

(* The planner also takes the family from the tags.                        *)
FamilyOf(r) ==
    IF r.family # NoFamily THEN {r.family} ELSE r.tags \cap Families

Degraded(records) ==
    UNION {FamilyOf(r) : r \in {x \in records : Marks(x, PlannerMarkers)}}

(* load_stopped_strategy_families                                          *)
Stopped(records) ==
    {r.family : r \in {x \in records : Marks(x, ReportMarkers)}} \cap Families

(* Parameters that were blocked or rejected.                               *)
Repeated(records) ==
    {<<r.family, r.params>> : r \in
        {x \in records : /\ x.params # NoParams
                         /\ \/ x.reasons # {}
                            \/ x.tags \cap {"blocked", "rejected"} # {}}}

Filtered(input, families) ==
    IF input.family = NoFamily THEN families ELSE families \cap {input.family}

----------------------------------------------------------------------------
(* The judgement of an answer, from what the command knows: the families   *)
(* with evidence, the memory it read, the stopped families and the refs.   *)

CandidateFamilies(input, know) ==
    Filtered(input, FundingFamilies) \
        (IF input.override THEN {} ELSE Degraded(know.memory) \cup know.stopped)

LacksFamilyEvidence(know, f) ==
    /\ f \notin know.evidence
    /\ f \in OwnEvidenceFamilies \/ know.evidence # {}

(* _is_supported_gap_ref: a ref to a gap in the data.                      *)
GapRef == <<"gap">>

RefsSupported(know, refs) == refs # {} /\ refs \subseteq know.refs \cup {GapRef}

FirstFailed(checks) ==
    LET n == SelectInSeq(checks, LAMBDA c : ~c[1])
    IN  IF n = 0 THEN {} ELSE {checks[n][2]}

(* _proposal_from_payload: the reason it is rejected for, if any.          *)
ProposalReason(input, know, p) ==
    FirstFailed(<<
        <<p.schema, "invalid_proposal_schema">>,
        <<p.family \in CandidateFamilies(input, know), "unsupported_strategy_family">>,
        <<p.validator, "unsupported_validator">>,
        <<p.sources, "unsupported_data_sources">>,
        <<<<p.family, p.params>> \notin Repeated(know.memory), "duplicate_experiment">>,
        <<p.fields, "unsupported_data_fields">>,
        <<RefsSupported(know, p.refs), "missing_evidence_ref">>,
        <<~LacksFamilyEvidence(know, p.family), "missing_family_evidence">> >>)

(* _template_from_payload                                                  *)
TemplateReason(know, t) ==
    FirstFailed(<<
        <<t.schema, "invalid_template_schema">>,
        <<t.safe, "charter_violation">>,
        <<t.fields, "unsupported_data_fields">>,
        <<RefsSupported(know, t.refs), "missing_evidence_ref">> >>)

RetryableCodes ==
    {"invalid_llm_response_type", "invalid_json", "invalid_shape",
     "invalid_proposal_schema", "no_safe_registered_proposals"}

Verdict(proposals, templates, reasons) ==
    [proposals |-> proposals, templates |-> templates, reasons |-> reasons]

Accepted(v) == v.proposals \cup v.templates # {}

(* The first of a section, each with its place, which a proposal's id has. *)
Offered(input, section) ==
    {<<n, section[n]>> : n \in {i \in 1..Len(section) : i <= input.max}}

JudgeSections(input, know, a) ==
    LET offered == Offered(input, a.proposals)
        designs == Offered(input, a.templates)
        taken == {x \in offered : ProposalReason(input, know, x[2]) = {}}
        templates == {x[2] : x \in {y \in designs : TemplateReason(know, y[2]) = {}}}
        reasons == (UNION {ProposalReason(input, know, x[2]) : x \in offered})
                     \cup (UNION {TemplateReason(know, x[2]) : x \in designs})
    IN  Verdict(taken, templates,
                IF taken = {} /\ templates = {}
                THEN reasons \cup {"no_safe_registered_proposals"} ELSE reasons)

(* _plan_with_llm_attempt                                                  *)
Judge(input, know, a) ==
    CASE a.form = "text" -> Verdict({}, {}, {"invalid_json"})
      [] a.form = "unsafe" -> Verdict({}, {}, {"charter_violation"})
      [] a.form = "scalar" -> Verdict({}, {}, {"invalid_shape"})
      [] a.form = "sections" -> JudgeSections(input, know, a)

RetryRejected(v) == ~Accepted(v)    \* mutant: every rejection is worth a retry

(* _should_retry_planner_output                                            *)
WorthRetry(v) == ~Accepted(v) /\ v.reasons \subseteq RetryableCodes

----------------------------------------------------------------------------
(* The records of a verdict, in the order they are saved.  The batch is    *)
(* named after the inputs, so that a repetition finds the same names.      *)

Record(id, family, params, reasons, tags) ==
    [id |-> id, family |-> family, params |-> params, reasons |-> reasons, tags |-> tags]

ProposalRecord(input, x) ==
    Record(<<"proposal", input, x[1], x[2].family, x[2].params>>, x[2].family,
           x[2].params, {}, {"experiment-proposal", "accepted"})

TemplateRecord(input, t) ==
    Record(<<"template", input, t.name>>, t.family, NoParams, {},
           {"strategy-template-proposal", "accepted"})

PartialRecord(input, v) ==
    Record(<<"partial-rejected", input>>, NoFamily, NoParams, v.reasons,
           {"experiment-proposal", "rejected"})

RejectedRecord(input, v) ==
    Record(<<"rejected", input>>, NoFamily, NoParams, v.reasons,
           {"experiment-proposal", "rejected"})

AcceptedRecords(input, v) ==
    SetToSeq({ProposalRecord(input, x) : x \in v.proposals})
      \o SetToSeq({TemplateRecord(input, t) : t \in v.templates})

(* _persist_experiment_memory                                              *)
RecordsOf(input, v) ==
    AcceptedRecords(input, v) \o
    (IF ~Accepted(v) THEN <<RejectedRecord(input, v)>>
     ELSE IF v.reasons # {} THEN <<PartialRecord(input, v)>> ELSE <<>>)

=============================================================================
