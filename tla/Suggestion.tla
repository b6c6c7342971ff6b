----------------------------- MODULE Suggestion -----------------------------
(***************************************************************************)
(* What the suggestion engine computes: the segments of a set of accounts  *)
(* (segmenter.py) and whether a workflow the model answered with may be    *)
(* saved (validator.py).  Neither keeps state.                             *)
(*                                                                         *)
(* An account shows its face: [status, hold, owing, stage, contact,        *)
(* balance], where stage is "" if the days past due are not known.  Names, *)
(* reasoning, catalogue values and message texts of a workflow are left    *)
(* out.                                                                    *)
(***************************************************************************)
EXTENDS Integers, Sequences, FiniteSets, FiniteSetsExt

CONSTANTS
  MinSegment,   \* MIN_SEGMENT_SIZE
  MaxSegments,  \* MAX_SEGMENTS
  Limits        \* design_limits: [steps, messages, weekly]

ASSUME SuggestionAssumption ==
  MinSegment \in Nat \ {0} /\ MaxSegments \in Nat /\ Limits.weekly \in Nat

All == "all"
Situations == {"active", "promise", "plan"}
Arrangements == {"promise", "plan"}
Eligible(face) ==
  face.status \notin {"closed", "resolved", "review"} /\ ~face.hold /\ face.owing

SituationOf(face) == IF face.status \in Situations THEN face.status ELSE "active"

(* A key is <<situation, stage, contact state, balance band>>. *)
\* mutant: an account whose days past due are unknown keeps the finer fields
LabelUnnested(face) ==
  LET situation == SituationOf(face)
  IN IF situation \in Arrangements THEN <<situation, All, All, All>>
     ELSE <<situation, IF face.stage = "" THEN All ELSE face.stage, face.contact, face.balance>>
LabelAccount(face) ==
  LET situation == SituationOf(face)
  IN IF situation \in Arrangements \/ face.stage = "" THEN <<situation, All, All, All>>
     ELSE <<situation, face.stage, face.contact, face.balance>>

Widened(key, i) == [j \in 1 .. 4 |-> IF j >= i THEN All ELSE key[j]]

(* groups maps keys to the accounts that carry them. *)
Regrouped(groups, to) ==
  [k \in {to[j] : j \in DOMAIN groups} |-> UNION {groups[j] : j \in {i \in DOMAIN groups : to[i] = k}}]
GroupAccounts(faces) ==
  Regrouped([i \in DOMAIN faces |-> {i}], [i \in DOMAIN faces |-> LabelAccount(faces[i])])

MergeSmallGroups(groups, size) ==
  LET pass(g, i) ==
        Regrouped(g, [k \in DOMAIN g |-> IF Cardinality(g[k]) < size THEN Widened(k, i) ELSE k])
  IN pass(pass(pass(groups, 4), 3), 2)

(* faces: those of the accounts of a scope.  The least size grows by a     *)
(* fifth until the segments fit.                                           *)
BuildSegments(faces) ==
  LET eligible == {i \in DOMAIN faces : Eligible(faces[i])}
      groups == GroupAccounts([i \in eligible |-> faces[i]])
      merged(size) == MergeSmallGroups(groups, size)
      size[k \in 0 .. Cardinality(eligible) + 1] ==
        IF k = 0 THEN MinSegment ELSE (6 * size[k - 1] + 4) \div 5
      fits(k) == Cardinality(DOMAIN merged(size[k])) <= MaxSegments \/ size[k] > Cardinality(eligible)
      raises == CHOOSE k \in 0 .. Cardinality(eligible) + 1 : fits(k) /\ \A j \in 0 .. k - 1 : ~fits(j)
  IN merged(size[raises])

(* match_account_to_segment: the most specific segment the account fits.   *)
Fits(face, key) ==
  /\ key[1] = SituationOf(face)
  /\ key[2] \in {All, face.stage} /\ key[3] \in {All, face.contact} /\ key[4] \in {All, face.balance}
Specificity(key) == Cardinality({j \in 1 .. 4 : key[j] # All})
MostSpecific(face, keys) ==
  LET fitting == {k \in keys : Fits(face, k)}
  IN {k \in fitting : \A j \in fitting : Specificity(j) <= Specificity(k)}

(***************************************************************************)
(* A flow is [entry, steps]: a step is [kind, next, yes, no, days], with   *)
(* "" for a link that is absent and days the delay its timing adds.        *)
(***************************************************************************)
EndStepKinds == {"Outcome", "Human Review", "Case Action"}
Links(s) == {s.next, s.yes, s.no} \ {""}

Spread(to, from) ==
  LET seen[n \in 0 .. Cardinality(DOMAIN to)] ==
        IF n = 0 THEN from
        ELSE LET before == seen[n - 1] IN before \cup UNION {to[x] : x \in before \cap DOMAIN to}
  IN seen[Cardinality(DOMAIN to)]
Reachable(steps, id) == Spread([x \in DOMAIN steps |-> Links(steps[x])], {id})

HasLoop(steps, entry) ==
  LET revisits[x \in [id : DOMAIN steps, path : SUBSET DOMAIN steps]] ==
        \/ x.id \in x.path
        \/ \E t \in Links(steps[x.id]) \cap DOMAIN steps :
             revisits[[id |-> t, path |-> x.path \cup {x.id}]]
  IN revisits[[id |-> entry, path |-> {}]]

ValidateFlowchart(f) ==
  /\ f.entry \in DOMAIN f.steps
  /\ {id \in DOMAIN f.steps : f.steps[id].kind = "Trigger"} = {f.entry}
  /\ \A id \in DOMAIN f.steps :
       LET s == f.steps[id] IN
       /\ Links(s) \subseteq DOMAIN f.steps
       /\ IF s.kind = "Condition" THEN s.yes # "" /\ s.no # ""
          ELSE s.yes = "" /\ s.no = "" /\ (s.next # "" \/ s.kind \in EndStepKinds)
       /\ s.kind = "Outcome" => s.next = ""
  /\ DOMAIN f.steps \subseteq Reachable(f.steps, f.entry)
  /\ ~HasLoop(f.steps, f.entry)

(* The search stops at a Wait and at the message it looks for. *)
Messages(f) == {id \in DOMAIN f.steps : f.steps[id].kind = "Communication"}
NextMessageWithoutWait(f, id) ==
  LET to == [x \in {y \in DOMAIN f.steps : f.steps[y].kind \notin {"Wait", "Communication"}}
             |-> Links(f.steps[x])]
  IN Spread(to, Links(f.steps[id])) \cap Messages(f) # {}

(* sent: the days of the messages on the path to a step. *)
Crowded(f) ==
  LET crowded[x \in [id : DOMAIN f.steps, day : Nat, sent : Seq(Nat)]] ==
        LET s == f.steps[x.id]
            today == x.day + s.days
            now == IF s.kind = "Communication" THEN Append(x.sent, today) ELSE x.sent
        IN \/ s.kind = "Communication"
              /\ Cardinality({i \in DOMAIN now : today - now[i] < 7}) > Limits.weekly
           \/ \E t \in Links(s) : crowded[[id |-> t, day |-> today, sent |-> now]]
  IN crowded[[id |-> f.entry, day |-> 0, sent |-> <<>>]]

ValidateLimits(f) ==
  /\ Cardinality(DOMAIN f.steps) \in Limits.steps
  /\ Cardinality(Messages(f)) <= Limits.messages

ValidateAll(f) ==
  /\ ValidateLimits(f) /\ ValidateFlowchart(f)
  /\ \A id \in Messages(f) : ~NextMessageWithoutWait(f, id)
  /\ ~Crowded(f)

(***************************************************************************)
(* _suggest_batch: what is not accepted is asked for again, MaxFixes times;*)
(* one segment without a valid workflow fails the whole.  answers maps a   *)
(* segment to the sequence of flows the model would answer with.           *)
(***************************************************************************)
MaxFixes == 2
Accepted(flows) ==
  {n \in DOMAIN flows : n <= 1 + MaxFixes /\ ValidateAll(flows[n])}
Suggested(answers) == \A s \in DOMAIN answers : Accepted(answers[s]) # {}
Workflows(answers) == [s \in DOMAIN answers |-> answers[s][Min(Accepted(answers[s]))]]
=============================================================================
