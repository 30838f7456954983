----------------------------- MODULE EvidenceLog -----------------------------
(***************************************************************************)
(* What agents claim and what they found (internal/services/evidence.go,   *)
(* reverse.go: RecordHypothesis) and the detector that looks for agents     *)
(* going round in circles (anti_loop.go).  Records are nodes of the graph,    *)
(* found again by the properties that identify them; a link is made again   *)
(* only if its own properties differ.  A claim is a value with a normal     *)
(* form; confidence is in tenths; time is in half seconds.                  *)
(***************************************************************************)
EXTENDS Naturals, Sequences, FiniteSets, Functions

CONSTANTS Subject,
          Claim, NormalForm,  \* NormalForm[c]: c without case and blanks
          Contradictory,      \* the pairs of claims that contradict each other
          RivalId,            \* the ids record_re_hypothesis is called with
          ClaimInput, RivalInput, EvidenceInput, NewBody,  \* what the tools are called with
          NoValue,
          maxSame, maxRecent, window,
          MaxRecords, MaxNodes, MaxTime  \* bounds

\* Inputs are complete, the words that say who recorded name no rival, and a claim
\* or a text is never the absence of one.
ASSUME EvidenceAssumption ==
  /\ {maxSame, maxRecent, window} \subseteq Nat
  /\ \A r \in ClaimInput \cup RivalInput : r.claim \in Claim /\ r.conf \in Nat
  /\ \A r \in RivalInput : r.id \in RivalId
  /\ \A r \in EvidenceInput : r.text # NoValue /\ r.conf \in Nat
  /\ RivalId \cap {"task", "evidence", "supersede"} = {}
ASSUME NoValueAssumption == NoValue \notin Nat \cup Claim \cup RivalId \cup NewBody

VARIABLES
  records,      \* the Hypothesis and Evidence nodes
  recordLinks,  \* <<kind, from, to, properties>>
  now,
  report,       \* what the last CheckInterception answered
  history       \* of the model only: what was recorded

evidenceVars == <<records, recordLinks, now, report, history>>

Blank == [kind |-> NoValue, subject |-> NoValue, claim |-> NoValue, ext |-> NoValue, text |-> NoValue,
          source |-> NoValue, conf |-> NoValue, method |-> NoValue, stamp |-> NoValue, old |-> FALSE]
EvidenceInit ==
  /\ records = <<>> /\ recordLinks = {} /\ now = 0 /\ report = NoValue /\ history = <<>>

\* UpsertNode: any node that has the properties of the identity, else a new one.
Having(record, fields) ==
  [k \in DOMAIN record |-> IF k \in DOMAIN fields THEN fields[k] ELSE record[k]]
Upserts(ns, kind, identity, props) ==
  LET matching == {i \in DOMAIN ns : ns[i].kind = kind /\ \A k \in DOMAIN identity : ns[i][k] = identity[k]}
  IN  IF matching = {}
      THEN {[records |-> Append(ns, Having(Having(Having(Blank, [kind |-> kind]), identity), props)),
             id |-> Len(ns) + 1]}
      ELSE {[records |-> [ns EXCEPT ![i] = Having(@, props)], id |-> i] : i \in matching}

Second == now - (now % 2)  \* time.RFC3339 has whole seconds
Recorded(by, s, c, conf, text) ==
  /\ Len(history) < MaxRecords
  /\ history' = Append(history, [by |-> by, subject |-> s, claim |-> c, conf |-> conf,
                                 text |-> text, time |-> now])
  /\ report' = NoValue
  /\ UNCHANGED now

\* EvidenceService.RecordHypothesis: a claim about a subject is one node.
RecordClaim(s, c, conf) ==
  \E upserted \in Upserts(records, "Hypothesis", [subject |-> s, claim |-> c],
                      [conf |-> conf, method |-> "manual", stamp |-> Second]) :
    /\ records' = upserted.records
    /\ recordLinks' = recordLinks \cup {<<"SUSPECTED_AS", s, upserted.id, <<conf, "HYPOTHESIS">>>>}
    /\ Recorded("task", s, c, conf, NoValue)

\* ReverseEngineeringService.RecordHypothesis: an id is one node, without a timestamp, and its
\* evidence is linked to it and not to the subject.
RecordRival(h, s, c, conf, finding) ==
  \E upserted \in Upserts(records, "Hypothesis", [ext |-> h], [subject |-> s, claim |-> c, conf |-> conf]) :
    /\ LET suspected == <<"SUSPECTED_AS", s, upserted.id, <<conf, "SUSPECTED">>>>
       IN  IF finding = NoValue
           THEN records' = upserted.records /\ recordLinks' = recordLinks \cup {suspected}
           ELSE \E found \in Upserts(upserted.records, "Evidence", [ext |-> finding],
                                     [text |-> finding, conf |-> conf]) :
                  /\ records' = found.records
                  /\ recordLinks' = recordLinks \cup {suspected, <<"SUPPORTS", upserted.id, found.id, <<>>>>}
    /\ Recorded(h, s, c, conf, finding)

\* RecordEvidence, and record_observation.
RecordEvidence(s, text, source, conf) ==
  \E upserted \in Upserts(records, "Evidence", [subject |-> s, text |-> text, source |-> source],
                      [conf |-> conf, method |-> "manual", stamp |-> Second]) :
    /\ records' = upserted.records
    /\ recordLinks' = recordLinks \cup {<<"REFERENCES", s, upserted.id, <<>>>>}
    /\ Recorded("evidence", s, NoValue, conf, text)

\* SupersedeEvidence: the record is marked, and its replacement is found by subject and text;
\* no link leads to that from the subject.
SupersedeEvidence(i, text) ==
  /\ i \in DOMAIN records /\ ~records[i].old
  /\ LET record == records[i]
         marked == [records EXCEPT ![i].old = TRUE]
     IN  \E upserted \in Upserts(marked, record.kind, [subject |-> record.subject, text |-> text],
                             [conf |-> record.conf, method |-> "supersede", stamp |-> Second]) :
           /\ records' = upserted.records
           /\ recordLinks' = recordLinks \cup {<<"SUPERSEDED_BY", i, upserted.id, <<>>>>}
           /\ Recorded("supersede", record.subject, NoValue, record.conf, text)

Tick ==
  /\ now < MaxTime /\ now' = now + 1
  /\ report' = NoValue /\ UNCHANGED <<records, recordLinks, history>>

-----------------------------------------------------------------------------
(* AntiLoopDetector.                                                       *)

\* Neighbors lists a node once for each link to it.
getHypotheses(s) == {l \in recordLinks : l[1] = "SUSPECTED_AS" /\ l[2] = s}
getEvidence(s) == {l[3] : l \in {l \in recordLinks : l[1] = "REFERENCES" /\ l[2] = s}}
ClaimOf(l) == records[l[3]]

detectLoopingClaims(s) ==
  \E c \in Claim :
    Cardinality({l \in getHypotheses(s) : NormalForm[ClaimOf(l).claim] = NormalForm[c]}) > maxSame
claimsContradict(a, b) == <<a, b>> \in Contradictory \/ <<b, a>> \in Contradictory
detectContradictions(s) ==
  \E l, m \in getHypotheses(s) :
    claimsContradict(ClaimOf(l).claim, ClaimOf(m).claim) /\ ClaimOf(l).conf > 7
detectHighConfidenceUnverified(s) ==
  \E i \in getEvidence(s) : records[i].conf > 9 /\ records[i].source = "manual" /\ records[i].method = "manual"
detectMissingEvidence(s) == getHypotheses(s) # {} /\ getEvidence(s) = {}
RecentClaims(s, span) == {l \in getHypotheses(s) : ClaimOf(l).stamp # NoValue /\ ClaimOf(l).stamp + span > now}
\* Mutant: the window is as many half seconds as it should be seconds.
detectStaleClaimsShort(s) == Cardinality(RecentClaims(s, window)) > maxRecent
detectStaleClaims(s) == Cardinality(RecentClaims(s, 2 * window)) > maxRecent

CheckInterception(s) ==
  /\ report' = [subject |-> s, looping |-> detectLoopingClaims(s), contradictions |-> detectContradictions(s),
                unverified |-> detectHighConfidenceUnverified(s),
                unsupported |-> detectMissingEvidence(s), hurried |-> detectStaleClaims(s)]
  /\ UNCHANGED <<records, recordLinks, now, history>>

EvidenceNext ==
  \/ \E s \in Subject :
       \/ \E r \in ClaimInput : RecordClaim(s, r.claim, r.conf)
       \/ \E r \in RivalInput : RecordRival(r.id, s, r.claim, r.conf, r.finding)
       \/ \E r \in EvidenceInput : RecordEvidence(s, r.text, r.source, r.conf)
       \/ CheckInterception(s)
  \/ \E i \in 1..MaxNodes, f \in NewBody : SupersedeEvidence(i, f)
  \/ Tick
EvidenceSpec == EvidenceInit /\ [][EvidenceNext]_evidenceVars

-----------------------------------------------------------------------------
(* Properties, from what was recorded.                                     *)

Entries == Range(history)
About(s) == {e \in Entries : e.claim # NoValue /\ e.subject = s}
ByTask(s) == {e \in About(s) : e.by = "task"}
\* No id was used for two subjects or two claims.
Steady == \A d, e \in Entries : d.by = e.by /\ e.by \in RivalId => d.subject = e.subject /\ d.claim = e.claim
Saying(s, c) == {i \in DOMAIN history : history[i] \in About(s) /\ history[i].claim = c}
LastConfidence(s, c) == history[CHOOSE i \in Saying(s, c) : \A j \in Saying(s, c) : j <= i].conf
Recordings(s, c) ==
  Cardinality({i \in DOMAIN history : history[i] \in About(s) /\ NormalForm[history[i].claim] = NormalForm[c]})

\* A report that is silent leaves nothing out that tasks recorded: no claim made with more
\* confidences or spellings than allowed, no confident contradiction, no burst of claims; it
\* misses evidence exactly when none was recorded for the subject; and it calls nothing a loop
\* that was not recorded that often.
ReportSound ==
  report # NoValue /\ Steady =>
    LET s == report.subject
        saying(c) == {e \in ByTask(s) : NormalForm[e.claim] = NormalForm[c]}
    IN  /\ report.unsupported <=> About(s) # {} /\ \A e \in Entries : ~(e.by = "evidence" /\ e.subject = s)
        /\ \A c \in Claim : Cardinality({<<e.claim, e.conf>> : e \in saying(c)}) > maxSame => report.looping
        /\ report.looping => \E c \in Claim : Recordings(s, c) > maxSame
        /\ (\E d, e \in ByTask(s) : claimsContradict(d.claim, e.claim) /\ LastConfidence(s, d.claim) > 7)
             => report.contradictions
        /\ Cardinality({e.claim : e \in {e \in ByTask(s) : e.time + 2 * (window - 1) >= now}}) > maxRecent
             => report.hurried

\* From a superseded record its replacements lead to one that is current, if no text
\* was recorded twice.
Replacements(i) ==
  LET step(S) == S \cup {l[3] : l \in {l \in recordLinks : l[1] = "SUPERSEDED_BY" /\ l[2] \in S}}
      r[n \in 0..Len(records)] == IF n = 0 THEN {i} ELSE step(r[n - 1])
  IN  r[Len(records)]
ChainsSound ==
  (\A d, e \in DOMAIN history : d # e /\ history[d].text # NoValue => history[d].text # history[e].text)
    => \A i \in DOMAIN records : Cardinality({j \in Replacements(i) : ~records[j].old}) = 1

\* EvidenceService and AntiLoopDetector.CheckInterception.
LoopsCaught == ReportSound /\ ChainsSound
=============================================================================
