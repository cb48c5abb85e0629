---------------------------- MODULE CandidatePlan ----------------------------
(***************************************************************************)
(* The candidates one model call may go to, in order                        *)
(* (src/src/providers/candidate-planner.ts).  A spec is a provider/model    *)
(* string or a bare model; the candidates of a spec, one per account that   *)
(* serves it, are told apart by their health keys.                          *)
(***************************************************************************)
EXTENDS Integers, FiniteSets, Sequences, SequencesExt

\* A configuration gives, for every spec, its configured failovers in order
\* (bare: the entry names a provider only), its equivalents where the index
\* has an entry for it, and its candidates.

\* buildModelEquivalenceIndex for one group: every member gets the others.
EquivalenceIndex(group) ==
  [s \in group |-> SetToSeq(group \ {s})]

EquivalentsOf(cfg, s) == IF s \in DOMAIN cfg.equivalents THEN cfg.equivalents[s] ELSE <<>>

\* A provider-only failover is skipped where the equivalence index knows the
\* spec: the index has chosen the model's other providers already.
FailoversOf(cfg, s) ==
  LET kept == SelectSeq(cfg.failover[s], LAMBDA f : ~(f.bare /\ s \in DOMAIN cfg.equivalents))
  IN [i \in DOMAIN kept |-> kept[i].spec]

\* Mutation: a candidate is not looked for in the chain before it is added.
AppendCandidatesTwice(cfg, s, chain) == chain \o cfg.candidates[s]

AppendCandidates(cfg, s, chain) ==
  FoldLeft(LAMBDA c, k : IF Contains(c, k) THEN c ELSE Append(c, k), chain, cfg.candidates[s])

\* A spec met again adds its candidates only.
AppendFailoverChain(cfg, s, built) ==
  LET Specs == DOMAIN cfg.candidates
      Built == [chain : Seq(UNION {ToSet(cfg.candidates[t]) : t \in Specs}), expanded : SUBSET Specs]
      Expand[t \in Specs, b \in Built] ==
        LET chain == AppendCandidates(cfg, t, b.chain)
        IN IF t \in b.expanded
             THEN [b EXCEPT !.chain = chain]
             ELSE FoldLeft(LAMBDA c, next : Expand[next, c],
                           [chain |-> chain, expanded |-> b.expanded \cup {t}],
                           EquivalentsOf(cfg, t) \o FailoversOf(cfg, t))
  IN Expand[s, built]

\* first: <<>>, or the spec of a sticky failover whose window is open.
BuildCandidateChain(cfg, s, first) ==
  LET start == IF first \in {<<>>, <<s>>} THEN <<>> ELSE AppendCandidates(cfg, first[1], <<>>)
  IN AppendFailoverChain(cfg, s, [chain |-> start, expanded |-> {}]).chain

(***************************************************************************)
(* Reference: the least set of specs that contains s and, with a spec, all  *)
(* it may be replaced by.                                                   *)
(***************************************************************************)
Replaceable(cfg, s, S) ==
  /\ s \in S
  /\ \A t \in S : ToSet(EquivalentsOf(cfg, t) \o FailoversOf(cfg, t)) \subseteq S

Reachable(cfg, s) ==
  LET Specs == DOMAIN cfg.candidates
  IN {t \in Specs : \A S \in SUBSET Specs : Replaceable(cfg, s, S) => t \in S}

IsPlanFor(chain, cfg, s, first) ==
  /\ IsInjective(chain)
  /\ ToSet(chain) = UNION {ToSet(cfg.candidates[t]) : t \in Reachable(cfg, s) \cup ToSet(first)}
  \* A sticky failover is tried before the requested model, and nothing else is.
  /\ LET own == ToSet(cfg.candidates[s])
         head == ToSet(first) \ {s}
         ahead == UNION {ToSet(cfg.candidates[t]) : t \in head}
     IN \A i, j \in DOMAIN chain :
          /\ chain[j] \in ahead /\ chain[i] \notin ahead => j < i
          /\ chain[j] \in own /\ chain[i] \notin own \cup ahead => j < i
=============================================================================
