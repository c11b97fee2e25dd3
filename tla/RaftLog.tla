------------------------------ MODULE RaftLog ------------------------------
(***************************************************************************)
(* The in-memory Raft log, class raft::log (raft/log.cc, raft/log.hh), as  *)
(* pure operators on a record:                                             *)
(*                                                                         *)
(*   snapshot       the descriptor of the prefix replaced by a snapshot    *)
(*   entries        _log: the entries held in memory                       *)
(*   first_idx      index of entries[1]; at most snapshot.idx + 1          *)
(*   stable_idx     last index handed to persistence                       *)
(*   last_conf_idx, prev_conf_idx   the two cached positions of            *)
(*                  configuration entries, 0 when there is none            *)
(*   memory_usage   cached size of the commands in `entries'               *)
(*                                                                         *)
(* An entry carries its index and its term; `kind' is the alternative the  *)
(* variant log_entry::data holds.  Every command costs one memory unit;    *)
(* configurations and dummies cost none (memory_usage_of).                 *)
(***************************************************************************)
EXTENDS Integers, Sequences, FiniteSets

MinOf(a, b) == IF a <= b THEN a ELSE b
MaxOf(a, b) == IF a >= b THEN a ELSE b

IsConf(e) == e.kind = "configuration"

LastIdx(l) == Len(l.entries) + l.first_idx - 1
NextIdx(l) == LastIdx(l) + 1

\* Position in `entries' of index i, and the entry there.
Pos(l, i)      == i - l.first_idx + 1
GetEntry(l, i) == l.entries[Pos(l, i)]

\* The entries with indices lo..hi, as the sequence a message or a batch holds.
Slice(l, lo, hi) == SubSeq(l.entries, Pos(l, lo), Pos(l, hi))

MemoryUsage(es) == Cardinality({k \in 1..Len(es) : es[k].kind = "command"})

LastTerm(l) ==
  IF l.entries = << >> THEN l.snapshot.term ELSE l.entries[Len(l.entries)].term

\* Election restriction: is a log ending at (idx, term) at least as long as l?
IsUpToDate(l, idx, term) ==
  \/ term > LastTerm(l)
  \/ term = LastTerm(l) /\ idx >= LastIdx(l)

LastConfIdx(l) == IF l.last_conf_idx # 0 THEN l.last_conf_idx ELSE l.snapshot.idx

StableTo(l, idx) == [l EXCEPT !.stable_idx = idx]

EmplaceBack(l, e) ==
  [l EXCEPT !.entries = Append(@, e),
            !.memory_usage = @ + MemoryUsage(<<e>>),
            !.prev_conf_idx = IF IsConf(e) THEN l.last_conf_idx ELSE @,
            !.last_conf_idx = IF IsConf(e) THEN NextIdx(l) ELSE @]

\* Faulty variants: the cached configuration is not rolled back, the stable index is not.
TruncateUncommitted_KeepsConf(l, idx) ==
  LET kept == SubSeq(l.entries, 1, Pos(l, idx) - 1)
  IN  [l EXCEPT !.entries = kept, !.memory_usage = MemoryUsage(kept),
                !.stable_idx = MinOf(@, idx - 1)]

TruncateUncommitted_KeepsStable(l, idx) ==
  LET kept == SubSeq(l.entries, 1, Pos(l, idx) - 1)
      dropsConf == l.last_conf_idx > idx - 1
  IN  [l EXCEPT !.entries = kept, !.memory_usage = MemoryUsage(kept),
                !.last_conf_idx = IF dropsConf THEN l.prev_conf_idx ELSE @,
                !.prev_conf_idx = IF dropsConf THEN 0 ELSE @]

\* The last configuration is rolled back to the one before, which is forgotten.
TruncateUncommitted(l, idx) ==
  LET kept == SubSeq(l.entries, 1, Pos(l, idx) - 1)
      dropsConf == l.last_conf_idx > idx - 1
  IN  [l EXCEPT !.entries = kept,
                !.memory_usage = @ - MemoryUsage(SubSeq(l.entries, Pos(l, idx), Len(l.entries))),
                !.stable_idx = MinOf(@, idx - 1),
                !.last_conf_idx = IF dropsConf THEN l.prev_conf_idx ELSE @,
                !.prev_conf_idx = IF dropsConf THEN 0 ELSE @]

\* Indices of the configuration entries of es that lie after snapshot index s.
ConfIdxs(es, s) == {es[k].idx : k \in {j \in 1..Len(es) : IsConf(es[j]) /\ es[j].idx > s}}

\* The largest element of a finite set of indices, 0 when it is empty.
Greatest(S) == IF S = {} THEN 0 ELSE CHOOSE x \in S : \A y \in S : x >= y

\* The constructor: a log rebuilt from what was loaded from disk.  The
\* backward scan of init_last_conf_idx() stops at the snapshot index.
NewLog(snp, es) ==
  LET confs == ConfIdxs(es, snp.idx)
      last  == Greatest(confs)
      first == IF es = << >> THEN snp.idx + 1 ELSE es[1].idx
  IN  [snapshot |-> snp, entries |-> es, first_idx |-> first,
       stable_idx |-> first + Len(es) - 1,
       last_conf_idx |-> last,
       prev_conf_idx |-> Greatest(confs \ {last}),
       memory_usage |-> MemoryUsage(es)]

\* Faulty variant: terms are not compared.
MatchTerm_AnyTerm(l, idx, term) == idx <= LastIdx(l)

\* match_term(): does the entry at idx have this term?  Inside the snapshot it must.
MatchTerm(l, idx, term) ==
  \/ idx < l.snapshot.idx
  \/ idx = 0
  \/ idx = l.snapshot.idx /\ l.snapshot.term = term
  \/ idx > l.snapshot.idx /\ idx <= LastIdx(l) /\ GetEntry(l, idx).term = term

\* term_for(): the term of the entry at idx, NoTerm for the empty optional.
NoTerm == -1
TermFor(l, idx) ==
  IF l.entries # << >> /\ idx >= l.first_idx THEN GetEntry(l, idx).term
  ELSE IF idx = l.snapshot.idx THEN l.snapshot.term
  ELSE NoTerm

GetConfiguration(l) ==
  IF l.last_conf_idx # 0 THEN GetEntry(l, l.last_conf_idx).data ELSE l.snapshot.config

HasPrevConfiguration(l) == l.prev_conf_idx # 0 \/ l.last_conf_idx > l.snapshot.idx

GetPrevConfiguration(l) ==
  IF l.prev_conf_idx # 0 THEN GetEntry(l, l.prev_conf_idx).data ELSE l.snapshot.config

\* last_conf_for(): the configuration in force at idx, via the cached positions.
LastConfFor(l, idx) ==
  IF l.last_conf_idx = 0 THEN l.snapshot.config
  ELSE IF idx >= l.last_conf_idx THEN GetEntry(l, l.last_conf_idx).data
  ELSE IF l.prev_conf_idx = 0 THEN l.snapshot.config
  ELSE IF idx >= l.prev_conf_idx THEN GetEntry(l, l.prev_conf_idx).data
  ELSE LET below == {i \in ConfIdxs(l.entries, l.snapshot.idx) : i <= idx}
       IN  IF below = {} THEN l.snapshot.config ELSE GetEntry(l, Greatest(below)).data

\* Faulty variants: entries the log holds are not skipped but replaced; entries
\* that precede its first index are not skipped; entries of a newer term are not replaced.
AlreadyHas_Never(l, e) == e.idx < l.first_idx
AlreadyHas_NoSkip(l, e) ==
  e.idx >= l.first_idx /\ e.idx <= LastIdx(l) /\ GetEntry(l, e.idx).term = e.term
AlreadyHas_Newer(l, e) ==
  \/ e.idx < l.first_idx
  \/ e.idx <= LastIdx(l) /\ GetEntry(l, e.idx).term >= e.term

\* maybe_append(): entries the log already holds (or that precede its first
\* index) are skipped; the first one that is missing or has another term
\* truncates the log if need be, and it and all that follow are emplaced.
AlreadyHas(l, e) ==
  \/ e.idx < l.first_idx
  \/ e.idx <= LastIdx(l) /\ GetEntry(l, e.idx).term = e.term

FirstNew(l, es) ==
  CHOOSE k \in 1..(Len(es) + 1) :
    /\ \A j \in 1..(k - 1) : AlreadyHas(l, es[j])
    /\ k <= Len(es) => ~AlreadyHas(l, es[k])

\* The loop of emplace_back() calls, with its effect on the cached positions.
EmplaceAll(l, es) ==
  LET confs == ConfIdxs(es, 0)
      last  == Greatest(confs)
  IN  [l EXCEPT !.entries = @ \o es,
                !.memory_usage = @ + MemoryUsage(es),
                !.last_conf_idx = IF confs = {} THEN @ ELSE last,
                !.prev_conf_idx = IF confs = {} THEN @
                                  ELSE IF confs = {last} THEN l.last_conf_idx
                                  ELSE Greatest(confs \ {last})]

MaybeAppend(l, es) ==
  LET k   == FirstNew(l, es)
      cut == IF es[k].idx <= LastIdx(l) THEN TruncateUncommitted(l, es[k].idx) ELSE l
  IN  IF k > Len(es) THEN l ELSE EmplaceAll(cut, SubSeq(es, k, Len(es)))

\* The assertions of maybe_append() and truncate_uncommitted(): a conflict is
\* never inside the snapshot, and the log never gets a gap.
MaybeAppendAsserts(l, es) ==
  LET k == FirstNew(l, es)
  IN  k <= Len(es) => /\ es[k].idx <= NextIdx(l)
                      /\ es[k].idx <= LastIdx(l) => es[k].idx > l.snapshot.idx

\* How many entries up to and including idx survive a snapshot at idx.
Trailing(l, idx, maxEntries, maxBytes) ==
  CHOOSE n \in 0..MinOf(maxEntries, Pos(l, idx)) :
    /\ MemoryUsage(Slice(l, idx - n + 1, idx)) <= maxBytes
    /\ \/ n = MinOf(maxEntries, Pos(l, idx))
       \/ MemoryUsage(Slice(l, idx - n, idx)) > maxBytes

ApplySnapshot(l, snp, maxEntries, maxBytes) ==
  LET past  == snp.idx > LastIdx(l)
      first == IF past THEN snp.idx + 1
               ELSE snp.idx + 1 - Trailing(l, snp.idx, maxEntries, maxBytes)
      kept  == IF past THEN << >> ELSE Slice(l, first, LastIdx(l))
  IN  [l EXCEPT !.snapshot = snp,
                !.entries = kept,
                !.first_idx = first,
                !.stable_idx = MaxOf(snp.idx, @),
                !.memory_usage = IF past THEN 0
                                 ELSE @ - MemoryUsage(Slice(l, l.first_idx, first - 1)),
                !.prev_conf_idx = IF snp.idx >= @ THEN 0 ELSE @,
                !.last_conf_idx = IF snp.idx >= l.prev_conf_idx /\ snp.idx >= @ THEN 0 ELSE @]
=============================================================================
