------------------------------ MODULE CodePerf ------------------------------
(***************************************************************************)
(* Code performance: how long the program takes from one address to        *)
(* another, on the average of the passes it makes under the debugger.      *)
(* Names are left out: an edit of nothing else is an edit that changes     *)
(* nothing.  The average is kept as the total it is the average of.        *)
(***************************************************************************)
EXTENDS Integers, Sequences, FiniteSets

CONSTANTS
  MaxPerfs,    \* CodePerf::MAX_RECORDS
  LastPerfId,  \* the largest id
  MaxTests,    \* MAX_TEST_COUNT
  Spans,       \* bound: the start and end addresses that clients give, pairs
  MaxClock,    \* bound: the processor's clock
  TrailLen     \* bound: the visits to a record's addresses that are followed

ASSUME CodePerfAssumption ==
  /\ {MaxPerfs, MaxTests} \subseteq Nat \ {0} /\ {LastPerfId, MaxClock, TrailLen} \subseteq Nat
  /\ \A span \in Spans : {span[1], span[2]} \subseteq Nat /\ span[1] < span[2]

VARIABLES
  perfs,     \* m_codePerfs, by id
  nextPerf,  \* m_nextCodePerfId; LastPerfId + 1 stands for m_codePerfIdsExhausted
  cc,        \* the processor's clock
  trails     \* ghost: the visits to the addresses of each record, and what cuts them off

perfVars == <<perfs, nextPerf, cc, trails>>

NoSample == -1
Ends == UNION {{span[1], span[2]} : span \in Spans}

-----------------------------------------------------------------------------
CancelSample(r) == [r EXCEPT !.sampleStart = NoSample]
ResetStatistics(r) == [r EXCEPT !.total = 0, !.testCount = 0, !.sampleStart = NoSample]

(* Mutant: a clock that was set back is not looked at. *)
CheckPerfUnsigned(r, addr, clock) ==
  CASE ~r.active \/ r.testCount >= MaxTests -> r
    [] r.active /\ r.testCount < MaxTests /\ addr = r.span[1] -> [r EXCEPT !.sampleStart = clock]
    [] r.active /\ r.testCount < MaxTests /\ addr # r.span[1] ->
         IF addr # r.span[2] \/ r.sampleStart = NoSample THEN r
         ELSE CancelSample([r EXCEPT !.testCount = @ + 1, !.total = @ + clock - r.sampleStart])
CheckPerf(r, addr, clock) ==
  LET counts == r.active /\ r.testCount < MaxTests
      ends == addr = r.span[2] /\ r.sampleStart # NoSample
  IN  CASE counts /\ addr = r.span[1] -> [r EXCEPT !.sampleStart = clock]
        [] counts /\ ends /\ clock < r.sampleStart -> CancelSample(r)
        [] counts /\ ends /\ clock >= r.sampleStart ->
             CancelSample([r EXCEPT !.testCount = @ + 1, !.total = @ + clock - r.sampleStart])
        [] ~counts \/ (addr # r.span[1] /\ ~ends) -> r

-----------------------------------------------------------------------------
(* What happens to a record, for the trail. *)
Cut(trail) == IF trail = <<>> \/ trail[Len(trail)].at = "cut" THEN trail
              ELSE Append(trail, [at |-> "cut", clock |-> 0])
Visit(trail, r, addr, clock) ==
  IF ~r.active \/ addr \notin {r.span[1], r.span[2]} THEN trail
  ELSE Append(trail, [at |-> IF addr = r.span[1] THEN "start" ELSE "end", clock |-> clock])

(* An instruction under the debugger ends at addr. *)
Execute(addr, clock) ==
  /\ cc < clock /\ cc' = clock
  /\ perfs' = [id \in DOMAIN perfs |-> CheckPerf(perfs[id], addr, clock)]
  /\ trails' = [id \in DOMAIN trails |-> Visit(trails[id], perfs[id], addr, clock)]
  /\ UNCHANGED nextPerf

(* Headless runs move the clock on, playback of the recorder sets it to    *)
(* another time; neither looks at the records.                             *)
Elsewhere(clock) == cc' = clock /\ UNCHANGED <<perfs, nextPerf, trails>>

(* Reset(), Restart() and with them the loading of ROMs. *)
CancelCodePerfSamples ==
  /\ cc' = 0
  /\ perfs' = [id \in DOMAIN perfs |-> CancelSample(perfs[id])]
  /\ trails' = [id \in DOMAIN trails |-> Cut(trails[id])]
  /\ UNCHANGED nextPerf

-----------------------------------------------------------------------------
(* Requests; an addition or edit that throws changes nothing. *)
AddCodePerf(span, active) ==
  LET new == [span |-> span, active |-> active, total |-> 0, testCount |-> 0, sampleStart |-> NoSample]
  IN  /\ Cardinality(DOMAIN perfs) < MaxPerfs /\ nextPerf <= LastPerfId
      /\ perfs' = [id \in DOMAIN perfs \cup {nextPerf} |-> IF id = nextPerf THEN new ELSE perfs[id]]
      /\ trails' = [id \in DOMAIN trails \cup {nextPerf} |-> IF id = nextPerf THEN <<>> ELSE trails[id]]
      /\ nextPerf' = nextPerf + 1 /\ UNCHANGED cc

EditCodePerf(id, span, active) ==
  LET new == [perfs[id] EXCEPT !.span = span, !.active = active]
      moved == span # perfs[id].span
      switched == active # perfs[id].active
  IN  /\ perfs' = [perfs EXCEPT ![id] = IF moved THEN ResetStatistics(new)
                                        ELSE IF switched THEN CancelSample(new) ELSE new]
      /\ trails' = [trails EXCEPT ![id] = IF moved THEN <<>> ELSE IF switched THEN Cut(@) ELSE @]
      /\ UNCHANGED <<nextPerf, cc>>

DelCodePerfs(ids) ==
  /\ perfs' = [id \in DOMAIN perfs \ ids |-> perfs[id]]
  /\ trails' = [id \in DOMAIN trails \ ids |-> trails[id]]
  /\ UNCHANGED <<nextPerf, cc>>
DelCodePerf(id) == DelCodePerfs({id})
DelAllCodePerfs == DelCodePerfs(DOMAIN perfs)

PerfInit == perfs = [id \in {} |-> id] /\ trails = perfs /\ nextPerf = 0 /\ cc = 0
PerfNext ==
  /\ \/ \E clock \in 0..MaxClock :
          Elsewhere(clock) \/ \E addr \in Ends : Execute(addr, clock)
     \/ CancelCodePerfSamples \/ DelAllCodePerfs
     \/ \E span \in Spans, active \in BOOLEAN :
          AddCodePerf(span, active) \/ \E id \in DOMAIN perfs : EditCodePerf(id, span, active)
     \/ \E id \in DOMAIN perfs : DelCodePerf(id)
  /\ \A id \in DOMAIN trails' : Len(trails'[id]) <= TrailLen

-----------------------------------------------------------------------------
PerfTypeOK ==
  /\ DOMAIN perfs \subseteq 0..(nextPerf - 1) /\ Cardinality(DOMAIN perfs) <= MaxPerfs
  /\ nextPerf \in 0..(LastPerfId + 1)
  /\ \A id \in DOMAIN perfs :
       /\ perfs[id].span \in Spans /\ perfs[id].active \in BOOLEAN
       /\ perfs[id].testCount \in 0..MaxTests /\ perfs[id].total \in Nat
       /\ perfs[id].sampleStart \in {NoSample} \cup 0..MaxClock

(* The passes of a trail: a start and an end that nothing lies between,    *)
(* the clock not set back meanwhile.  The first MaxTests of them are told. *)
PassEndsAt(trail, n) ==
  /\ n > 1 /\ trail[n - 1].at = "start" /\ trail[n].at = "end"
  /\ trail[n - 1].clock <= trail[n].clock
Told(trail) ==
  LET told[n \in 0..Len(trail)] ==
        IF n = 0 THEN [count |-> 0, total |-> 0]
        ELSE IF PassEndsAt(trail, n) /\ told[n - 1].count < MaxTests
        THEN [count |-> told[n - 1].count + 1,
              total |-> told[n - 1].total + trail[n].clock - trail[n - 1].clock]
        ELSE told[n - 1]
  IN  told[Len(trail)]

(* A record's count and average are those of its first MaxTests passes     *)
(* since its addresses were given, and of nothing else, whatever was       *)
(* switched off and on, reset, restarted, played back or run without the   *)
(* debugger in between; the pass under way is the one that may still count *)
(* (CheckPerf(), Edit(), CancelCodePerfSamples()).                         *)
SamplesExact ==
  \A id \in DOMAIN perfs :
    LET r == perfs[id]
        trail == trails[id]
    IN  /\ r.testCount = Told(trail).count /\ r.total = Told(trail).total
        /\ r.sampleStart = IF r.testCount < MaxTests /\ trail # <<>> /\ trail[Len(trail)].at = "start"
                           THEN trail[Len(trail)].clock ELSE NoSample
=============================================================================
