------------------------- MODULE GnssTrackingProofs -------------------------
(***************************************************************************)
(* What GnssTracking keeps true for every set of sessions, clients and     *)
(* options.                                                                *)
(***************************************************************************)
EXTENDS GnssTracking, FiniteSetTheorems, TLAPS

-----------------------------------------------------------------------------
(* Types. *)

\* A client is removed once: while the message that removes it waits it is
\* registered, and there is no other such message.
RemovedOnce ==
    \A i \in 1..Len(msgQ) : msgQ[i].m = "remove" =>
        /\ msgQ[i].c \in clients \ removing
        /\ \A j \in 1..Len(msgQ) : msgQ[j].m = "remove" /\ msgQ[j].c = msgQ[i].c => j = i

\* Deferred commands are starts and updates.
DeferredOnes == \A i \in 1..Len(pending) : pending[i].m \in {"start", "update"}

FiniteMaps == IsFiniteSet(DOMAIN db)

TypedInv == TypeOK /\ RemovedOnce /\ DeferredOnes /\ FiniteMaps

-----------------------------------------------------------------------------
(* The rate of the engine. *)

\* The command that decides what the fix session will be: the last one of
\* those under way that starts or stops it, or else it stays what it is.
Decides(q) == {i \in 1..Len(q) : q[i].op \in {"startTB", "stopFix"}}

Plans(q, f) == {q[i].o : i \in {k \in Decides(q) : \A j \in Decides(q) : j <= k}}
               \cup {o \in {f} : Decides(q) = {}}

\* o is fast enough for the sessions f and for the NHz requirement.
Rate(o, f, hz, spe) ==
    /\ \A s \in DOMAIN f : MinInterval <= o.int /\ o.int <= f[s].int
    /\ hz /\ DOMAIN f # {} => o.int = MinInterval
    /\ spe => o.int = MinInterval

Good(q, f, t, hz, spe) == \A o \in Plans(q, f) : Rate(o, t, hz, spe)

\* The engine is up and no event that makes the adapter restart its sessions is
\* waiting.
Opened == up /\ \A i \in 1..Len(msgQ) : msgQ[i].m # "engineUp"

PlanServes == Opened => Good(apiQ, fix, tb, nhz, speHigh)

HighIsNeeded == speHigh => nhz

\* Answers of errors date from before the engine came up.
OldErrors ==
    up => \A i \in 1..Len(msgQ) : msgQ[i].m = "resp" /\ ~msgQ[i].ok =>
              \E j \in i..Len(msgQ) : msgQ[j].m = "engineUp"

\* Options of the sessions, and those captured by callbacks.
TimeOption(o) == MinInterval <= o.int /\ ~o.dist

Captured(x) ==
    /\ x.cb \in {"update", "toTimeBased"} => TimeOption(x.co)
    /\ x.cb \in {"restart", "restarted"} => IsDistance(x.co)

CommandKept(c) ==
    c.op # "open" => Captured(c) /\ (c.op = "stopFix" => c.o = None)

OptionsKept ==
    /\ \A s \in DOMAIN tb : TimeOption(tb[s])
    /\ \A s \in DOMAIN db : IsDistance(db[s])
    /\ \A i \in 1..Len(apiQ) : CommandKept(apiQ[i])
    /\ \A i \in 1..Len(msgQ) : msgQ[i].m = "resp" => Captured(msgQ[i])

RateInv == HighIsNeeded /\ OldErrors /\ OptionsKept /\ PlanServes

\* An engine that refuses nothing while it is up, and no distance based
\* sessions if it has no support for them.
Reliable == ~EngineErrors /\ \A o \in Options : o.dist => DistanceSupported

-----------------------------------------------------------------------------
(* The maps of sessions. *)

MapTyped(f) == DOMAIN f \subseteq Sessions /\ \A s \in DOMAIN f : f[s] \in OptionType

LEMMA NoneTyped == None \in OptionType /\ None.int = 0 /\ ~None.dist
  BY DEF None, OptionType

LEMMA RaiseTyped ==
    ASSUME NEW o \in OptionType
    PROVE  /\ Raise(o) \in OptionType
           /\ Raise(o).int >= MinInterval
           /\ Raise(o).dist = o.dist
           /\ Raise(o).pow = o.pow
           /\ IsDistance(Raise(o)) <=> IsDistance(o)
  BY OptionAssumption DEF Raise, OptionType, IsDistance

LEMMA PutFacts ==
    ASSUME NEW f, NEW s, NEW o
    PROVE  /\ DOMAIN Put(f, s, o) = DOMAIN f \cup {s}
           /\ Put(f, s, o)[s] = o
           /\ \A x \in DOMAIN f : x # s => Put(f, s, o)[x] = f[x]
  BY DEF Put

LEMMA DropFacts ==
    ASSUME NEW f, NEW s
    PROVE  /\ DOMAIN Drop(f, s) = DOMAIN f \ {s}
           /\ \A x \in DOMAIN f \ {s} : Drop(f, s)[x] = f[x]
  BY DEF Drop

\* What saving a session and erasing it do to a pair of maps.
LEMMA SaveFacts ==
    ASSUME NEW f, NEW g, NEW s, NEW o
    PROVE  /\ IsDistance(o) => save(<<f, g>>, s, o) = <<f, Put(g, s, o)>>
           /\ ~IsDistance(o) => save(<<f, g>>, s, o) = <<Put(f, s, o), g>>
  BY DEF save

LEMMA EraseFacts ==
    ASSUME NEW f, NEW g, NEW s
    PROVE  /\ s \in DOMAIN f => erase(<<f, g>>, s) = <<Drop(f, s), g>>
           /\ s \notin DOMAIN f => erase(<<f, g>>, s) = <<f, Drop(g, s)>>
  BY DEF erase

LEMMA PutTyped ==
    ASSUME NEW f, MapTyped(f), NEW s \in Sessions, NEW o \in OptionType
    PROVE  /\ MapTyped(Put(f, s, o))
           /\ IsFiniteSet(DOMAIN f) => IsFiniteSet(DOMAIN Put(f, s, o))
<1>1. DOMAIN Put(f, s, o) = DOMAIN f \cup {s}
  BY PutFacts
<1>2. \A x \in DOMAIN Put(f, s, o) : Put(f, s, o)[x] \in OptionType
  BY DEF Put, MapTyped
<1>3. IsFiniteSet(DOMAIN f) => IsFiniteSet(DOMAIN f \cup {s})
  BY FS_AddElement
<1> QED
  BY <1>1, <1>2, <1>3 DEF MapTyped

LEMMA DropTyped ==
    ASSUME NEW f, MapTyped(f), NEW s
    PROVE  /\ MapTyped(Drop(f, s))
           /\ IsFiniteSet(DOMAIN f) => IsFiniteSet(DOMAIN Drop(f, s))
<1>1. DOMAIN Drop(f, s) = DOMAIN f \ {s}
  BY DropFacts
<1>2. \A x \in DOMAIN Drop(f, s) : Drop(f, s)[x] \in OptionType
  BY DEF Drop, MapTyped
<1>3. IsFiniteSet(DOMAIN f) => IsFiniteSet(DOMAIN f \ {s})
  BY FS_RemoveElement
<1> QED
  BY <1>1, <1>2, <1>3 DEF MapTyped

\* A pair of maps as a step may leave them.
MapsTyped(f, g) == MapTyped(f) /\ MapTyped(g) /\ IsFiniteSet(DOMAIN g)

PairTyped(m) == \E f, g : m = <<f, g>> /\ MapsTyped(f, g)

LEMMA SaveTyped ==
    ASSUME NEW m, PairTyped(m), NEW s \in Sessions, NEW o \in OptionType
    PROVE  PairTyped(save(m, s, o))
<1>1. PICK f, g : m = <<f, g>> /\ MapsTyped(f, g)
  BY DEF PairTyped
<1>2. MapTyped(Put(f, s, o)) /\ MapTyped(Put(g, s, o)) /\ IsFiniteSet(DOMAIN Put(g, s, o))
  BY <1>1, PutTyped DEF MapsTyped
<1>3. save(m, s, o) = <<f, Put(g, s, o)>> \/ save(m, s, o) = <<Put(f, s, o), g>>
  BY <1>1, SaveFacts
<1> QED
  BY <1>1, <1>2, <1>3 DEF PairTyped, MapsTyped

LEMMA EraseTyped ==
    ASSUME NEW m, PairTyped(m), NEW s
    PROVE  PairTyped(erase(m, s))
<1>1. PICK f, g : m = <<f, g>> /\ MapsTyped(f, g)
  BY DEF PairTyped
<1>2. MapTyped(Drop(f, s)) /\ MapTyped(Drop(g, s)) /\ IsFiniteSet(DOMAIN Drop(g, s))
  BY <1>1, DropTyped DEF MapsTyped
<1>3. erase(m, s) = <<f, Drop(g, s)>> \/ erase(m, s) = <<Drop(f, s), g>>
  BY <1>1, EraseFacts
<1> QED
  BY <1>1, <1>2, <1>3 DEF PairTyped, MapsTyped

-----------------------------------------------------------------------------
(* What the multiplexing sends. *)

IsEffect(e) == e = [cmds |-> e.cmds, spe |-> e.spe, rep |-> e.rep]

\* An effect sends nothing to the engine and leaves speHigh; ...
Silent(e) == IsEffect(e) /\ e.cmds = <<>> /\ e.spe = speHigh /\ e.rep \in {"caller", "self"}

\* ... or it runs the engine with options p, ...
Runs(e, cb, s, co, p) ==
    /\ IsEffect(e)
    /\ e.cmds = <<Cmd("startTB", p, cb, s, co)>>
    /\ e.rep = "later"
    /\ p \in OptionType
    /\ e.spe \in BOOLEAN
    /\ nhz => p.int <= MinInterval
    /\ ~(nhz /\ speHigh)
    /\ e.spe => (nhz /\ p.int = MinInterval) \/ speHigh

\* ... or it ends the fix session.
Ends(e, s) ==
    /\ IsEffect(e)
    /\ e.cmds = <<Cmd("stopFix", None, "stop", s, None)>>
    /\ e.rep = "later"
    /\ e.spe = FALSE

\* The engine is fast enough for NHz already.
Fast(e) == Silent(e) /\ nhz /\ speHigh

LEMMA RunEngineFacts ==
    ASSUME speHigh \in BOOLEAN, nhz \in BOOLEAN,
           NEW o \in OptionType, NEW cb, NEW s, NEW co
    PROVE  LET e == RunEngine(o, cb, s, co)
           IN  Fast(e) \/ \E p \in OptionType : Runs(e, cb, s, co, p) /\ p.int <= o.int
                                               /\ (p.int = o.int \/ p.int = MinInterval)
<1> DEFINE e == RunEngine(o, cb, s, co)
           p == IF nhz /\ o.int > MinInterval THEN [o EXCEPT !.int = MinInterval] ELSE o
<1>1. CASE nhz /\ speHigh
  BY <1>1 DEF RunEngine, Fast, Silent, IsEffect
<1>2. CASE ~(nhz /\ speHigh)
  <2>1. e = [cmds |-> <<Cmd("startTB", p, cb, s, co)>>,
             spe |-> speHigh \/ (nhz /\ o.int > MinInterval), rep |-> "later"]
    BY <1>2 DEF RunEngine
  <2>2. p \in OptionType /\ p.int <= o.int /\ (p.int = o.int \/ p.int = MinInterval)
    BY OptionAssumption DEF OptionType
  <2>3. nhz => p.int <= MinInterval
    BY OptionAssumption DEF OptionType
  <2>4. nhz /\ o.int > MinInterval => p.int = MinInterval
    BY DEF OptionType
  <2>5. Runs(e, cb, s, co, p)
    <3> HIDE DEF p
    <3> QED
      BY <1>2, <2>1, <2>2, <2>3, <2>4 DEF Runs, IsEffect
  <2> QED
    BY <2>2, <2>5
<1> QED
  BY <1>1, <1>2

LEMMA SmallestFacts ==
    ASSUME NEW f, MapTyped(f), NEW o \in Smallest(f)
    PROVE  /\ o \in OptionType
           /\ \E t \in DOMAIN f : o = f[t]
           /\ \A t \in DOMAIN f : o.int <= f[t].int
  BY DEF Smallest, MapTyped

LEMMA MuxPowerFacts ==
    ASSUME NEW f, MapTyped(f), NEW p \in MuxPower(f)
    PROVE  p \in 0..5
  BY DEF MuxPower, Powers, MapTyped, OptionType

LEMMA MergeFacts ==
    ASSUME NEW o \in OptionType, NEW small \in OptionType, NEW pow \in 0..5
    PROVE  LET m == Merge(o, small, pow)
           IN  /\ m \in OptionType
               /\ m.int <= o.int /\ m.int <= small.int
               /\ m.int = o.int \/ m.int = small.int
<1>1. PICK i \in Nat : i = IF o.int < small.int THEN o.int ELSE small.int
  BY DEF OptionType
<1>2. PICK p \in 0..5 : p = IF o.pow < pow THEN o.pow ELSE small.pow
  BY DEF OptionType
<1>3. Merge(o, small, pow) = [small EXCEPT !.int = i, !.pow = p]
  BY <1>1, <1>2 DEF Merge, OptionType
<1>4. [small EXCEPT !.int = i, !.pow = p] \in OptionType
      /\ [small EXCEPT !.int = i, !.pow = p].int = i
  BY DEF OptionType
<1>5. i <= o.int /\ i <= small.int /\ (i = o.int \/ i = small.int)
  BY <1>1 DEF OptionType
<1> QED
  BY <1>3, <1>4, <1>5

\* The engine will be fast enough for a session s that is started or updated
\* with options o, and for the others.
Covers(e, cb, s, co, o) ==
    \/ Fast(e)
    \/ Silent(e) /\ \E t \in DOMAIN tb : tb[t].int <= o.int
    \/ \E p \in OptionType :
          /\ Runs(e, cb, s, co, p)
          /\ p.int <= o.int
          /\ \A t \in DOMAIN tb \ {s} : p.int <= tb[t].int
          /\ \/ p.int = MinInterval \/ p.int = o.int
             \/ \E t \in DOMAIN tb : p.int = tb[t].int

\* The engine ends the fix session with the last session s, or is fast enough for
\* the others.
Frees(e, s) ==
    \/ Ends(e, s) /\ DOMAIN tb \subseteq {s}
    \/ /\ ~(DOMAIN tb \subseteq {s})
       /\ \/ Silent(e)
          \/ \E p \in OptionType :
                /\ Runs(e, "start", s, None, p)
                /\ \A t \in DOMAIN tb \ {s} : p.int <= tb[t].int
                /\ p.int = MinInterval \/ \E t \in DOMAIN tb : p.int = tb[t].int

LEMMA NothingFacts == Silent(Nothing)
  BY DEF Silent, Nothing, IsEffect

\* The engine run with the options that merge o with the fastest of the others.
LEMMA MergedRun ==
    ASSUME speHigh \in BOOLEAN, nhz \in BOOLEAN, NEW f, MapTyped(f),
           NEW small \in Smallest(f), NEW pow \in MuxPower(f),
           NEW o \in OptionType, NEW cb, NEW s, NEW co
    PROVE  LET e == RunEngine(Merge(o, small, pow), cb, s, co)
           IN  Fast(e) \/ \E p \in OptionType :
                   /\ Runs(e, cb, s, co, p)
                   /\ p.int <= o.int
                   /\ \A t \in DOMAIN f : p.int <= f[t].int
                   /\ \/ p.int = MinInterval \/ p.int = o.int
                      \/ \E t \in DOMAIN f : p.int = f[t].int
<1> DEFINE m == Merge(o, small, pow)
           e == RunEngine(m, cb, s, co)
<1>1. /\ small \in OptionType
      /\ \E t \in DOMAIN f : small = f[t]
      /\ \A t \in DOMAIN f : small.int <= f[t].int
  BY SmallestFacts
<1>2. m \in OptionType /\ m.int <= o.int /\ m.int <= small.int
      /\ (m.int = o.int \/ m.int = small.int)
  BY <1>1, MuxPowerFacts, MergeFacts
<1> HIDE DEF m
<1>3. Fast(e) \/ \E p \in OptionType : Runs(e, cb, s, co, p) /\ p.int <= m.int
                                      /\ (p.int = m.int \/ p.int = MinInterval)
  BY <1>2, RunEngineFacts
<1>4. ASSUME NEW p \in OptionType, p.int <= m.int, p.int = m.int \/ p.int = MinInterval
      PROVE  /\ p.int <= o.int
             /\ \A t \in DOMAIN f : p.int <= f[t].int
             /\ \/ p.int = MinInterval \/ p.int = o.int
                \/ \E t \in DOMAIN f : p.int = f[t].int
  <2>1. p.int \in Nat /\ m.int \in Nat /\ o.int \in Nat /\ small.int \in Nat
    BY <1>1, <1>2 DEF OptionType
  <2>2. \A t \in DOMAIN f : f[t].int \in Nat
    BY DEF MapTyped, OptionType
  <2>3. p.int <= small.int
    BY <1>2, <1>4, <2>1
  <2>4. \A t \in DOMAIN f : p.int <= f[t].int
    BY <1>1, <2>1, <2>2, <2>3
  <2>5. p.int = MinInterval \/ p.int = o.int \/ p.int = small.int
    BY <1>2, <1>4
  <2> QED
    BY <1>1, <1>2, <1>4, <2>1, <2>4, <2>5
<1> HIDE DEF e
<1> QED
  BY <1>3, <1>4 DEF e, m

LEMMA FreesAreEffects ==
    ASSUME NEW e, NEW s, Frees(e, s)
    PROVE  IsEffect(e)
  BY DEF Frees, Silent, Runs, Ends

LEMMA startMultiplexFacts ==
    ASSUME speHigh \in BOOLEAN, nhz \in BOOLEAN, MapTyped(tb),
           NEW s, NEW o \in OptionType, NEW e \in startMultiplex(s, o)
    PROVE  Covers(e, "start", s, None, o)
<1>1. CASE DOMAIN tb = {}
  BY <1>1, RunEngineFacts DEF startMultiplex, Covers
<1>2. CASE DOMAIN tb # {}
  <2>1. PICK small \in Smallest(tb), pow \in MuxPower(tb) :
           e = IF o.int < small.int \/ o.pow < pow
               THEN RunEngine(Merge(o, small, pow), "start", s, None)
               ELSE Nothing
    BY <1>2 DEF startMultiplex
  <2>2. CASE e = RunEngine(Merge(o, small, pow), "start", s, None)
    BY <2>2, MergedRun DEF Covers
  <2>3. CASE e = Nothing /\ ~(o.int < small.int)
    BY <2>3, SmallestFacts, NothingFacts DEF OptionType, Covers
  <2> QED
    BY <2>1, <2>2, <2>3
<1> QED
  BY <1>1, <1>2

LEMMA updateMultiplexFacts ==
    ASSUME speHigh \in BOOLEAN, nhz \in BOOLEAN, MapTyped(tb),
           NEW s \in DOMAIN tb, NEW o \in OptionType, NEW e \in updateMultiplex(s, o)
    PROVE  Covers(e, "update", s, tb[s], o)
<1> DEFINE others == Drop(tb, s)
<1>1. /\ DOMAIN others = DOMAIN tb \ {s}
      /\ \A t \in DOMAIN others : others[t] = tb[t]
      /\ MapTyped(others)
  BY DropFacts, DropTyped
<1>2. CASE tb[s].int = o.int /\ tb[s].pow = o.pow
  BY <1>2, NothingFacts DEF updateMultiplex, MapTyped, OptionType, Covers
<1>3. CASE ~(tb[s].int = o.int /\ tb[s].pow = o.pow) /\ DOMAIN others = {}
  BY <1>1, <1>3, RunEngineFacts DEF updateMultiplex, Covers
<1>4. CASE ~(tb[s].int = o.int /\ tb[s].pow = o.pow) /\ DOMAIN others # {}
  <2>1. PICK small \in Smallest(others), pow \in MuxPower(others) :
           e = IF o.int < small.int \/ o.pow < pow
               THEN RunEngine(Merge(o, small, pow), "update", s, tb[s])
               ELSE Nothing
    BY <1>4 DEF updateMultiplex
  <2> HIDE DEF others
  <2>2. CASE e = RunEngine(Merge(o, small, pow), "update", s, tb[s])
    BY <1>1, <2>2, MergedRun DEF Covers
  <2>3. CASE e = Nothing /\ ~(o.int < small.int)
    <3>1. PICK t \in DOMAIN others : small = others[t]
      BY <1>1, SmallestFacts
    <3>2. small \in OptionType
      BY <1>1, SmallestFacts
    <3>3. tb[t].int <= o.int /\ t \in DOMAIN tb
      BY <1>1, <2>3, <3>1, <3>2 DEF OptionType
    <3> QED
      BY <2>3, <3>3, NothingFacts DEF Covers
  <2> QED
    BY <2>1, <2>2, <2>3
<1> QED
  BY <1>2, <1>3, <1>4

LEMMA stopMultiplexFacts ==
    ASSUME speHigh \in BOOLEAN, nhz \in BOOLEAN, MapTyped(tb),
           NEW s \in DOMAIN tb, NEW e \in stopMultiplex(s)
    PROVE  Frees(e, s)
<1> DEFINE others == Drop(tb, s)
<1>1. /\ DOMAIN others = DOMAIN tb \ {s}
      /\ \A t \in DOMAIN others : others[t] = tb[t]
      /\ MapTyped(others)
  BY DropFacts, DropTyped
<1>2. CASE DOMAIN others = {}
  BY <1>1, <1>2 DEF stopMultiplex, Frees, Ends, IsEffect
<1>3. CASE DOMAIN others # {}
  <2> DEFINE R(small, pow) == IF tb[s].int < small.int \/ tb[s].pow < pow
                              THEN RunEngine([small EXCEPT !.pow = pow], "start", s, None)
                              ELSE Nothing
             RS == {R(small, pow) : small \in Smallest(others), pow \in MuxPower(others)}
  <2>0. stopMultiplex(s) = IF DOMAIN others = {}
                           THEN {[cmds |-> <<Cmd("stopFix", None, "stop", s, None)>>,
                                  spe |-> FALSE, rep |-> "later"]}
                           ELSE RS
    BY DEF stopMultiplex
  <2>a. e \in RS
    <3> HIDE DEF RS
    <3> QED
      BY <1>3, <2>0
  <2>b. \E small \in Smallest(others), pow \in MuxPower(others) : e = R(small, pow)
    <3> HIDE DEF R
    <3> QED
      BY <2>a
  <2>1. PICK small \in Smallest(others), pow \in MuxPower(others) :
           e = IF tb[s].int < small.int \/ tb[s].pow < pow
               THEN RunEngine([small EXCEPT !.pow = pow], "start", s, None)
               ELSE Nothing
    BY <2>b
  <2> HIDE DEF R, RS
  <2> HIDE DEF others
  <2>2. ~(DOMAIN tb \subseteq {s})
    BY <1>1, <1>3
  <2>3. CASE e = RunEngine([small EXCEPT !.pow = pow], "start", s, None)
    <3> DEFINE m == [small EXCEPT !.pow = pow]
    <3>1. /\ small \in OptionType
          /\ \E t \in DOMAIN others : small = others[t]
          /\ \A t \in DOMAIN others : small.int <= others[t].int
      BY <1>1, SmallestFacts
    <3>2. m \in OptionType /\ m.int = small.int
      BY <1>1, <3>1, MuxPowerFacts DEF OptionType
    <3> HIDE DEF m
    <3>3. Fast(e) \/ \E p \in OptionType : Runs(e, "start", s, None, p) /\ p.int <= m.int
                                      /\ (p.int = m.int \/ p.int = MinInterval)
      BY <2>3, <3>2, RunEngineFacts DEF m
    <3>4. ASSUME NEW p \in OptionType, p.int <= m.int, p.int = m.int \/ p.int = MinInterval
          PROVE  /\ \A t \in DOMAIN tb \ {s} : p.int <= tb[t].int
                 /\ p.int = MinInterval \/ \E t \in DOMAIN tb : p.int = tb[t].int
      BY <1>1, <3>1, <3>2, <3>4 DEF OptionType, MapTyped
    <3> QED
      BY <2>2, <3>3, <3>4 DEF Frees, Fast
  <2>4. CASE e = Nothing
    BY <2>2, <2>4, NothingFacts DEF Frees
  <2> QED
    BY <2>1, <2>3, <2>4
<1> QED
  BY <1>2, <1>3

-----------------------------------------------------------------------------
(* Commands and messages. *)

LEMMA CmdTyped ==
    ASSUME NEW op \in {"startTB", "stopFix", "startDB", "stopDB"}, NEW o \in OptionType,
           NEW cb \in Callback, NEW s \in Sessions, NEW co \in OptionType
    PROVE  /\ Cmd(op, o, cb, s, co) \in Command
           /\ <<Cmd(op, o, cb, s, co)>> \in Seq(Command)
  BY DEF Cmd, Command

LEMMA CommandFields ==
    ASSUME NEW c \in Command
    PROVE  \/ c = OpenMsg
           \/ /\ c.op \in {"startTB", "stopFix", "startDB", "stopDB"} /\ c.o \in OptionType
              /\ c.cb \in Callback /\ c.s \in Sessions /\ c.co \in OptionType
  BY DEF Command, OpenMsg

LEMMA MessageFields ==
    ASSUME NEW m \in Message
    PROVE  /\ m.m \in {"start", "update"} => m.s \in Sessions /\ m.o \in Options \cup {None}
           /\ m.m = "stop" => m.s \in Sessions
           /\ m.m = "remove" => m.c \in Clients
           /\ m.m = "resp" => /\ m.cb \in Callback /\ m.s \in Sessions
                              /\ m.co \in OptionType /\ m.ok \in BOOLEAN
           /\ m.m \in {"start", "update", "stop", "remove", "resp", "engineUp", "nhz"}
<1>1. CASE m \in [m : {"start", "update"}, s : Sessions, o : Options \cup {None}]
  BY <1>1
<1>2. CASE m \in [m : {"stop"}, s : Sessions]
  BY <1>2
<1>3. CASE m \in [m : {"remove"}, c : Clients]
  BY <1>3
<1>4. CASE m \in [m : {"resp"}, cb : Callback, s : Sessions, co : OptionType, ok : BOOLEAN]
  BY <1>4
<1>5. CASE m \in [m : {"engineUp", "nhz"}]
  BY <1>5
<1> QED
  BY <1>1, <1>2, <1>3, <1>4, <1>5 DEF Message

\* The first element of a queue and the rest of it.
LEMMA HeadTail ==
    ASSUME NEW S, NEW q \in Seq(S), q # <<>>
    PROVE  /\ Head(q) \in S /\ Head(q) = q[1] /\ 1 \in 1..Len(q)
           /\ Tail(q) \in Seq(S) /\ Len(q) = Len(Tail(q)) + 1
           /\ Len(q) \in Nat /\ Len(Tail(q)) \in Nat
           /\ \A i \in 1..Len(Tail(q)) : i + 1 \in 1..Len(q) /\ Tail(q)[i] = q[i + 1]
           /\ \A i \in 1..Len(q) : i = 1 \/ (i - 1 \in 1..Len(Tail(q)) /\ Tail(q)[i - 1] = q[i])
  OBVIOUS

LEMMA AppendFacts ==
    ASSUME NEW S, NEW q \in Seq(S), NEW x \in S
    PROVE  /\ Append(q, x) \in Seq(S)
           /\ Len(q) \in Nat /\ Len(Append(q, x)) = Len(q) + 1
           /\ \A i \in 1..Len(q) : i \in 1..Len(Append(q, x)) /\ Append(q, x)[i] = q[i]
           /\ Append(q, x)[Len(q) + 1] = x
           /\ \A i \in 1..Len(Append(q, x)) : i \in 1..Len(q) \/ i = Len(q) + 1
  OBVIOUS

LEMMA ConcatFacts ==
    ASSUME NEW S, NEW q \in Seq(S), NEW r \in Seq(S)
    PROVE  /\ q \o r \in Seq(S)
           /\ Len(q) \in Nat /\ Len(r) \in Nat /\ Len(q \o r) = Len(q) + Len(r)
           /\ \A i \in 1..Len(q) : i \in 1..Len(q \o r) /\ (q \o r)[i] = q[i]
           /\ \A i \in 1..Len(r) : /\ i + Len(q) \in 1..Len(q \o r)
                                   /\ (q \o r)[i + Len(q)] = r[i]
           /\ \A i \in 1..Len(q \o r) : i \in 1..Len(q) \/ i - Len(q) \in 1..Len(r)
  OBVIOUS

LEMMA DistanceCmdsFacts ==
    ASSUME MapTyped(db), NEW S \in SUBSET DOMAIN db, IsFiniteSet(S),
           NEW op \in {"startDB", "stopDB"}, NEW cb \in Callback,
           NEW q \in DistanceCmds(S, op, cb)
    PROVE  /\ q \in Seq(Command)
           /\ \A i \in 1..Len(q) : /\ q[i].s \in S
                                   /\ q[i] = Cmd(op, db[q[i].s], cb, q[i].s, None)
<1> DEFINE C == {Cmd(op, db[s], cb, s, None) : s \in S}
<1>1. PICK n \in Nat : n = Cardinality(S)
  BY FS_CardinalityType
<1>2. q \in [1..n -> C]
  BY <1>1 DEF DistanceCmds
<1>3. \A c \in C : c \in Command /\ c.s \in S /\ c = Cmd(op, db[c.s], cb, c.s, None)
  <2> SUFFICES ASSUME NEW s \in S, NEW c, c = Cmd(op, db[s], cb, s, None)
               PROVE  c \in Command /\ c.s \in S /\ c = Cmd(op, db[c.s], cb, c.s, None)
    OBVIOUS
  <2>1. s \in Sessions /\ db[s] \in OptionType
    BY DEF MapTyped
  <2>2. c \in Command
    BY <2>1, CmdTyped, NoneTyped
  <2>3. c.s = s
    BY DEF Cmd
  <2> QED
    BY <2>2, <2>3
<1> HIDE DEF C
<1>4. q \in Seq(C) /\ Len(q) = n
  BY <1>2
<1>5. q \in Seq(Command)
  BY <1>2, <1>3, <1>4
<1> QED
  BY <1>2, <1>3, <1>4, <1>5

\* What restarting the time based sessions sends.
Restarts(e, hz) ==
    \/ DOMAIN tb = {} /\ e.cmds = <<>> /\ e.spe = FALSE
    \/ \E p \in OptionType, s \in Sessions :
          /\ e.cmds = <<Cmd("startTB", p, "none", s, None)>>
          /\ e.spe \in BOOLEAN
          /\ \A t \in DOMAIN tb : p.int <= tb[t].int
          /\ p.int = MinInterval \/ \E t \in DOMAIN tb : p.int = tb[t].int
          /\ hz => p.int <= MinInterval
          /\ e.spe => hz /\ p.int = MinInterval

LEMMA RestartOptionsFacts ==
    ASSUME MapTyped(tb), NEW o \in RestartOptions
    PROVE  /\ o \in OptionType
           /\ \A t \in DOMAIN tb : o.int <= tb[t].int
           /\ \E t \in DOMAIN tb : o.int = tb[t].int
<1> DEFINE pows == {p \in Powers(tb) \ {0} : \A q \in Powers(tb) \ {0} : p <= q}
                   \cup (IF 0 \in Powers(tb) THEN {0} ELSE {})
<1>1. pows \subseteq 0..5
  BY DEF Powers, MapTyped, OptionType
<1>2. RestartOptions = {[small EXCEPT !.pow = p] : small \in Smallest(tb), p \in pows}
  BY DEF RestartOptions
<1> HIDE DEF pows
<1>3. PICK small \in Smallest(tb), p \in pows : o = [small EXCEPT !.pow = p]
  BY <1>2
<1>4. /\ small \in OptionType
      /\ \E t \in DOMAIN tb : small = tb[t]
      /\ \A t \in DOMAIN tb : small.int <= tb[t].int
  BY SmallestFacts
<1>5. o \in OptionType /\ o.int = small.int
  BY <1>1, <1>3, <1>4 DEF OptionType
<1> QED
  BY <1>4, <1>5

LEMMA RestartFacts ==
    ASSUME MapTyped(tb), NEW hz \in BOOLEAN, NEW e \in RestartTimeBased(hz)
    PROVE  Restarts(e, hz)
<1>1. CASE DOMAIN tb = {}
  BY <1>1 DEF RestartTimeBased, Restarts
<1>2. CASE DOMAIN tb # {}
  <2> DEFINE P(o) == IF hz /\ o.int > MinInterval THEN [o EXCEPT !.int = MinInterval] ELSE o
             E(o, s) == [cmds |-> <<Cmd("startTB", P(o), "none", s, None)>>,
                         spe |-> hz /\ o.int > MinInterval]
             ES == {E(o, s) : o \in RestartOptions, s \in {CHOOSE t \in Sessions : TRUE}}
  <2>1. RestartTimeBased(hz) = IF DOMAIN tb = {} THEN {[cmds |-> <<>>, spe |-> FALSE]} ELSE ES
    BY DEF RestartTimeBased
  <2>2. e \in ES
    <3> HIDE DEF ES
    <3> QED
      BY <1>2, <2>1
  <2>3. \E o \in RestartOptions, s \in {CHOOSE t \in Sessions : TRUE} : e = E(o, s)
    <3> HIDE DEF E
    <3> QED
      BY <2>2
  <2>4. PICK o \in RestartOptions, s \in {CHOOSE t \in Sessions : TRUE} : e = E(o, s)
    BY <2>3
  <2>5. s \in Sessions
    BY <1>2 DEF MapTyped
  <2>6. /\ o \in OptionType
        /\ \A t \in DOMAIN tb : o.int <= tb[t].int
        /\ \E t \in DOMAIN tb : o.int = tb[t].int
    BY RestartOptionsFacts
  <2>7. PICK p : p = P(o)
    OBVIOUS
  <2>8. /\ p \in OptionType /\ p.int <= o.int
        /\ p.int = o.int \/ p.int = MinInterval
        /\ hz => p.int <= MinInterval
        /\ hz /\ o.int > MinInterval => p.int = MinInterval
    BY <2>6, <2>7, OptionAssumption DEF OptionType
  <2>9. \A t \in DOMAIN tb : p.int <= tb[t].int
    BY <2>6, <2>8 DEF MapTyped, OptionType
  <2>10. e.cmds = <<Cmd("startTB", p, "none", s, None)>> /\ e.spe = (hz /\ o.int > MinInterval)
    BY <2>4, <2>7
  <2> HIDE DEF P, E, ES
  <2> QED
    BY <2>5, <2>6, <2>8, <2>9, <2>10 DEF Restarts
<1> QED
  BY <1>1, <1>2

EffectTyped(e) == e.cmds \in Seq(Command) /\ e.spe \in BOOLEAN

LEMMA CoversTyped ==
    ASSUME speHigh \in BOOLEAN, NEW cb \in Callback, NEW s \in Sessions,
           NEW co \in OptionType, NEW o, NEW e, Covers(e, cb, s, co, o)
    PROVE  EffectTyped(e)
<1>1. CASE Silent(e)
  BY <1>1 DEF Silent, EffectTyped
<1>2. CASE \E p \in OptionType : Runs(e, cb, s, co, p)
  BY <1>2, CmdTyped DEF Runs, EffectTyped
<1> QED
  BY <1>1, <1>2 DEF Covers, Fast

LEMMA FreesTyped ==
    ASSUME speHigh \in BOOLEAN, NEW s \in Sessions, NEW e, Frees(e, s)
    PROVE  EffectTyped(e)
<1>0. None \in OptionType
  BY NoneTyped
<1>1. CASE Silent(e)
  BY <1>1 DEF Silent, EffectTyped
<1>2. CASE \E p \in OptionType : Runs(e, "start", s, None, p)
  BY <1>0, <1>2, CmdTyped DEF Runs, EffectTyped, Callback
<1>3. CASE Ends(e, s)
  BY <1>0, <1>3, CmdTyped DEF Ends, EffectTyped, Callback
<1> QED
  BY <1>1, <1>2, <1>3 DEF Frees

LEMMA RestartsTyped ==
    ASSUME NEW hz, NEW e, Restarts(e, hz)
    PROVE  EffectTyped(e)
<1>1. CASE e.cmds = <<>> /\ e.spe = FALSE
  <2>1. <<>> \in Seq(Command)
    OBVIOUS
  <2>2. e.cmds \in Seq(Command)
    BY <1>1, <2>1
  <2>3. e.spe \in BOOLEAN
    BY <1>1
  <2> QED
    BY <2>2, <2>3 DEF EffectTyped
<1>2. ASSUME NEW p \in OptionType, NEW s \in Sessions,
             e.cmds = <<Cmd("startTB", p, "none", s, None)>>, e.spe \in BOOLEAN
      PROVE  EffectTyped(e)
  BY <1>2, NoneTyped, CmdTyped DEF Callback, EffectTyped
<1> QED
  BY <1>1, <1>2 DEF Restarts

LEMMA ReportTyped ==
    ASSUME owed \in [Sessions -> Int], NEW s \in Sessions, Report(s) \/ NoReport
    PROVE  owed' \in [Sessions -> Int]
  BY DEF Report, NoReport

LEMMA ApplyTyped ==
    ASSUME TypeOK, NEW e, EffectTyped(e), NEW s \in Sessions, Apply(e, s)
    PROVE  apiQ' \in Seq(Command) /\ speHigh' \in BOOLEAN /\ owed' \in [Sessions -> Int]
<1>1. apiQ' = apiQ \o e.cmds /\ speHigh' = e.spe /\ (Report(s) \/ NoReport)
  BY DEF Apply
<1>2. apiQ \in Seq(Command) /\ owed \in [Sessions -> Int]
  BY DEF TypeOK
<1>3. apiQ' \in Seq(Command)
  BY <1>1, <1>2, ConcatFacts DEF EffectTyped
<1>4. owed' \in [Sessions -> Int]
  BY <1>1, <1>2, ReportTyped
<1> QED
  BY <1>1, <1>3, <1>4 DEF EffectTyped

LEMMA SendTyped ==
    ASSUME TypeOK, NEW op \in {"startTB", "stopFix", "startDB", "stopDB"}, NEW o \in OptionType,
           NEW cb \in Callback, NEW s \in Sessions, NEW co \in OptionType,
           Send(Cmd(op, o, cb, s, co))
    PROVE  apiQ' \in Seq(Command) /\ speHigh' \in BOOLEAN
<1>1. Cmd(op, o, cb, s, co) \in Command
  BY CmdTyped
<1>2. apiQ \in Seq(Command) /\ speHigh \in BOOLEAN
  BY DEF TypeOK
<1> QED
  BY <1>1, <1>2, AppendFacts DEF Send

LEMMA IdleTyped ==
    ASSUME TypeOK, Idle
    PROVE  apiQ' \in Seq(Command) /\ speHigh' \in BOOLEAN
  BY DEF TypeOK, Idle

LEMMA NoReportTyped ==
    ASSUME TypeOK, NoReport
    PROVE  owed' \in [Sessions -> Int]
  BY DEF TypeOK, NoReport

LEMMA TakeTyped ==
    ASSUME TypedInv, msgQ # <<>>, Take, clients' = clients, removing' = removing
    PROVE  msgQ' \in Seq(Message) /\ RemovedOnce'
<1>1. msgQ \in Seq(Message)
  BY DEF TypedInv, TypeOK
<1>2. PICK q, t : q = msgQ /\ t = Tail(msgQ)
  OBVIOUS
<1>3. /\ q \in Seq(Message) /\ t \in Seq(Message)
      /\ \A i \in 1..Len(t) : i + 1 \in 1..Len(q) /\ t[i] = q[i + 1]
  BY <1>1, <1>2, HeadTail
<1>4. msgQ' = t
  BY <1>2 DEF Take
<1>5. \A i \in 1..Len(q) : q[i].m = "remove" =>
        /\ q[i].c \in clients \ removing
        /\ \A j \in 1..Len(q) : q[j].m = "remove" /\ q[j].c = q[i].c => j = i
  BY <1>2 DEF TypedInv, RemovedOnce
<1>6. \A i \in 1..Len(t) : t[i].m = "remove" =>
        /\ t[i].c \in clients \ removing
        /\ \A j \in 1..Len(t) : t[j].m = "remove" /\ t[j].c = t[i].c => j = i
  <2> SUFFICES ASSUME NEW i \in 1..Len(t), t[i].m = "remove"
               PROVE  /\ t[i].c \in clients \ removing
                      /\ \A j \in 1..Len(t) : t[j].m = "remove" /\ t[j].c = t[i].c => j = i
    OBVIOUS
  <2>1. i + 1 \in 1..Len(q) /\ q[i + 1] = t[i]
    BY <1>3
  <2>2. ASSUME NEW j \in 1..Len(t), t[j].m = "remove", t[j].c = t[i].c
        PROVE  j = i
    BY <1>3, <1>5, <2>1, <2>2
  <2> QED
    BY <1>5, <2>1, <2>2
<1> QED
  BY <1>3, <1>4, <1>6 DEF RemovedOnce

\* A message that removes nobody comes.
LEMMA PostTyped ==
    ASSUME TypedInv, NEW m \in Message, m.m # "remove", Post(m),
           clients' = clients, removing' = removing
    PROVE  msgQ' \in Seq(Message) /\ RemovedOnce'
<1>1. msgQ \in Seq(Message)
  BY DEF TypedInv, TypeOK
<1>2. PICK q, t : q = msgQ /\ t = Append(msgQ, m)
  OBVIOUS
<1>3. /\ t \in Seq(Message)
      /\ \A i \in 1..Len(t) : i \in 1..Len(q) \/ i = Len(q) + 1
      /\ \A i \in 1..Len(q) : t[i] = q[i]
      /\ t[Len(q) + 1] = m
  BY <1>1, <1>2, AppendFacts
<1>4. msgQ' = t
  BY <1>2 DEF Post
<1>5. \A i \in 1..Len(q) : q[i].m = "remove" =>
        /\ q[i].c \in clients \ removing
        /\ \A j \in 1..Len(q) : q[j].m = "remove" /\ q[j].c = q[i].c => j = i
  BY <1>2 DEF TypedInv, RemovedOnce
<1>6. \A i \in 1..Len(t) : t[i].m = "remove" => i \in 1..Len(q) /\ t[i] = q[i]
  BY <1>3
<1>7. \A i \in 1..Len(t) : t[i].m = "remove" =>
        /\ t[i].c \in clients \ removing
        /\ \A j \in 1..Len(t) : t[j].m = "remove" /\ t[j].c = t[i].c => j = i
  BY <1>5, <1>6
<1> QED
  BY <1>3, <1>4, <1>7 DEF RemovedOnce

LEMMA SetMapsTyped ==
    ASSUME NEW m, PairTyped(m), SetMaps(m)
    PROVE  MapsTyped(tb', db')
<1>1. PICK f, g : m = <<f, g>> /\ MapsTyped(f, g)
  BY DEF PairTyped
<1>2. tb' = f /\ db' = g
  BY <1>1 DEF SetMaps
<1> QED
  BY <1>1, <1>2

LEMMA MapsPair ==
    ASSUME TypedInv
    PROVE  PairTyped(Maps) /\ MapsTyped(tb, db) /\ MapTyped(tb) /\ MapTyped(db)
  BY DEF TypedInv, TypeOK, FiniteMaps, PairTyped, MapsTyped, Maps, MapTyped

\* The pieces of a handler's step.
LEMMA HandlerTyped ==
    ASSUME TypedInv, MapsTyped(tb', db'), apiQ' \in Seq(Command), speHigh' \in BOOLEAN,
           owed' \in [Sessions -> Int], want' \in [Sessions -> OptionType],
           pending' \in Seq(Message), DeferredOnes',
           msgQ' \in Seq(Message), RemovedOnce',
           UNCHANGED <<clients, removing>>, capsKnown' \in BOOLEAN, nhz' \in BOOLEAN,
           UNCHANGED engineVars
    PROVE  TypedInv'
  BY DEF TypedInv, TypeOK, MapsTyped, MapTyped, FiniteMaps, engineVars

-----------------------------------------------------------------------------
(* Every step keeps the types. *)

LEMMA HeadTyped ==
    ASSUME TypedInv, NEW kind, Arrived(kind)
    PROVE  /\ msgQ \in Seq(Message) /\ msgQ # <<>> /\ removing = {}
           /\ Head(msgQ) \in Message /\ Head(msgQ).m = kind
           /\ kind \in {"start", "update"} =>
                  Head(msgQ).s \in Sessions /\ Head(msgQ).o \in OptionType
           /\ kind = "stop" => Head(msgQ).s \in Sessions
           /\ kind = "remove" => Head(msgQ).c \in Clients
           /\ kind = "resp" => /\ Head(msgQ).cb \in Callback /\ Head(msgQ).s \in Sessions
                               /\ Head(msgQ).co \in OptionType /\ Head(msgQ).ok \in BOOLEAN
<1>1. msgQ \in Seq(Message) /\ msgQ # <<>> /\ Head(msgQ).m = kind /\ removing = {}
  BY DEF TypedInv, TypeOK, Arrived
<1>2. PICK h : h = Head(msgQ)
  OBVIOUS
<1>3. h \in Message
  BY <1>1, <1>2, HeadTail
<1>4. Options \cup {None} \subseteq OptionType
  BY OptionAssumption, NoneTyped
<1> QED
  BY <1>1, <1>2, <1>3, <1>4, MessageFields

LEMMA SameTyped ==
    ASSUME TypedInv
    PROVE  /\ pending' = pending => pending' \in Seq(Message) /\ DeferredOnes'
           /\ want' = want => want' \in [Sessions -> OptionType]
           /\ capsKnown' = capsKnown => capsKnown' \in BOOLEAN
           /\ nhz' = nhz => nhz' \in BOOLEAN
           /\ UNCHANGED <<tb, db>> => MapsTyped(tb', db')
<1>1. UNCHANGED <<tb, db>> => MapsTyped(tb', db')
  BY DEF TypedInv, TypeOK, FiniteMaps, MapsTyped, MapTyped
<1>2. pending' = pending => pending' \in Seq(Message) /\ DeferredOnes'
  BY DEF TypedInv, TypeOK, DeferredOnes
<1> QED
  BY <1>1, <1>2 DEF TypedInv, TypeOK

LEMMA DeferTyped ==
    ASSUME TypedInv, NEW kind \in {"start", "update"}, Arrived(kind), Defer
    PROVE  /\ pending' \in Seq(Message) /\ DeferredOnes'
           /\ MapsTyped(tb', db')
           /\ apiQ' \in Seq(Command) /\ speHigh' \in BOOLEAN
           /\ owed' \in [Sessions -> Int]
<1>1. PICK h, p : h = Head(msgQ) /\ p = pending
  OBVIOUS
<1>2. h \in Message /\ h.m = kind /\ p \in Seq(Message)
  BY <1>1, HeadTyped DEF TypedInv, TypeOK
<1>3. pending' = Append(p, h)
  BY <1>1 DEF Defer
<1>4. \A i \in 1..Len(p) : p[i].m \in {"start", "update"}
  BY <1>1 DEF TypedInv, DeferredOnes
<1>5. pending' \in Seq(Message) /\ DeferredOnes'
  BY <1>2, <1>3, <1>4, AppendFacts DEF DeferredOnes
<1>6. UNCHANGED <<tb, db>> /\ Idle /\ NoReport
  BY DEF Defer
<1>7. TypeOK
  BY DEF TypedInv
<1> QED
  BY <1>5, <1>6, <1>7, SameTyped, IdleTyped, NoReportTyped

\* What a start, update or stop of s with an effect e leaves.
LEMMA AppliedTyped ==
    ASSUME TypedInv, NEW m, PairTyped(m), SetMaps(m),
           NEW e, EffectTyped(e), NEW s \in Sessions, Apply(e, s)
    PROVE  /\ MapsTyped(tb', db')
           /\ apiQ' \in Seq(Command) /\ speHigh' \in BOOLEAN
           /\ owed' \in [Sessions -> Int]
  BY SetMapsTyped, ApplyTyped DEF TypedInv

FlagsTyped == speHigh \in BOOLEAN /\ nhz \in BOOLEAN

LEMMA FlagsAreTyped == TypedInv => FlagsTyped
  BY DEF TypedInv, TypeOK, FlagsTyped

LEMMA StartTyped ==
    ASSUME TypedInv, ProcStart
    PROVE  TypedInv'
<1> DEFINE s == Head(msgQ).s
           o == Raise(Head(msgQ).o)
<1>1. Arrived("start") /\ Take
      /\ UNCHANGED <<clients, capsKnown, nhz, removing, want, engineVars>>
  BY DEF ProcStart
<1>2. s \in Sessions /\ o \in OptionType /\ msgQ # <<>>
  BY <1>1, HeadTyped, RaiseTyped
<1>3. msgQ' \in Seq(Message) /\ RemovedOnce'
  BY <1>1, <1>2, TakeTyped
<1>4. want' \in [Sessions -> OptionType] /\ capsKnown' \in BOOLEAN /\ nhz' \in BOOLEAN
  BY <1>1, SameTyped
<1>5. TypeOK /\ speHigh \in BOOLEAN /\ nhz \in BOOLEAN
  BY FlagsAreTyped DEF FlagsTyped, TypedInv
<1>6. CASE Deferred /\ Defer
  BY <1>1, <1>3, <1>4, <1>6, DeferTyped, HandlerTyped
<1>7. CASE UNCHANGED pending /\ UNCHANGED <<tb, db>> /\ Idle /\ NoReport
  BY <1>1, <1>3, <1>4, <1>5, <1>7, SameTyped, IdleTyped, NoReportTyped, HandlerTyped
<1>8. CASE /\ UNCHANGED pending
           /\ SetMaps(save(Maps, s, o))
           /\ Send(Cmd("startDB", o, "dstart", s, None)) /\ NoReport
  BY <1>1, <1>2, <1>3, <1>4, <1>5, <1>8, MapsPair, SaveTyped, SetMapsTyped, SendTyped,
     NoneTyped, SameTyped, NoReportTyped, HandlerTyped
  DEF Callback
<1>9. CASE /\ UNCHANGED pending
           /\ SetMaps(save(Maps, s, o))
           /\ \E e \in startMultiplex(s, o) : Apply(e, s)
  <2>1. PICK e \in startMultiplex(s, o) : Apply(e, s)
    BY <1>9
  <2>2. EffectTyped(e)
    BY <1>2, <1>5, <2>1, MapsPair, startMultiplexFacts, CoversTyped, NoneTyped DEF Callback
  <2>3. MapsTyped(tb', db') /\ apiQ' \in Seq(Command) /\ speHigh' \in BOOLEAN
        /\ owed' \in [Sessions -> Int]
    BY <1>2, <1>9, <2>1, <2>2, MapsPair, SaveTyped, AppliedTyped
  <2> QED
    BY <1>1, <1>3, <1>4, <1>9, <2>3, SameTyped, HandlerTyped
<1> QED
  BY <1>6, <1>7, <1>8, <1>9 DEF ProcStart

LEMMA UpdateTyped ==
    ASSUME TypedInv, ProcUpdate
    PROVE  TypedInv'
<1> DEFINE s == Head(msgQ).s
           o == Raise(Head(msgQ).o)
<1>1. Arrived("update") /\ Take
      /\ UNCHANGED <<clients, capsKnown, nhz, removing, want, engineVars>>
  BY DEF ProcUpdate
<1>2. s \in Sessions /\ o \in OptionType /\ msgQ # <<>>
  BY <1>1, HeadTyped, RaiseTyped
<1>3. msgQ' \in Seq(Message) /\ RemovedOnce'
  BY <1>1, <1>2, TakeTyped
<1>4. want' \in [Sessions -> OptionType] /\ capsKnown' \in BOOLEAN /\ nhz' \in BOOLEAN
  BY <1>1, SameTyped
<1>5. TypeOK /\ speHigh \in BOOLEAN /\ nhz \in BOOLEAN
  BY FlagsAreTyped DEF FlagsTyped, TypedInv
<1>6. CASE Deferred /\ Defer
  BY <1>1, <1>3, <1>4, <1>6, DeferTyped, HandlerTyped
<1>7. CASE UNCHANGED pending /\ UNCHANGED <<tb, db>> /\ Idle /\ Report(s)
  BY <1>1, <1>2, <1>3, <1>4, <1>5, <1>7, ReportTyped, SameTyped, IdleTyped, HandlerTyped
  DEF TypeOK
<1>8. CASE UNCHANGED pending /\ Update(s, o)
  <2>1. CASE /\ s \in DOMAIN tb
             /\ SetMaps(save(erase(Maps, s), s, o))
             /\ \E e \in stopMultiplex(s) :
                   Apply([e EXCEPT !.cmds = Append(@, Cmd("startDB", o, "none", s, None))], s)
    <3>1. PICK e \in stopMultiplex(s) :
             Apply([e EXCEPT !.cmds = Append(@, Cmd("startDB", o, "none", s, None))], s)
      BY <2>1
    <3>2. EffectTyped(e)
      BY <1>2, <1>5, <2>1, <3>1, MapsPair, stopMultiplexFacts, FreesTyped
    <3>3. Cmd("startDB", o, "none", s, None) \in Command
      BY <1>2, CmdTyped, NoneTyped DEF Callback
    <3>4. PICK x : x = [e EXCEPT !.cmds = Append(@, Cmd("startDB", o, "none", s, None))]
      OBVIOUS
    <3>5. x.cmds = Append(e.cmds, Cmd("startDB", o, "none", s, None)) /\ x.spe = e.spe
      BY <1>2, <1>5, <2>1, <3>1, <3>4, MapsPair, stopMultiplexFacts, FreesAreEffects
      DEF IsEffect
    <3>6. EffectTyped(x)
      BY <3>2, <3>3, <3>5, AppendFacts DEF EffectTyped
    <3>7. PairTyped(save(erase(Maps, s), s, o))
      BY <1>2, MapsPair, EraseTyped, SaveTyped
    <3> QED
      BY <1>1, <1>2, <1>3, <1>4, <1>8, <2>1, <3>1, <3>4, <3>6, <3>7, AppliedTyped, SameTyped,
         HandlerTyped
  <2>2. CASE SetMaps(erase(Maps, s)) /\ Send(Cmd("stopDB", None, "toTimeBased", s, o)) /\ NoReport
    BY <1>1, <1>2, <1>3, <1>4, <1>5, <1>8, <2>2, SendTyped, NoneTyped, MapsPair,
       EraseTyped, SetMapsTyped, SameTyped, NoReportTyped, HandlerTyped
    DEF Callback
  <2>3. CASE s \in DOMAIN tb /\ SetMaps(save(Maps, s, o)) /\ \E e \in updateMultiplex(s, o) : Apply(e, s)
    <3>1. PICK e \in updateMultiplex(s, o) : Apply(e, s)
      BY <2>3
    <3>2. tb[s] \in OptionType
      BY <2>3, MapsPair DEF MapTyped
    <3>3. EffectTyped(e)
      BY <1>2, <1>5, <2>3, <3>1, <3>2, MapsPair, updateMultiplexFacts, CoversTyped DEF Callback
    <3>4. PairTyped(save(Maps, s, o))
      BY <1>2, MapsPair, SaveTyped
    <3> QED
      BY <1>1, <1>2, <1>3, <1>4, <1>8, <2>3, <3>1, <3>3, <3>4, AppliedTyped, SameTyped, HandlerTyped
  <2>4. CASE UNCHANGED <<tb, db>> /\ Send(Cmd("stopDB", None, "restart", s, o)) /\ NoReport
    BY <1>1, <1>2, <1>3, <1>4, <1>5, <1>8, <2>4, SendTyped, NoneTyped, SameTyped,
       NoReportTyped, HandlerTyped
    DEF Callback
  <2> QED
    BY <1>8, <2>1, <2>2, <2>3, <2>4 DEF Update
<1> QED
  BY <1>6, <1>7, <1>8 DEF ProcUpdate

LEMMA StopTyped ==
    ASSUME TypedInv, ProcStop
    PROVE  TypedInv'
<1> DEFINE s == Head(msgQ).s
<1>1. Arrived("stop") /\ Take
      /\ UNCHANGED <<clients, capsKnown, pending, nhz, removing, want, engineVars>>
  BY DEF ProcStop
<1>2. s \in Sessions /\ msgQ # <<>>
  BY <1>1, HeadTyped
<1>3. msgQ' \in Seq(Message) /\ RemovedOnce'
  BY <1>1, <1>2, TakeTyped
<1>4. want' \in [Sessions -> OptionType] /\ capsKnown' \in BOOLEAN /\ nhz' \in BOOLEAN
  BY <1>1, SameTyped
<1>5. TypeOK /\ speHigh \in BOOLEAN /\ nhz \in BOOLEAN
  BY FlagsAreTyped DEF FlagsTyped, TypedInv
<1>6. CASE s \in DOMAIN tb /\ SetMaps(erase(Maps, s)) /\ \E e \in stopMultiplex(s) : Apply(e, s)
  <2>1. PICK e \in stopMultiplex(s) : Apply(e, s)
    BY <1>6
  <2>2. EffectTyped(e)
    BY <1>2, <1>5, <1>6, <2>1, MapsPair, stopMultiplexFacts, FreesTyped
  <2>3. PairTyped(erase(Maps, s))
    BY MapsPair, EraseTyped
  <2> QED
    BY <1>1, <1>2, <1>3, <1>4, <1>6, <2>1, <2>2, <2>3, AppliedTyped, SameTyped, HandlerTyped
<1>7. CASE UNCHANGED <<tb, db>> /\ Send(Cmd("stopDB", None, "dstop", s, None)) /\ NoReport
  BY <1>1, <1>2, <1>3, <1>4, <1>5, <1>7, SendTyped, NoneTyped, SameTyped, NoReportTyped,
     HandlerTyped
  DEF Callback
<1>8. CASE UNCHANGED <<tb, db>> /\ Idle /\ Report(s)
  BY <1>1, <1>2, <1>3, <1>4, <1>5, <1>8, ReportTyped, SameTyped, IdleTyped, HandlerTyped
  DEF TypeOK
<1> QED
  BY <1>6, <1>7, <1>8 DEF ProcStop

\* The client that is being removed is one that is registered, and the
\* messages that remove others stay.
LEMMA RemoveClientTyped ==
    ASSUME TypedInv, ProcRemoveClient
    PROVE  TypedInv'
<1>1. Arrived("remove") /\ Take /\ removing' = {Head(msgQ).c}
      /\ UNCHANGED <<tb, db, clients, capsKnown, pending, speHigh, nhz, apiQ,
                     want, owed, engineVars>>
  BY DEF ProcRemoveClient
<1>2. PICK q, t : q = msgQ /\ t = Tail(msgQ)
  OBVIOUS
<1>3. /\ q \in Seq(Message) /\ t \in Seq(Message) /\ q # <<>> /\ removing = {}
      /\ q[1].m = "remove" /\ removing' = {q[1].c} /\ 1 \in 1..Len(q)
      /\ \A i \in 1..Len(t) : i + 1 \in 1..Len(q) /\ t[i] = q[i + 1]
  BY <1>1, <1>2, HeadTyped, HeadTail
<1>4. msgQ' = t
  BY <1>1, <1>2 DEF Take
<1>5. \A i \in 1..Len(q) : q[i].m = "remove" =>
        /\ q[i].c \in clients \ removing
        /\ \A j \in 1..Len(q) : q[j].m = "remove" /\ q[j].c = q[i].c => j = i
  BY <1>2 DEF TypedInv, RemovedOnce
<1>6. removing' \subseteq clients
  BY <1>3, <1>5
<1>7. ASSUME NEW i \in 1..Len(t), t[i].m = "remove"
      PROVE  /\ t[i].c \in clients \ removing'
             /\ \A j \in 1..Len(t) : t[j].m = "remove" /\ t[j].c = t[i].c => j = i
  <2>1. i + 1 \in 1..Len(q) /\ q[i + 1] = t[i] /\ i + 1 # 1
    BY <1>3
  <2>2. t[i].c # q[1].c
    BY <1>3, <1>5, <1>7, <2>1
  <2>3. ASSUME NEW j \in 1..Len(t), t[j].m = "remove", t[j].c = t[i].c
        PROVE  j = i
    <3>1. j + 1 \in 1..Len(q) /\ q[j + 1] = t[j]
      BY <1>3
    <3>2. j + 1 = i + 1
      BY <1>5, <1>7, <2>1, <2>3, <3>1
    <3> QED
      BY <3>2
  <2> QED
    BY <1>3, <1>5, <1>7, <2>1, <2>2, <2>3
<1>8. RemovedOnce'
  BY <1>1, <1>4, <1>7 DEF RemovedOnce
<1>9. msgQ' \in Seq(Message)
  BY <1>3, <1>4
<1> QED
  BY <1>1, <1>6, <1>8, <1>9, SameTyped
  DEF TypedInv, TypeOK, FiniteMaps, DeferredOnes, engineVars

LEMMA SameQueueTyped ==
    ASSUME TypedInv, UNCHANGED <<msgQ, clients, removing>>
    PROVE  msgQ' \in Seq(Message) /\ RemovedOnce'
  BY DEF TypedInv, TypeOK, RemovedOnce

\* The effect of a stop while the client is being removed.
Quietly(e) == [e EXCEPT !.rep = IF @ = "self" THEN @ ELSE "later"]

LEMMA QuietlyFacts ==
    ASSUME NEW e, IsEffect(e)
    PROVE  /\ Quietly(e).cmds = e.cmds /\ Quietly(e).spe = e.spe
           /\ EffectTyped(e) => EffectTyped(Quietly(e))
  BY DEF IsEffect, Quietly, EffectTyped

LEMMA RemoveTimeBasedTyped ==
    ASSUME TypedInv, RemoveTimeBased
    PROVE  TypedInv'
<1>1. PICK s \in Owned(tb) : /\ SetMaps(erase(Maps, s))
                             /\ \E e \in stopMultiplex(s) : Apply(Quietly(e), s)
  BY DEF RemoveTimeBased, Quietly
<1>2. UNCHANGED <<clients, capsKnown, pending, nhz, removing, msgQ, want, engineVars>>
  BY DEF RemoveTimeBased
<1>3. s \in DOMAIN tb /\ s \in Sessions
  BY MapsPair DEF Owned, MapTyped
<1>4. TypeOK /\ speHigh \in BOOLEAN /\ nhz \in BOOLEAN
  BY FlagsAreTyped DEF FlagsTyped, TypedInv
<1>5. PICK e \in stopMultiplex(s) : Apply(Quietly(e), s)
  BY <1>1
<1>6. Frees(e, s)
  BY <1>3, <1>4, MapsPair, stopMultiplexFacts
<1>7. EffectTyped(Quietly(e))
  BY <1>3, <1>4, <1>6, FreesTyped, FreesAreEffects, QuietlyFacts
<1>8. PairTyped(erase(Maps, s))
  BY MapsPair, EraseTyped
<1>9. MapsTyped(tb', db') /\ apiQ' \in Seq(Command) /\ speHigh' \in BOOLEAN
      /\ owed' \in [Sessions -> Int]
  BY <1>1, <1>3, <1>5, <1>7, <1>8, AppliedTyped
<1> QED
  BY <1>2, <1>9, SameTyped, SameQueueTyped, HandlerTyped

LEMMA OwnedDistance ==
    ASSUME TypedInv
    PROVE  Owned(db) \in SUBSET DOMAIN db /\ IsFiniteSet(Owned(db)) /\ IsFiniteSet(DOMAIN db)
  BY FS_Subset DEF TypedInv, FiniteMaps, Owned

LEMMA RemoveRestTyped ==
    ASSUME TypedInv, RemoveRest
    PROVE  TypedInv'
<1>1. PICK q \in DistanceCmds(Owned(db), "stopDB", "clean") : apiQ' = apiQ \o q
  BY DEF RemoveRest
<1>2. clients' = clients \ removing /\ removing' = {}
      /\ UNCHANGED <<tb, db, capsKnown, pending, speHigh, nhz, msgQ, want, owed, engineVars>>
  BY DEF RemoveRest
<1>3. q \in Seq(Command)
  BY MapsPair, OwnedDistance, DistanceCmdsFacts DEF Callback
<1>4. apiQ' \in Seq(Command)
  BY <1>1, <1>3, ConcatFacts DEF TypedInv, TypeOK
<1>5. RemovedOnce'
  BY <1>2 DEF TypedInv, RemovedOnce
<1> QED
  BY <1>2, <1>4, <1>5 DEF TypedInv, TypeOK, FiniteMaps, DeferredOnes, engineVars

-----------------------------------------------------------------------------

LEMMA ResponseTyped ==
    ASSUME TypedInv, NEW cb, Response(cb), UNCHANGED <<clients, removing>>
    PROVE  /\ msgQ' \in Seq(Message) /\ RemovedOnce'
           /\ Head(msgQ).s \in Sessions /\ Head(msgQ).co \in OptionType
           /\ Head(msgQ).ok \in BOOLEAN /\ Head(msgQ).cb = cb
           /\ msgQ # <<>> /\ msgQ \in Seq(Message) /\ Take
<1>1. Arrived("resp") /\ Head(msgQ).cb = cb /\ Take
  BY DEF Response
<1> QED
  BY <1>1, HeadTyped, TakeTyped

LEMMA RespStartTyped ==
    ASSUME TypedInv, RespStart
    PROVE  TypedInv'
<1> DEFINE r == Head(msgQ)
<1>1. /\ \E cb \in {"start", "dstart"} : Response(cb)
      /\ SetMaps(IF r.ok THEN Maps ELSE erase(Maps, r.s))
      /\ want' = IF r.ok THEN want ELSE [want EXCEPT ![r.s] = None]
      /\ Report(r.s)
      /\ Idle
      /\ UNCHANGED <<clients, capsKnown, pending, nhz, removing, engineVars>>
  BY DEF RespStart
<1>2. r.s \in Sessions /\ msgQ' \in Seq(Message) /\ RemovedOnce'
  BY <1>1, ResponseTyped
<1>3. MapsTyped(tb', db')
  BY <1>1, MapsPair, EraseTyped, SetMapsTyped
<1>4. want' \in [Sessions -> OptionType]
  BY <1>1, NoneTyped DEF TypedInv, TypeOK
<1>5. owed' \in [Sessions -> Int]
  BY <1>1, <1>2, ReportTyped DEF TypedInv, TypeOK
<1>6. apiQ' \in Seq(Command) /\ speHigh' \in BOOLEAN
  BY <1>1, IdleTyped DEF TypedInv
<1> QED
  BY <1>1, <1>2, <1>3, <1>4, <1>5, <1>6, SameTyped, HandlerTyped

LEMMA RespUpdateTyped ==
    ASSUME TypedInv, RespUpdate
    PROVE  TypedInv'
<1> DEFINE r == Head(msgQ)
<1>1. /\ Response("update")
      /\ SetMaps(IF r.ok THEN Maps ELSE save(Maps, r.s, r.co))
      /\ Report(r.s)
      /\ Idle
      /\ UNCHANGED <<clients, capsKnown, pending, nhz, removing, want, engineVars>>
  BY DEF RespUpdate, Frame
<1>2. r.s \in Sessions /\ r.co \in OptionType /\ msgQ' \in Seq(Message) /\ RemovedOnce'
  BY <1>1, ResponseTyped
<1>3. MapsTyped(tb', db')
  BY <1>1, <1>2, MapsPair, SaveTyped, SetMapsTyped
<1>4. owed' \in [Sessions -> Int]
  BY <1>1, <1>2, ReportTyped DEF TypedInv, TypeOK
<1>5. apiQ' \in Seq(Command) /\ speHigh' \in BOOLEAN
  BY <1>1, IdleTyped DEF TypedInv
<1> QED
  BY <1>1, <1>2, <1>3, <1>4, <1>5, SameTyped, HandlerTyped

LEMMA RespStopTyped ==
    ASSUME TypedInv, RespStop
    PROVE  TypedInv'
<1>1. /\ Response("stop")
      /\ UNCHANGED <<tb, db>>
      /\ Report(Head(msgQ).s)
      /\ Idle
      /\ UNCHANGED <<clients, capsKnown, pending, nhz, removing, want, engineVars>>
  BY DEF RespStop, Frame
<1>2. Head(msgQ).s \in Sessions /\ msgQ' \in Seq(Message) /\ RemovedOnce'
  BY <1>1, ResponseTyped
<1>4. owed' \in [Sessions -> Int]
  BY <1>1, <1>2, ReportTyped DEF TypedInv, TypeOK
<1>5. apiQ' \in Seq(Command) /\ speHigh' \in BOOLEAN
  BY <1>1, IdleTyped DEF TypedInv
<1> QED
  BY <1>1, <1>2, <1>4, <1>5, SameTyped, HandlerTyped

LEMMA RespDistanceStopTyped ==
    ASSUME TypedInv, RespDistanceStop
    PROVE  TypedInv'
<1> DEFINE r == Head(msgQ)
<1>1. /\ \E cb \in {"dstop", "clean"} : Response(cb)
      /\ SetMaps(IF r.ok THEN erase(Maps, r.s) ELSE Maps)
      /\ Report(r.s) \/ NoReport
      /\ Idle
      /\ UNCHANGED <<clients, capsKnown, pending, nhz, removing, want, engineVars>>
  BY DEF RespDistanceStop, Frame
<1>2. r.s \in Sessions /\ msgQ' \in Seq(Message) /\ RemovedOnce'
  BY <1>1, ResponseTyped
<1>3. MapsTyped(tb', db')
  BY <1>1, MapsPair, EraseTyped, SetMapsTyped
<1>4. owed' \in [Sessions -> Int]
  BY <1>1, <1>2, ReportTyped DEF TypedInv, TypeOK
<1>5. apiQ' \in Seq(Command) /\ speHigh' \in BOOLEAN
  BY <1>1, IdleTyped DEF TypedInv
<1> QED
  BY <1>1, <1>2, <1>3, <1>4, <1>5, SameTyped, HandlerTyped

LEMMA RespToTimeBasedTyped ==
    ASSUME TypedInv, RespToTimeBased
    PROVE  TypedInv'
<1> DEFINE r == Head(msgQ)
<1>1. /\ Response("toTimeBased")
      /\ SetMaps(save(Maps, r.s, r.co))
      /\ \E e \in startMultiplex(r.s, r.co) : Apply(e, r.s)
      /\ UNCHANGED <<clients, capsKnown, pending, nhz, removing, want, engineVars>>
  BY DEF RespToTimeBased, Frame
<1>2. r.s \in Sessions /\ r.co \in OptionType /\ msgQ' \in Seq(Message) /\ RemovedOnce'
  BY <1>1, ResponseTyped
<1>3. PICK e \in startMultiplex(r.s, r.co) : Apply(e, r.s)
  BY <1>1
<1>4. speHigh \in BOOLEAN /\ nhz \in BOOLEAN
  BY FlagsAreTyped DEF FlagsTyped
<1>5. EffectTyped(e)
  BY <1>2, <1>3, <1>4, MapsPair, startMultiplexFacts, CoversTyped, NoneTyped DEF Callback
<1>6. PairTyped(save(Maps, r.s, r.co))
  BY <1>2, MapsPair, SaveTyped
<1> QED
  BY <1>1, <1>2, <1>3, <1>5, <1>6, AppliedTyped, SameTyped, HandlerTyped

LEMMA RespRestartTyped ==
    ASSUME TypedInv, RespRestart
    PROVE  TypedInv'
<1> DEFINE r == Head(msgQ)
<1>1. /\ Response("restart")
      /\ IF r.ok THEN Send(Cmd("startDB", r.co, "restarted", r.s, r.co)) ELSE Idle
      /\ NoReport
      /\ UNCHANGED <<tb, db>>
      /\ UNCHANGED <<clients, capsKnown, pending, nhz, removing, want, engineVars>>
  BY DEF RespRestart, Frame
<1>2. r.s \in Sessions /\ r.co \in OptionType /\ msgQ' \in Seq(Message) /\ RemovedOnce'
  BY <1>1, ResponseTyped
<1>3. apiQ' \in Seq(Command) /\ speHigh' \in BOOLEAN
  BY <1>1, <1>2, IdleTyped, SendTyped DEF Callback, TypedInv
<1> QED
  BY <1>1, <1>2, <1>3, SameTyped, NoReportTyped, HandlerTyped DEF TypedInv

LEMMA RespRestartedTyped ==
    ASSUME TypedInv, RespRestarted
    PROVE  TypedInv'
<1> DEFINE r == Head(msgQ)
<1>1. /\ Response("restarted")
      /\ SetMaps(IF r.ok THEN save(Maps, r.s, r.co) ELSE Maps)
      /\ Report(r.s)
      /\ Idle
      /\ UNCHANGED <<clients, capsKnown, pending, nhz, removing, want, engineVars>>
  BY DEF RespRestarted, Frame
<1>2. r.s \in Sessions /\ r.co \in OptionType /\ msgQ' \in Seq(Message) /\ RemovedOnce'
  BY <1>1, ResponseTyped
<1>3. MapsTyped(tb', db')
  BY <1>1, <1>2, MapsPair, SaveTyped, SetMapsTyped
<1>4. owed' \in [Sessions -> Int]
  BY <1>1, <1>2, ReportTyped DEF TypedInv, TypeOK
<1>5. apiQ' \in Seq(Command) /\ speHigh' \in BOOLEAN
  BY <1>1, IdleTyped DEF TypedInv
<1> QED
  BY <1>1, <1>2, <1>3, <1>4, <1>5, SameTyped, HandlerTyped

-----------------------------------------------------------------------------

LEMMA RestartSPETyped ==
    ASSUME TypedInv, NEW hz \in BOOLEAN, RestartSPE(hz)
    PROVE  apiQ' \in Seq(Command) /\ speHigh' \in BOOLEAN
<1>1. PICK e \in RestartTimeBased(hz), q \in DistanceCmds(DOMAIN db, "startDB", "none") :
         apiQ' = apiQ \o e.cmds \o q /\ speHigh' = e.spe
  BY DEF RestartSPE
<1>2. EffectTyped(e)
  BY MapsPair, RestartFacts, RestartsTyped
<1>3. q \in Seq(Command)
  BY MapsPair, OwnedDistance, DistanceCmdsFacts DEF Callback
<1>4. apiQ \o e.cmds \in Seq(Command)
  BY <1>2, ConcatFacts DEF TypedInv, TypeOK, EffectTyped
<1>5. (apiQ \o e.cmds) \o q \in Seq(Command)
  BY <1>3, <1>4, ConcatFacts
<1> QED
  BY <1>1, <1>2, <1>5 DEF EffectTyped

LEMMA EngineUpHandled ==
    ASSUME TypedInv, ProcEngineUp
    PROVE  TypedInv'
<1>1. /\ Arrived("engineUp") /\ capsKnown' = TRUE /\ RestartSPE(nhz)
      /\ msgQ' = Tail(msgQ) \o pending /\ pending' = <<>>
      /\ UNCHANGED <<tb, db, clients, nhz, removing, want, owed, engineVars>>
  BY DEF ProcEngineUp
<1>2. PICK q, t, p : q = msgQ /\ t = Tail(msgQ) /\ p = pending
  OBVIOUS
<1>3. q \in Seq(Message) /\ q # <<>> /\ p \in Seq(Message)
  BY <1>1, <1>2, HeadTyped DEF TypedInv, TypeOK
<1>4. /\ t \in Seq(Message)
      /\ \A i \in 1..Len(t) : i + 1 \in 1..Len(q) /\ t[i] = q[i + 1]
  BY <1>2, <1>3, HeadTail
<1>5. \A i \in 1..Len(p) : p[i].m \in {"start", "update"}
  BY <1>2 DEF TypedInv, DeferredOnes
<1>6. PICK w : w = t \o p
  OBVIOUS
<1>7. w \in Seq(Message) /\ msgQ' = w
  BY <1>1, <1>2, <1>3, <1>4, <1>6, ConcatFacts
<1>8. \A i \in 1..Len(w) : w[i].m = "remove" =>
          i \in 1..Len(t) /\ w[i] = t[i] /\ i + 1 \in 1..Len(q) /\ q[i + 1] = t[i]
  <2> SUFFICES ASSUME NEW i \in 1..Len(w), w[i].m = "remove"
               PROVE  i \in 1..Len(t) /\ w[i] = t[i]
    BY <1>4
  <2>1. /\ i \in 1..Len(t) \/ i - Len(t) \in 1..Len(p)
        /\ i \in 1..Len(t) => w[i] = t[i]
    BY <1>3, <1>4, <1>6, ConcatFacts
  <2>a. Len(t) \in Nat /\ i \in Int
    BY <1>4
  <2>2. PICK l \in Nat, k \in Int : l = Len(t) /\ k = i - Len(t)
    BY <2>a
  <2>3. k \in 1..Len(p) => w[k + l] = p[k] /\ k + l = i
    BY <1>3, <1>4, <1>6, <2>2, ConcatFacts
  <2>4. i - Len(t) \notin 1..Len(p)
    BY <1>5, <2>2, <2>3
  <2> QED
    BY <2>1, <2>4
<1>9. \A i \in 1..Len(q) : q[i].m = "remove" =>
        /\ q[i].c \in clients \ removing
        /\ \A j \in 1..Len(q) : q[j].m = "remove" /\ q[j].c = q[i].c => j = i
  BY <1>2 DEF TypedInv, RemovedOnce
<1>10. ASSUME NEW i \in 1..Len(w), w[i].m = "remove"
       PROVE  /\ w[i].c \in clients \ removing
              /\ \A j \in 1..Len(w) : w[j].m = "remove" /\ w[j].c = w[i].c => j = i
  <2>1. ASSUME NEW j \in 1..Len(w), w[j].m = "remove", w[j].c = w[i].c
        PROVE  j = i
    <3>2. /\ i + 1 \in 1..Len(q) /\ q[i + 1] = w[i]
          /\ j + 1 \in 1..Len(q) /\ q[j + 1] = w[j]
      BY <1>8, <1>10, <2>1
    <3>1. j + 1 = i + 1
      BY <1>9, <1>10, <2>1, <3>2
    <3> QED
      BY <3>1
  <2> QED
    BY <1>8, <1>9, <1>10, <2>1
<1>11. RemovedOnce'
  BY <1>1, <1>7, <1>10 DEF RemovedOnce
<1>12. apiQ' \in Seq(Command) /\ speHigh' \in BOOLEAN
  BY <1>1, FlagsAreTyped, RestartSPETyped DEF FlagsTyped
<1>13. pending' \in Seq(Message) /\ DeferredOnes'
  BY <1>1 DEF DeferredOnes
<1>14. owed' \in [Sessions -> Int] /\ want' \in [Sessions -> OptionType] /\ nhz' \in BOOLEAN
  BY <1>1 DEF TypedInv, TypeOK
<1> QED
  BY <1>1, <1>7, <1>11, <1>12, <1>13, <1>14, SameTyped, HandlerTyped

LEMMA NHzTyped ==
    ASSUME TypedInv, ProcNHz
    PROVE  TypedInv'
<1>1. /\ Arrived("nhz") /\ Take /\ nhz' = ~nhz /\ RestartSPE(~nhz)
      /\ UNCHANGED <<tb, db, clients, capsKnown, pending, removing, want, owed, engineVars>>
  BY DEF ProcNHz
<1>2. msgQ' \in Seq(Message) /\ RemovedOnce'
  BY <1>1, HeadTyped, TakeTyped
<1>a. nhz' = ~nhz
  BY <1>1
<1>b. (~nhz) \in BOOLEAN
  OBVIOUS
<1>3. nhz' \in BOOLEAN
  BY <1>a, <1>b
<1>4. apiQ' \in Seq(Command) /\ speHigh' \in BOOLEAN
  BY <1>1, <1>b, RestartSPETyped
<1>5. owed' \in [Sessions -> Int] /\ want' \in [Sessions -> OptionType]
  BY <1>1 DEF TypedInv, TypeOK
<1> QED
  BY <1>1, <1>2, <1>3, <1>4, <1>5, SameTyped, HandlerTyped

-----------------------------------------------------------------------------

\* The adapter's variables have their types in the next state.
LEMMA AdapterSame ==
    ASSUME TypedInv, UNCHANGED adapterVars
    PROVE  /\ MapsTyped(tb', db') /\ clients' = clients /\ removing' = removing
           /\ speHigh' \in BOOLEAN /\ capsKnown' \in BOOLEAN /\ nhz' \in BOOLEAN
           /\ pending' \in Seq(Message) /\ DeferredOnes'
  BY SameTyped DEF adapterVars, TypedInv, TypeOK

LEMMA SentTyped ==
    ASSUME TypedInv, NEW s \in Sessions, NEW o \in OptionType, Sent(s, o),
           NEW m \in Message, m.m # "remove", Post(m)
    PROVE  TypedInv'
<1>1. /\ want' = [want EXCEPT ![s] = o] /\ owed' = [owed EXCEPT ![s] = @ + 1]
      /\ UNCHANGED adapterVars /\ UNCHANGED apiQ /\ UNCHANGED engineVars
  BY DEF Sent
<1>2. want' \in [Sessions -> OptionType] /\ owed' \in [Sessions -> Int]
  BY <1>1 DEF TypedInv, TypeOK
<1>3. MapsTyped(tb', db') /\ UNCHANGED <<clients, removing>> /\ speHigh' \in BOOLEAN
      /\ capsKnown' \in BOOLEAN /\ nhz' \in BOOLEAN
      /\ pending' \in Seq(Message) /\ DeferredOnes'
  BY <1>1, AdapterSame
<1>4. msgQ' \in Seq(Message) /\ RemovedOnce'
  BY <1>3, PostTyped
<1>5. apiQ' \in Seq(Command)
  BY <1>1 DEF TypedInv, TypeOK
<1> QED
  BY <1>1, <1>2, <1>3, <1>4, <1>5, HandlerTyped

LEMMA startTrackingTyped ==
    ASSUME TypedInv, NEW s \in Sessions, NEW o \in Options \cup {None}, startTracking(s, o)
    PROVE  TypedInv'
<1>1. [m |-> "start", s |-> s, o |-> o] \in Message
  BY DEF Message
<1>2. o \in OptionType
  BY OptionAssumption, NoneTyped
<1> QED
  BY <1>1, <1>2, SentTyped DEF startTracking

LEMMA updateTrackingOptionsTyped ==
    ASSUME TypedInv, NEW s \in Sessions, NEW o \in Options \cup {None},
           updateTrackingOptions(s, o)
    PROVE  TypedInv'
<1>1. [m |-> "update", s |-> s, o |-> o] \in Message
  BY DEF Message
<1>2. o \in OptionType /\ want[s] \in OptionType
  BY OptionAssumption, NoneTyped DEF TypedInv, TypeOK
<1>3. PICK w \in OptionType : w = IF o = None THEN want[s] ELSE o
  BY <1>2
<1>4. Sent(s, w)
  BY <1>3 DEF updateTrackingOptions
<1> QED
  BY <1>1, <1>4, SentTyped DEF updateTrackingOptions

LEMMA stopTrackingTyped ==
    ASSUME TypedInv, NEW s \in Sessions, stopTracking(s)
    PROVE  TypedInv'
<1>1. [m |-> "stop", s |-> s] \in Message
  BY DEF Message
<1> QED
  BY <1>1, SentTyped, NoneTyped DEF stopTracking

LEMMA removeClientTyped ==
    ASSUME TypedInv, NEW c \in Clients, removeClient(c)
    PROVE  TypedInv'
<1>1. /\ c \in clients /\ ~Leaving(c) /\ Post([m |-> "remove", c |-> c])
      /\ want' = [s \in Sessions |-> IF ClientOf[s] = c THEN None ELSE want[s]]
      /\ UNCHANGED adapterVars /\ UNCHANGED apiQ /\ UNCHANGED owed /\ UNCHANGED engineVars
  BY DEF removeClient
<1>2. want' \in [Sessions -> OptionType]
  BY <1>1, NoneTyped DEF TypedInv, TypeOK
<1>3. MapsTyped(tb', db') /\ UNCHANGED <<clients, removing>> /\ speHigh' \in BOOLEAN
      /\ capsKnown' \in BOOLEAN /\ nhz' \in BOOLEAN
      /\ pending' \in Seq(Message) /\ DeferredOnes'
  BY <1>1, AdapterSame
<1>4. apiQ' \in Seq(Command) /\ owed' \in [Sessions -> Int]
  BY <1>1 DEF TypedInv, TypeOK
<1>5. PICK m, q, t : m = [m |-> "remove", c |-> c] /\ q = msgQ /\ t = Append(msgQ, m)
  OBVIOUS
<1>6. m \in Message /\ q \in Seq(Message) /\ m.c = c
  BY <1>5 DEF Message, TypedInv, TypeOK
<1>7. /\ t \in Seq(Message)
      /\ \A i \in 1..Len(t) : i \in 1..Len(q) \/ i = Len(q) + 1
      /\ \A i \in 1..Len(q) : t[i] = q[i]
      /\ t[Len(q) + 1] = m
  BY <1>5, <1>6, AppendFacts
<1>8. msgQ' = t
  BY <1>1, <1>5 DEF Post
<1>9. \A i \in 1..Len(q) : q[i].m = "remove" =>
        /\ q[i].c \in clients \ removing /\ q[i].c # c
        /\ \A j \in 1..Len(q) : q[j].m = "remove" /\ q[j].c = q[i].c => j = i
  BY <1>1, <1>5 DEF TypedInv, RemovedOnce, Leaving
<1>10. c \in clients \ removing
  BY <1>1 DEF Leaving
<1>11. \A i \in 1..Len(t) : t[i].m = "remove" =>
        /\ t[i].c \in clients \ removing
        /\ \A j \in 1..Len(t) : t[j].m = "remove" /\ t[j].c = t[i].c => j = i
  BY <1>6, <1>7, <1>9, <1>10
<1>12. RemovedOnce'
  BY <1>3, <1>8, <1>11 DEF RemovedOnce
<1> QED
  BY <1>1, <1>2, <1>3, <1>4, <1>7, <1>8, <1>12, HandlerTyped

\* The engine takes the command at the head of apiQ.
LEMMA ServeTyped ==
    ASSUME TypedInv, Serve
    PROVE  /\ apiQ \in Seq(Command) /\ apiQ # <<>> /\ apiQ' = Tail(apiQ)
           /\ apiQ' \in Seq(Command) /\ Head(apiQ) = apiQ[1]
           /\ Head(apiQ) \in Command /\ Head(apiQ) # OpenMsg
           /\ Head(apiQ).op \in {"startTB", "stopFix", "startDB", "stopDB"}
           /\ Head(apiQ).o \in OptionType
           /\ Head(apiQ).cb \in Callback /\ Head(apiQ).s \in Sessions
           /\ Head(apiQ).co \in OptionType
<1>1. apiQ \in Seq(Command) /\ apiQ # <<>> /\ apiQ' = Tail(apiQ) /\ Head(apiQ).op # "open"
  BY DEF Serve, TypedInv, TypeOK
<1>2. PICK h : h = Head(apiQ)
  OBVIOUS
<1>3. h \in Command /\ h # OpenMsg
  BY <1>1, <1>2, HeadTail DEF OpenMsg
<1> QED
  BY <1>1, <1>2, <1>3, HeadTail, CommandFields

Answers(cmd, ok) == [m |-> "resp", cb |-> cmd.cb, s |-> cmd.s, co |-> cmd.co, ok |-> ok]

LEMMA AnswerTyped ==
    ASSUME TypedInv, NEW cmd, NEW ok \in BOOLEAN, Answer(cmd, ok),
           cmd.cb \in Callback, cmd.s \in Sessions, cmd.co \in OptionType,
           UNCHANGED <<clients, removing>>
    PROVE  msgQ' \in Seq(Message) /\ RemovedOnce'
<1>1. Answers(cmd, ok) \in Message /\ Answers(cmd, ok).m # "remove"
  BY DEF Answers, Message
<1>2. UNCHANGED msgQ \/ Post(Answers(cmd, ok))
  BY DEF Answer, Answers
<1> QED
  BY <1>1, <1>2, PostTyped, SameQueueTyped

LEMMA EngineDoneTyped ==
    ASSUME TypedInv, EngineDone
    PROVE  TypedInv'
<1> DEFINE cmd == Head(apiQ)
<1>1. /\ Serve
      /\ fix' = CASE cmd.op = "startTB" -> cmd.o
                  [] cmd.op = "stopFix" -> None
                  [] OTHER -> fix
      /\ dfix' = CASE cmd.op = "startDB" -> dfix \cup {cmd.s}
                   [] cmd.op = "stopDB" -> dfix \ {cmd.s}
                   [] OTHER -> dfix
      /\ Answer(cmd, TRUE)
      /\ UNCHANGED adapterVars /\ UNCHANGED <<up, want, owed, ups, nhzs>>
  BY DEF EngineDone
<1>2. /\ cmd.o \in OptionType /\ cmd.s \in Sessions /\ cmd.cb \in Callback
      /\ cmd.co \in OptionType /\ apiQ' \in Seq(Command)
  BY <1>1, ServeTyped
<1>3. MapsTyped(tb', db') /\ UNCHANGED <<clients, removing>> /\ speHigh' \in BOOLEAN
      /\ capsKnown' \in BOOLEAN /\ nhz' \in BOOLEAN
      /\ pending' \in Seq(Message) /\ DeferredOnes'
  BY <1>1, AdapterSame
<1>4. msgQ' \in Seq(Message) /\ RemovedOnce'
  BY <1>1, <1>2, <1>3, AnswerTyped
<1>5. fix' \in OptionType
  BY <1>1, <1>2, NoneTyped DEF TypedInv, TypeOK
<1>6. dfix' \subseteq Sessions
  BY <1>1, <1>2 DEF TypedInv, TypeOK
<1> QED
  BY <1>1, <1>2, <1>3, <1>4, <1>5, <1>6 DEF TypedInv, TypeOK, MapsTyped, MapTyped, FiniteMaps

LEMMA EngineRefusesTyped ==
    ASSUME TypedInv, EngineRefuses
    PROVE  TypedInv'
<1>1. /\ Serve /\ Answer(Head(apiQ), FALSE)
      /\ UNCHANGED adapterVars /\ UNCHANGED engineVars /\ UNCHANGED <<want, owed>>
  BY DEF EngineRefuses
<1>2. /\ Head(apiQ).s \in Sessions /\ Head(apiQ).cb \in Callback
      /\ Head(apiQ).co \in OptionType /\ apiQ' \in Seq(Command)
  BY <1>1, ServeTyped
<1>3. MapsTyped(tb', db') /\ UNCHANGED <<clients, removing>> /\ speHigh' \in BOOLEAN
      /\ capsKnown' \in BOOLEAN /\ nhz' \in BOOLEAN
      /\ pending' \in Seq(Message) /\ DeferredOnes'
  BY <1>1, AdapterSame
<1>4. msgQ' \in Seq(Message) /\ RemovedOnce'
  BY <1>1, <1>2, <1>3, AnswerTyped
<1>5. want' \in [Sessions -> OptionType] /\ owed' \in [Sessions -> Int]
  BY <1>1 DEF TypedInv, TypeOK
<1> QED
  BY <1>1, <1>2, <1>3, <1>4, <1>5, HandlerTyped

LEMMA EngineEventTyped ==
    ASSUME TypedInv, EngineDown \/ handleEngineDownEvent \/ EngineUp \/ NHzRequirement
    PROVE  TypedInv'
<1>0. OpenMsg \in Command /\ [m |-> "engineUp"] \in Message /\ [m |-> "nhz"] \in Message
  BY DEF OpenMsg, Command, Message
<1>1. UNCHANGED adapterVars /\ UNCHANGED <<want, owed>>
  BY DEF EngineDown, handleEngineDownEvent, EngineUp, NHzRequirement
<1>2. MapsTyped(tb', db') /\ UNCHANGED <<clients, removing>> /\ speHigh' \in BOOLEAN
      /\ capsKnown' \in BOOLEAN /\ nhz' \in BOOLEAN
      /\ pending' \in Seq(Message) /\ DeferredOnes'
  BY <1>1, AdapterSame
<1>3. msgQ' \in Seq(Message) /\ RemovedOnce'
  BY <1>0, <1>2, PostTyped, SameQueueTyped
  DEF EngineDown, handleEngineDownEvent, EngineUp, NHzRequirement
<1>4. apiQ' \in Seq(Command)
  <2>1. apiQ \in Seq(Command)
    BY DEF TypedInv, TypeOK
  <2>2. apiQ' = apiQ \/ apiQ' = Append(apiQ, OpenMsg) \/ (apiQ # <<>> /\ apiQ' = Tail(apiQ))
    BY DEF EngineDown, handleEngineDownEvent, EngineUp, NHzRequirement
  <2>3. PICK q, c : q = apiQ /\ c = OpenMsg
    OBVIOUS
  <2>4. q \in Seq(Command) /\ c \in Command
    BY <1>0, <2>1, <2>3
  <2>5. Append(q, c) \in Seq(Command)
    BY <2>4
  <2>6. q # <<>> => Tail(q) \in Seq(Command)
    BY <2>4
  <2> QED
    BY <2>2, <2>3, <2>4, <2>5, <2>6
<1>5. /\ up' \in BOOLEAN /\ fix' \in OptionType /\ dfix' \subseteq Sessions
      /\ ups' \in Nat /\ nhzs' \in Nat
  <2>1. up \in BOOLEAN /\ fix \in OptionType /\ dfix \subseteq Sessions /\ ups \in Nat /\ nhzs \in Nat
    BY DEF TypedInv, TypeOK
  <2>2. CASE EngineDown
    BY <2>1, <2>2, NoneTyped DEF EngineDown
  <2>3. CASE handleEngineDownEvent
    BY <2>1, <2>3 DEF handleEngineDownEvent, engineVars
  <2>4. CASE EngineUp
    BY <2>1, <2>4 DEF EngineUp
  <2>5. CASE NHzRequirement
    BY <2>1, <2>5 DEF NHzRequirement
  <2> QED
    BY <2>2, <2>3, <2>4, <2>5
<1> QED
  BY <1>1, <1>2, <1>3, <1>4, <1>5 DEF TypedInv, TypeOK, MapsTyped, MapTyped, FiniteMaps

LEMMA TypedInit == Init => TypedInv
<1> SUFFICES ASSUME Init PROVE TypedInv
  OBVIOUS
<1>1. DOMAIN tb = {} /\ DOMAIN db = {}
  BY DEF Init
<1>2. IsFiniteSet({})
  BY FS_EmptySet
<1>3. RemovedOnce /\ DeferredOnes /\ pending \in Seq(Message) /\ msgQ \in Seq(Message)
      /\ apiQ \in Seq(Command)
  BY DEF Init, RemovedOnce, DeferredOnes
<1>4. fix \in OptionType /\ want \in [Sessions -> OptionType] /\ owed \in [Sessions -> Int]
      /\ ups \in Nat /\ nhzs \in Nat /\ dfix \subseteq Sessions
      /\ clients \subseteq Clients /\ removing \subseteq clients
  BY NoneTyped DEF Init
<1>5. capsKnown \in BOOLEAN /\ speHigh \in BOOLEAN /\ nhz \in BOOLEAN /\ up \in BOOLEAN
  BY DEF Init
<1> QED
  BY <1>1, <1>2, <1>3, <1>4, <1>5 DEF TypedInv, TypeOK, FiniteMaps

LEMMA TypedStep == TypedInv /\ [Next]_vars => TypedInv'
<1> SUFFICES ASSUME TypedInv, [Next]_vars PROVE TypedInv'
  OBVIOUS
<1>1. CASE Proc
  BY <1>1, StartTyped, UpdateTyped, StopTyped, RemoveClientTyped, RemoveTimeBasedTyped,
     RemoveRestTyped, RespStartTyped, RespUpdateTyped, RespStopTyped, RespDistanceStopTyped,
     RespToTimeBasedTyped, RespRestartTyped, RespRestartedTyped, EngineUpHandled, NHzTyped
  DEF Proc
<1>2. CASE \E s \in Sessions, o \in Options \cup {None} :
              startTracking(s, o) \/ updateTrackingOptions(s, o)
  BY <1>2, startTrackingTyped, updateTrackingOptionsTyped
<1>3. CASE \E s \in Sessions : stopTracking(s)
  BY <1>3, stopTrackingTyped
<1>4. CASE \E c \in Clients : removeClient(c)
  BY <1>4, removeClientTyped
<1>5. CASE EngineDone \/ EngineRefuses
  BY <1>5, EngineDoneTyped, EngineRefusesTyped
<1>6. CASE EngineDown \/ handleEngineDownEvent \/ EngineUp \/ NHzRequirement
  BY <1>6, EngineEventTyped
<1>7. CASE UNCHANGED vars
  BY <1>7 DEF vars, TypedInv, TypeOK, RemovedOnce, DeferredOnes, FiniteMaps
<1> QED
  BY <1>1, <1>2, <1>3, <1>4, <1>5, <1>6, <1>7 DEF Next

\* The variables have their types, a client is removed once and is registered
\* until then, and only starts and updates are put off, whatever the
\* sessions, the clients, the options and the engine do (MsgRemoveClient,
\* mPendingMsgs and the handlers of GnssAdapter.cpp).
THEOREM TypedAlways == Spec => []TypedInv
<1>1. Init => TypedInv
  BY TypedInit
<1>2. TypedInv /\ [Next]_vars => TypedInv'
  BY TypedStep
<1> QED
  BY <1>1, <1>2, PTL DEF Spec

-----------------------------------------------------------------------------
(* The command that decides. *)

TimeBased(c) == c.op \in {"startTB", "stopFix"}

LEMMA DecidesFacts ==
    ASSUME NEW q
    PROVE  \A i : i \in Decides(q) <=> i \in 1..Len(q) /\ TimeBased(q[i])
  BY DEF Decides, TimeBased

LEMMA PlansFacts ==
    ASSUME NEW q, NEW f, NEW o
    PROVE  o \in Plans(q, f) <=>
              \/ \E i \in Decides(q) : o = q[i].o /\ \A j \in Decides(q) : j <= i
              \/ Decides(q) = {} /\ o = f
  BY DEF Plans

LEMMA PlansTyped ==
    ASSUME NEW q \in Seq(Command), NEW f \in OptionType, NEW o \in Plans(q, f)
    PROVE  o \in OptionType
<1>1. CASE o = f
  BY <1>1
<1>2. ASSUME NEW i \in Decides(q), o = q[i].o
      PROVE  o \in OptionType
  <2>1. i \in 1..Len(q) /\ TimeBased(q[i])
    BY DecidesFacts
  <2>2. PICK c : c = q[i]
    OBVIOUS
  <2>3. c \in Command /\ TimeBased(c)
    BY <2>1, <2>2
  <2> QED
    BY <1>2, <2>2, <2>3, CommandFields DEF TimeBased, OpenMsg
<1> QED
  BY <1>1, <1>2, PlansFacts

LEMMA PlansOfOne ==
    ASSUME NEW q \in Seq(Command), NEW c \in Command, TimeBased(c), NEW f,
           NEW o \in Plans(q \o <<c>>, f)
    PROVE  o = c.o
<1>1. PICK w, n : w = q \o <<c>> /\ n = Len(q) + 1
  OBVIOUS
<1>2. w \in Seq(Command) /\ Len(w) = n /\ n \in Nat /\ w[n] = c /\ n \in 1..Len(w)
  BY <1>1
<1>3. n \in Decides(w)
  BY <1>2, DecidesFacts
<1>4. PICK i \in Decides(w) : o = w[i].o /\ \A j \in Decides(w) : j <= i
  BY <1>1, <1>3, PlansFacts
<1>5. i \in 1..n /\ n <= i
  BY <1>2, <1>3, <1>4, DecidesFacts
<1>6. i = n
  BY <1>2, <1>5
<1> QED
  BY <1>2, <1>4, <1>6

LEMMA PlansOfOthers ==
    ASSUME NEW q \in Seq(Command), NEW r \in Seq(Command),
           \A i \in 1..Len(r) : ~TimeBased(r[i]), NEW f, NEW o \in Plans(q \o r, f)
    PROVE  o \in Plans(q, f)
<1>1. PICK w : w = q \o r
  OBVIOUS
<1>2. /\ Len(q) \in Nat /\ Len(r) \in Nat /\ Len(w) = Len(q) + Len(r)
      /\ \A i \in 1..Len(q) : i \in 1..Len(w) /\ w[i] = q[i]
      /\ \A i \in 1..Len(w) : i \in 1..Len(q) \/ (i - Len(q) \in 1..Len(r) /\ w[i] = r[i - Len(q)])
  BY <1>1
<1>3. ASSUME NEW i PROVE i \in Decides(w) <=> i \in Decides(q)
  <2>1. i \in Decides(w) <=> i \in 1..Len(w) /\ TimeBased(w[i])
    BY DecidesFacts
  <2>2. i \in Decides(q) <=> i \in 1..Len(q) /\ TimeBased(q[i])
    BY DecidesFacts
  <2>3. i \in 1..Len(q) => i \in 1..Len(w) /\ w[i] = q[i]
    BY <1>2
  <2>4. i \in 1..Len(w) /\ TimeBased(w[i]) => i \in 1..Len(q)
    BY <1>2
  <2> QED
    BY <2>1, <2>2, <2>3, <2>4
<1>4. Decides(w) = Decides(q) /\ \A i \in Decides(q) : w[i] = q[i]
  BY <1>2, <1>3 DEF Decides
<1>5. CASE Decides(q) = {} /\ o = f
  BY <1>5, PlansFacts
<1>6. ASSUME NEW i \in Decides(q), o = q[i].o, \A j \in Decides(q) : j <= i
      PROVE  o \in Plans(q, f)
  BY <1>6, PlansFacts
<1>7. \/ \E i \in Decides(w) : o = w[i].o /\ \A j \in Decides(w) : j <= i
      \/ Decides(w) = {} /\ o = f
  BY <1>1, PlansFacts
<1> QED
  BY <1>4, <1>5, <1>6, <1>7

LEMMA PlansOfTail ==
    ASSUME NEW q \in Seq(Command), q # <<>>, NEW f, NEW g,
           TimeBased(q[1]) => g = q[1].o, ~TimeBased(q[1]) => g = f,
           NEW o \in Plans(Tail(q), g)
    PROVE  o \in Plans(q, f)
<1>1. PICK t : t = Tail(q)
  OBVIOUS
<1>2. /\ Len(t) \in Nat /\ Len(q) = Len(t) + 1 /\ 1 \in 1..Len(q)
      /\ \A i \in 1..Len(t) : i + 1 \in 1..Len(q) /\ t[i] = q[i + 1]
      /\ \A i \in 1..Len(q) : i = 1 \/ (i - 1 \in 1..Len(t) /\ t[i - 1] = q[i])
  BY <1>1, HeadTail
<1>3. \A i \in Decides(t) : i + 1 \in Decides(q) /\ q[i + 1] = t[i]
  BY <1>2, DecidesFacts
<1>4. \A i \in Decides(q) : i = 1 \/ (i - 1 \in Decides(t) /\ t[i - 1] = q[i])
  BY <1>2, DecidesFacts
<1>5. ASSUME NEW i \in Decides(t), o = t[i].o, \A j \in Decides(t) : j <= i
      PROVE  o \in Plans(q, f)
  <2>1. i + 1 \in Decides(q) /\ o = q[i + 1].o /\ i \in 1..Len(t)
    BY <1>3, <1>5, DecidesFacts
  <2>2. \A j \in Decides(q) : j <= i + 1
    <3> SUFFICES ASSUME NEW j \in Decides(q) PROVE j <= i + 1
      OBVIOUS
    <3>1. j \in 1..Len(q)
      BY DecidesFacts
    <3>2. j = 1 \/ j - 1 <= i
      BY <1>4, <1>5
    <3> QED
      BY <1>2, <2>1, <3>1, <3>2
  <2> QED
    BY <2>1, <2>2, PlansFacts
<1>6. CASE Decides(t) = {} /\ o = g
  <2>1. \A i \in Decides(q) : i = 1
    BY <1>4, <1>6
  <2>2. CASE TimeBased(q[1])
    BY <1>2, <1>6, <2>1, <2>2, DecidesFacts, PlansFacts
  <2>3. CASE ~TimeBased(q[1])
    BY <1>6, <2>1, <2>3, DecidesFacts, PlansFacts
  <2> QED
    BY <2>2, <2>3
<1>7. o \in Plans(t, g)
  BY <1>1
<1>8. \/ \E i \in Decides(t) : o = t[i].o /\ \A j \in Decides(t) : j <= i
      \/ Decides(t) = {} /\ o = g
  BY <1>7, PlansFacts
<1> QED
  BY <1>5, <1>6, <1>8

-----------------------------------------------------------------------------
(* What keeps the engine fast enough. *)

LEMMA IntsTyped ==
    ASSUME NEW f, MapTyped(f)
    PROVE  \A s \in DOMAIN f : f[s].int \in Nat
  BY DEF MapTyped, OptionType

\* Sessions g that ask for no more than the sessions f did.
LEMMA GoodForLess ==
    ASSUME NEW q \in Seq(Command), NEW x \in OptionType, NEW f, MapTyped(f), NEW g, MapTyped(g),
           NEW hz, NEW spe, Good(q, x, f, hz, spe),
           \A s \in DOMAIN g : MinInterval <= g[s].int,
           \A s \in DOMAIN g : \E t \in DOMAIN f : f[t].int <= g[s].int
    PROVE  Good(q, x, g, hz, spe)
<1> SUFFICES ASSUME NEW o \in Plans(q, x) PROVE Rate(o, g, hz, spe)
  BY DEF Good
<1>1. o.int \in Nat
  BY PlansTyped DEF OptionType
<1>2. Rate(o, f, hz, spe)
  BY DEF Good
<1>3. ASSUME NEW s \in DOMAIN g
      PROVE  MinInterval <= o.int /\ o.int <= g[s].int
  <2>1. PICK t \in DOMAIN f : f[t].int <= g[s].int
    BY <1>3
  <2>2. f[t].int \in Nat /\ g[s].int \in Nat
    BY <1>3, IntsTyped
  <2>3. MinInterval <= o.int /\ o.int <= f[t].int
    BY <1>2 DEF Rate
  <2> QED
    BY <1>1, <2>1, <2>2, <2>3
<1>4. hz /\ DOMAIN g # {} => o.int = MinInterval
  BY <1>2 DEF Rate
<1> QED
  BY <1>2, <1>3, <1>4 DEF Rate

\* The engine runs at the highest rate already.
LEMMA GoodWhenHigh ==
    ASSUME NEW q \in Seq(Command), NEW x \in OptionType, NEW f, NEW g, MapTyped(g),
           NEW hz, NEW spe, Good(q, x, f, hz, spe), spe,
           \A s \in DOMAIN g : MinInterval <= g[s].int
    PROVE  Good(q, x, g, hz, spe)
<1> SUFFICES ASSUME NEW o \in Plans(q, x) PROVE Rate(o, g, hz, spe)
  BY DEF Good
<1>1. o.int = MinInterval /\ MinInterval \in Nat
  BY OptionAssumption DEF Good, Rate
<1> QED
  BY <1>1 DEF Rate

\* Commands that leave the fix session alone.
LEMMA GoodWithOthers ==
    ASSUME NEW q \in Seq(Command), NEW r \in Seq(Command),
           \A i \in 1..Len(r) : ~TimeBased(r[i]),
           NEW x, NEW f, NEW hz, NEW spe, Good(q, x, f, hz, spe)
    PROVE  Good(q \o r, x, f, hz, spe)
  BY PlansOfOthers DEF Good

\* A new rate p.
LEMMA GoodRun ==
    ASSUME NEW q \in Seq(Command), NEW c \in Command, TimeBased(c),
           NEW x, NEW f, NEW hz, NEW spe, Rate(c.o, f, hz, spe)
    PROVE  Good(q \o <<c>>, x, f, hz, spe)
<1> SUFFICES ASSUME NEW o \in Plans(q \o <<c>>, x) PROVE Rate(o, f, hz, spe)
  BY DEF Good
<1>1. o = c.o
  BY PlansOfOne
<1> QED
  BY <1>1

LEMMA GoodWithoutSessions ==
    ASSUME NEW q, NEW x, NEW f, DOMAIN f = {}, NEW hz, NEW spe, ~spe
    PROVE  Good(q, x, f, hz, spe)
  BY DEF Good, Rate

\* The engine takes the first command.
LEMMA GoodTail ==
    ASSUME NEW q \in Seq(Command), q # <<>>, NEW x, NEW y,
           TimeBased(q[1]) => y = q[1].o, ~TimeBased(q[1]) => y = x,
           NEW f, NEW hz, NEW spe, Good(q, x, f, hz, spe)
    PROVE  Good(Tail(q), y, f, hz, spe)
  BY PlansOfTail DEF Good

\* A session s is started or updated with options o.
LEMMA CoversGood ==
    ASSUME NEW q \in Seq(Command), NEW x \in OptionType, MapTyped(tb), speHigh => nhz,
           \A t \in DOMAIN tb : MinInterval <= tb[t].int,
           Good(q, x, tb, nhz, speHigh),
           NEW cb \in Callback, NEW s \in Sessions, NEW co \in OptionType,
           NEW o \in OptionType, MinInterval <= o.int, NEW e, Covers(e, cb, s, co, o)
    PROVE  Good(q \o e.cmds, x, Put(tb, s, o), nhz, e.spe)
<1> DEFINE g == Put(tb, s, o)
<1>a. MapTyped(g)
  BY PutTyped
<1>1. /\ MapTyped(g) /\ DOMAIN g = DOMAIN tb \cup {s} /\ g[s] = o
      /\ \A t \in DOMAIN tb : t # s => g[t] = tb[t]
  BY <1>a DEF Put
<1>2. \A t \in DOMAIN g : MinInterval <= g[t].int
  BY <1>1
<1>3. CASE Fast(e)
  <2>1. q \o e.cmds = q /\ e.spe = speHigh /\ speHigh
    BY <1>3 DEF Fast, Silent
  <2>2. Good(q, x, g, nhz, speHigh)
    <3> HIDE DEF g
    <3> QED
      BY <1>1, <1>2, <2>1, GoodWhenHigh
  <2> QED
    BY <2>1, <2>2
<1>4. CASE Silent(e) /\ \E t \in DOMAIN tb : tb[t].int <= o.int
  <2>1. q \o e.cmds = q /\ e.spe = speHigh
    BY <1>4 DEF Silent
  <2>2. \A u \in DOMAIN g : \E t \in DOMAIN tb : tb[t].int <= g[u].int
    BY <1>1, <1>4, IntsTyped
  <2>3. Good(q, x, g, nhz, speHigh)
    <3> HIDE DEF g
    <3> QED
      BY <1>1, <1>2, <2>2, GoodForLess
  <2> QED
    BY <2>1, <2>3
<1>5. ASSUME NEW p \in OptionType, Runs(e, cb, s, co, p), p.int <= o.int,
             \A t \in DOMAIN tb \ {s} : p.int <= tb[t].int,
             \/ p.int = MinInterval \/ p.int = o.int
             \/ \E t \in DOMAIN tb : p.int = tb[t].int
      PROVE  Good(q \o e.cmds, x, g, nhz, e.spe)
  <2>1. PICK c : c = Cmd("startTB", p, cb, s, co)
    OBVIOUS
  <2>2. c \in Command /\ c.o = p /\ TimeBased(c)
    BY <2>1, CmdTyped DEF Cmd, TimeBased
  <2>3. e.cmds = <<c>>
    BY <1>5, <2>1 DEF Runs
  <2>4. MinInterval <= p.int /\ p.int \in Nat /\ MinInterval \in Nat
    BY <1>5, OptionAssumption DEF OptionType
  <2>5. \A t \in DOMAIN g : MinInterval <= p.int /\ p.int <= g[t].int
    BY <1>1, <1>5, <2>4
  <2>6. nhz => p.int = MinInterval
    BY <1>5, <2>4 DEF Runs
  <2>7. e.spe => p.int = MinInterval
    BY <1>5 DEF Runs
  <2>8. Rate(c.o, g, nhz, e.spe)
    BY <2>2, <2>5, <2>6, <2>7 DEF Rate
  <2> HIDE DEF g
  <2> QED
    BY <2>2, <2>3, <2>8, GoodRun
<1> QED
  BY <1>3, <1>4, <1>5 DEF Covers

\* A time based session s is gone.
LEMMA FreesGood ==
    ASSUME NEW q \in Seq(Command), NEW x \in OptionType, MapTyped(tb), speHigh => nhz,
           \A t \in DOMAIN tb : MinInterval <= tb[t].int,
           Good(q, x, tb, nhz, speHigh),
           NEW s \in DOMAIN tb, NEW e, Frees(e, s)
    PROVE  Good(q \o e.cmds, x, Drop(tb, s), nhz, e.spe)
<1> DEFINE g == Drop(tb, s)
<1>1. /\ MapTyped(g) /\ DOMAIN g = DOMAIN tb \ {s} /\ s \in Sessions
      /\ \A t \in DOMAIN g : g[t] = tb[t]
  BY DropTyped, DropFacts DEF MapTyped
<1>2. CASE Ends(e, s) /\ DOMAIN tb \subseteq {s}
  <2>1. DOMAIN Drop(tb, s) = {} /\ ~e.spe
    BY <1>1, <1>2 DEF Ends
  <2>2. PICK w, y, z : w = q \o e.cmds /\ y = e.spe /\ z = Drop(tb, s)
    OBVIOUS
  <2>3. Good(w, x, z, nhz, y)
    BY <2>1, <2>2, GoodWithoutSessions
  <2> QED
    BY <2>2, <2>3
<1>3. CASE Silent(e)
  <2>1. q \o e.cmds = q /\ e.spe = speHigh
    BY <1>3 DEF Silent
  <2>2. \A u \in DOMAIN g : \E t \in DOMAIN tb : tb[t].int <= g[u].int
    BY <1>1, IntsTyped
  <2>3. \A t \in DOMAIN g : MinInterval <= g[t].int
    BY <1>1
  <2>4. Good(q, x, g, nhz, speHigh)
    <3> HIDE DEF g
    <3> QED
      BY <1>1, <2>2, <2>3, GoodForLess
  <2> QED
    BY <2>1, <2>4
<1>4. ASSUME NEW p \in OptionType, Runs(e, "start", s, None, p),
             \A t \in DOMAIN tb \ {s} : p.int <= tb[t].int,
             p.int = MinInterval \/ \E t \in DOMAIN tb : p.int = tb[t].int
      PROVE  Good(q \o e.cmds, x, g, nhz, e.spe)
  <2>1. PICK c : c = Cmd("startTB", p, "start", s, None)
    OBVIOUS
  <2>2. c \in Command /\ c.o = p /\ TimeBased(c)
    BY <1>1, <2>1, CmdTyped, NoneTyped DEF Cmd, TimeBased, Callback
  <2>3. e.cmds = <<c>>
    BY <1>4, <2>1 DEF Runs
  <2>4. MinInterval <= p.int /\ p.int \in Nat /\ MinInterval \in Nat
    BY <1>4, OptionAssumption DEF OptionType
  <2>5. \A t \in DOMAIN g : MinInterval <= p.int /\ p.int <= g[t].int
    BY <1>1, <1>4, <2>4
  <2>6. nhz => p.int = MinInterval
    BY <1>4, <2>4 DEF Runs
  <2>7. e.spe => p.int = MinInterval
    BY <1>4 DEF Runs
  <2>8. Rate(c.o, g, nhz, e.spe)
    BY <2>2, <2>5, <2>6, <2>7 DEF Rate
  <2> HIDE DEF g
  <2> QED
    BY <2>2, <2>3, <2>8, GoodRun
<1> QED
  BY <1>2, <1>3, <1>4 DEF Frees

\* The time based sessions are restarted.
LEMMA RestartsGood ==
    ASSUME NEW q \in Seq(Command), NEW x, MapTyped(tb),
           \A t \in DOMAIN tb : MinInterval <= tb[t].int,
           NEW hz, NEW e, Restarts(e, hz)
    PROVE  Good(q \o e.cmds, x, tb, hz, e.spe)
<1>1. CASE DOMAIN tb = {} /\ e.cmds = <<>> /\ e.spe = FALSE
  BY <1>1, GoodWithoutSessions
<1>2. ASSUME NEW p \in OptionType, NEW s \in Sessions,
             e.cmds = <<Cmd("startTB", p, "none", s, None)>>,
             \A t \in DOMAIN tb : p.int <= tb[t].int,
             p.int = MinInterval \/ \E t \in DOMAIN tb : p.int = tb[t].int,
             hz => p.int <= MinInterval, e.spe => hz /\ p.int = MinInterval
      PROVE  Good(q \o e.cmds, x, tb, hz, e.spe)
  <2>1. PICK c : c = Cmd("startTB", p, "none", s, None)
    OBVIOUS
  <2>2. c \in Command /\ c.o = p /\ TimeBased(c)
    BY <2>1, CmdTyped, NoneTyped DEF Cmd, TimeBased, Callback
  <2>3. MinInterval <= p.int /\ p.int \in Nat /\ MinInterval \in Nat
    BY <1>2, OptionAssumption DEF OptionType
  <2>4. Rate(c.o, tb, hz, e.spe)
    BY <1>2, <2>2, <2>3 DEF Rate
  <2> QED
    BY <1>2, <2>1, <2>2, <2>4, GoodRun
<1> QED
  BY <1>1, <1>2 DEF Restarts

-----------------------------------------------------------------------------
(* The options in the maps, commands and answers. *)

AllKept(q) == \A i \in 1..Len(q) : CommandKept(q[i])

MapsKept(f, g) == (\A s \in DOMAIN f : TimeOption(f[s])) /\ (\A s \in DOMAIN g : IsDistance(g[s]))

Told == \A i \in 1..Len(msgQ) : msgQ[i].m = "resp" => Captured(msgQ[i])

LEMMA OptionsParts == OptionsKept <=> MapsKept(tb, db) /\ AllKept(apiQ) /\ Told
  BY DEF OptionsKept, MapsKept, AllKept, Told

LEMMA CmdKept ==
    ASSUME NEW op, NEW o, NEW cb, NEW s, NEW co, op = "stopFix" => o = None,
           cb \in {"update", "toTimeBased"} => TimeOption(co),
           cb \in {"restart", "restarted"} => IsDistance(co)
    PROVE  CommandKept(Cmd(op, o, cb, s, co))
<1>1. PICK c : c = Cmd(op, o, cb, s, co)
  OBVIOUS
<1>2. c.op = op /\ c.o = o /\ c.cb = cb /\ c.co = co
  BY <1>1 DEF Cmd
<1> QED
  BY <1>1, <1>2 DEF CommandKept, Captured

LEMMA OneKept ==
    ASSUME NEW c, CommandKept(c)
    PROVE  AllKept(<<c>>)
  BY DEF AllKept

LEMMA ConcatKept ==
    ASSUME NEW q \in Seq(Command), NEW r \in Seq(Command), AllKept(q), AllKept(r)
    PROVE  AllKept(q \o r)
<1>1. PICK w, n : w = q \o r /\ n = Len(q)
  OBVIOUS
<1>2. /\ n \in Nat
      /\ \A i \in 1..Len(w) : i \in 1..n \/ (i - n \in 1..Len(r) /\ w[i] = r[i - n])
      /\ \A i \in 1..n : w[i] = q[i]
  BY <1>1
<1>3. (\A i \in 1..n : CommandKept(q[i])) /\ (\A i \in 1..Len(r) : CommandKept(r[i]))
  BY <1>1 DEF AllKept
<1>4. \A i \in 1..Len(w) : CommandKept(w[i])
  BY <1>2, <1>3
<1> QED
  BY <1>1, <1>4 DEF AllKept

LEMMA TailKept ==
    ASSUME NEW q \in Seq(Command), q # <<>>, AllKept(q)
    PROVE  AllKept(Tail(q))
  BY HeadTail DEF AllKept

LEMMA NoneKept == AllKept(<<>>)
  BY DEF AllKept

LEMMA CoversKept ==
    ASSUME NEW e, NEW cb \in {"start", "update"}, NEW s, NEW co, NEW o, Covers(e, cb, s, co, o),
           cb = "update" => TimeOption(co)
    PROVE  AllKept(e.cmds)
<1>1. CASE Silent(e)
  BY <1>1, NoneKept DEF Silent
<1>2. ASSUME NEW p \in OptionType, Runs(e, cb, s, co, p)
      PROVE  AllKept(e.cmds)
  BY <1>2, CmdKept, OneKept DEF Runs
<1> QED
  BY <1>1, <1>2 DEF Covers, Fast

LEMMA FreesKept ==
    ASSUME NEW e, NEW s, Frees(e, s)
    PROVE  AllKept(e.cmds)
<1>1. CASE Silent(e)
  BY <1>1, NoneKept DEF Silent
<1>2. ASSUME NEW p \in OptionType, Runs(e, "start", s, None, p)
      PROVE  AllKept(e.cmds)
  BY <1>2, CmdKept, OneKept DEF Runs
<1>3. CASE Ends(e, s)
  BY <1>3, CmdKept, OneKept DEF Ends
<1> QED
  BY <1>1, <1>2, <1>3 DEF Frees

LEMMA RestartsKept ==
    ASSUME NEW e, NEW hz, Restarts(e, hz)
    PROVE  AllKept(e.cmds)
<1>1. CASE e.cmds = <<>>
  BY <1>1, NoneKept
<1>2. ASSUME NEW p \in OptionType, NEW s, e.cmds = <<Cmd("startTB", p, "none", s, None)>>
      PROVE  AllKept(e.cmds)
  BY <1>2, CmdKept, OneKept
<1> QED
  BY <1>1, <1>2 DEF Restarts

\* Commands for distance based sessions.
LEMMA DistanceCmdsKept ==
    ASSUME NEW q, NEW op \in {"startDB", "stopDB"}, NEW cb \in {"none", "clean"},
           \A i \in 1..Len(q) : q[i] = Cmd(op, db[q[i].s], cb, q[i].s, None)
    PROVE  AllKept(q) /\ \A i \in 1..Len(q) : ~TimeBased(q[i])
<1> SUFFICES ASSUME NEW i \in 1..Len(q) PROVE CommandKept(q[i]) /\ ~TimeBased(q[i])
  BY DEF AllKept
<1>1. PICK c, o, s : c = q[i] /\ o = db[q[i].s] /\ s = q[i].s
  OBVIOUS
<1>2. c = Cmd(op, o, cb, s, None)
  BY <1>1
<1>3. CommandKept(c)
  BY <1>2, CmdKept
<1>4. c.op = op
  BY <1>2 DEF Cmd
<1>5. ~TimeBased(c)
  BY <1>4 DEF TimeBased
<1> QED
  BY <1>1, <1>3, <1>5

LEMMA TakeRate ==
    ASSUME TypedInv, OldErrors, Told, msgQ # <<>>, Take, Head(msgQ).m # "engineUp", up' = up
    PROVE  OldErrors' /\ Told' /\ (Opened' => Opened)
<1>1. PICK q, t : q = msgQ /\ t = Tail(msgQ)
  OBVIOUS
<1>2. /\ q \in Seq(Message) /\ msgQ' = t /\ q[1].m # "engineUp"
      /\ Len(t) \in Nat /\ Len(q) = Len(t) + 1
      /\ \A i \in 1..Len(t) : i + 1 \in 1..Len(q) /\ t[i] = q[i + 1]
      /\ \A i \in 1..Len(q) : i = 1 \/ (i - 1 \in 1..Len(t) /\ t[i - 1] = q[i])
  BY <1>1, HeadTail DEF TypedInv, TypeOK, Take
<1>3. Opened' => Opened
  BY <1>1, <1>2 DEF Opened
<1>4. Told'
  BY <1>1, <1>2 DEF Told
<1>5. ASSUME up, NEW i \in 1..Len(t), t[i].m = "resp", ~t[i].ok
      PROVE  \E j \in i..Len(t) : t[j].m = "engineUp"
  <2>1. PICK j \in (i + 1)..Len(q) : q[j].m = "engineUp"
    BY <1>1, <1>2, <1>5 DEF OldErrors
  <2>2. j \in 1..Len(q) /\ j # 1 /\ j - 1 \in i..Len(t)
    BY <1>2, <2>1
  <2> QED
    BY <1>2, <2>1, <2>2
<1>6. OldErrors'
  BY <1>2, <1>5 DEF OldErrors
<1> QED
  BY <1>3, <1>4, <1>6

\* The pieces of a handler's step.
LEMMA HandlerRate ==
    ASSUME TypedInv, RateInv, msgQ # <<>>, Take, Head(msgQ).m # "engineUp",
           UNCHANGED <<up, fix, nhz>>, MapsKept(tb', db'), AllKept(apiQ'), speHigh' => nhz,
           Good(apiQ, fix, tb, nhz, speHigh) => Good(apiQ', fix, tb', nhz, speHigh')
    PROVE  RateInv'
<1>1. OldErrors' /\ Told' /\ (Opened' => Opened)
  BY TakeRate, OptionsParts DEF RateInv
<1>2. OptionsKept'
  BY <1>1, OptionsParts DEF OptionsKept, MapsKept, AllKept, Told
<1>3. PlanServes'
  BY <1>1 DEF RateInv, PlanServes
<1>4. HighIsNeeded'
  BY DEF HighIsNeeded
<1> QED
  BY <1>1, <1>2, <1>3, <1>4 DEF RateInv

LEMMA SameQueueRate ==
    ASSUME TypedInv, RateInv,
           UNCHANGED <<msgQ, up, fix, nhz>>, MapsKept(tb', db'), AllKept(apiQ'), speHigh' => nhz,
           Good(apiQ, fix, tb, nhz, speHigh) => Good(apiQ', fix, tb', nhz, speHigh')
    PROVE  RateInv'
<1>1. OldErrors' /\ Told' /\ (Opened' => Opened)
  BY DEF RateInv, OptionsKept, OldErrors, Told, Opened
<1>2. OptionsKept'
  BY <1>1 DEF OptionsKept, MapsKept, AllKept, Told
<1>3. PlanServes'
  BY <1>1 DEF RateInv, PlanServes
<1>4. HighIsNeeded'
  BY DEF HighIsNeeded
<1> QED
  BY <1>1, <1>2, <1>3, <1>4 DEF RateInv

-----------------------------------------------------------------------------
(* Every step of the adapter keeps the engine fast enough. *)

LEMMA SaveSteps ==
    ASSUME NEW s, NEW o, SetMaps(save(Maps, s, o))
    PROVE  /\ IsDistance(o) => tb' = tb /\ db' = Put(db, s, o)
           /\ ~IsDistance(o) => tb' = Put(tb, s, o) /\ db' = db
  BY SaveFacts DEF SetMaps, Maps

LEMMA EraseSteps ==
    ASSUME NEW s, SetMaps(erase(Maps, s))
    PROVE  /\ s \in DOMAIN tb => tb' = Drop(tb, s) /\ db' = db
           /\ s \notin DOMAIN tb => tb' = tb /\ db' = Drop(db, s)
  BY EraseFacts DEF SetMaps, Maps

LEMMA MoveSteps ==
    ASSUME NEW s \in DOMAIN tb, NEW o, IsDistance(o), SetMaps(save(erase(Maps, s), s, o))
    PROVE  tb' = Drop(tb, s) /\ db' = Put(db, s, o)
<1>1. erase(Maps, s) = <<Drop(tb, s), db>>
  BY EraseFacts DEF Maps
<1> QED
  BY <1>1, SaveFacts DEF SetMaps

LEMMA SameSteps == ASSUME SetMaps(Maps) PROVE UNCHANGED <<tb, db>>
  BY DEF SetMaps, Maps

LEMMA TimeIsNotDistance == \A o : TimeOption(o) => ~IsDistance(o)
  BY DEF TimeOption, IsDistance

LEMMA PutKept ==
    ASSUME NEW f, NEW g, MapsKept(f, g), NEW s, NEW o
    PROVE  /\ TimeOption(o) => MapsKept(Put(f, s, o), g)
           /\ IsDistance(o) => MapsKept(f, Put(g, s, o))
           /\ IsDistance(o) => MapsKept(Drop(f, s), Put(g, s, o))
           /\ MapsKept(Drop(f, s), g) /\ MapsKept(f, Drop(g, s))
<1>1. ASSUME TimeOption(o) PROVE \A x \in DOMAIN Put(f, s, o) : TimeOption(Put(f, s, o)[x])
  BY <1>1 DEF Put, MapsKept
<1>2. ASSUME IsDistance(o) PROVE \A x \in DOMAIN Put(g, s, o) : IsDistance(Put(g, s, o)[x])
  BY <1>2 DEF Put, MapsKept
<1>3. \A x \in DOMAIN Drop(f, s) : TimeOption(Drop(f, s)[x])
  BY DEF Drop, MapsKept
<1>4. \A x \in DOMAIN Drop(g, s) : IsDistance(Drop(g, s)[x])
  BY DEF Drop, MapsKept
<1> QED
  BY <1>1, <1>2, <1>3, <1>4 DEF MapsKept

LEMMA AskedOption ==
    ASSUME Reliable, TypedInv, NEW kind \in {"start", "update"}, Arrived(kind)
    PROVE  LET o == Raise(Head(msgQ).o)
           IN  /\ o \in OptionType /\ MinInterval <= o.int
               /\ o.dist => IsDistance(o)
               /\ ~o.dist => TimeOption(o)
               /\ ~IsDistance(o) => TimeOption(o)
<1>1. PICK h, x : h = Head(msgQ) /\ x = Head(msgQ).o
  OBVIOUS
<1>2. h \in Message /\ h.m = kind /\ x = h.o
  BY <1>1, HeadTyped
<1>3. x \in Options \cup {None}
  BY <1>2, MessageFields
<1>4. x \in OptionType /\ (x.dist => DistanceSupported)
  BY <1>3, NoneTyped, OptionAssumption DEF Reliable
<1>5. PICK o : o = Raise(x)
  OBVIOUS
<1>6. o \in OptionType /\ o.int >= MinInterval /\ o.dist = x.dist
  BY <1>4, <1>5, RaiseTyped
<1>7. o.int \in Nat /\ MinInterval \in Nat
  BY <1>6, OptionAssumption DEF OptionType
<1>8. MinInterval <= o.int
  BY <1>6, <1>7
<1> QED
  BY <1>1, <1>4, <1>5, <1>6, <1>8 DEF IsDistance, TimeOption

\* What the invariant says of the state before the step.
RateFacts ==
    /\ apiQ \in Seq(Command) /\ fix \in OptionType
    /\ MapTyped(tb) /\ MapTyped(db)
    /\ speHigh \in BOOLEAN /\ nhz \in BOOLEAN /\ (speHigh => nhz)
    /\ MapsKept(tb, db) /\ AllKept(apiQ) /\ Told
    /\ \A s \in DOMAIN tb : MinInterval <= tb[s].int

LEMMA RateFactsHold == ASSUME TypedInv, RateInv PROVE RateFacts
<1>1. MapTyped(tb) /\ MapTyped(db)
  BY MapsPair
<1>2. MapsKept(tb, db) /\ AllKept(apiQ) /\ Told
  BY OptionsParts DEF RateInv
<1>3. \A s \in DOMAIN tb : MinInterval <= tb[s].int
  BY <1>2 DEF MapsKept, TimeOption
<1> QED
  BY <1>1, <1>2, <1>3 DEF RateFacts, TypedInv, TypeOK, RateInv, HighIsNeeded

\* A start or an update of a time based session with effect e.
LEMMA CoversRate ==
    ASSUME RateFacts, NEW cb \in {"start", "update"}, NEW s \in Sessions, NEW co \in OptionType,
           NEW o \in OptionType, TimeOption(o), NEW e, Covers(e, cb, s, co, o),
           cb = "update" => TimeOption(co), Apply(e, s),
           tb' = Put(tb, s, o), db' = db
    PROVE  /\ MapsKept(tb', db') /\ AllKept(apiQ') /\ (speHigh' => nhz)
           /\ Good(apiQ, fix, tb, nhz, speHigh) => Good(apiQ', fix, tb', nhz, speHigh')
<1>1. apiQ' = apiQ \o e.cmds /\ speHigh' = e.spe
  BY DEF Apply
<1>2. MapsKept(tb', db')
  BY PutKept DEF RateFacts
<1>3. cb \in Callback
  BY DEF Callback
<1>4. EffectTyped(e)
  BY <1>3, CoversTyped DEF RateFacts
<1>5. AllKept(apiQ')
  BY <1>1, <1>4, CoversKept, ConcatKept DEF RateFacts, EffectTyped
<1>6. speHigh' => nhz
  BY <1>1 DEF RateFacts, Covers, Fast, Silent, Runs
<1>7. MinInterval <= o.int
  BY DEF TimeOption
<1>8. ASSUME Good(apiQ, fix, tb, nhz, speHigh) PROVE Good(apiQ', fix, tb', nhz, speHigh')
  BY <1>1, <1>3, <1>7, <1>8, CoversGood DEF RateFacts
<1> QED
  BY <1>2, <1>5, <1>6, <1>8

\* The time based session s goes, with effect e.
LEMMA FreesRate ==
    ASSUME RateFacts, NEW s \in DOMAIN tb, NEW e, Frees(e, s),
           apiQ' = apiQ \o e.cmds, speHigh' = e.spe, tb' = Drop(tb, s), db' = db
    PROVE  /\ MapsKept(tb', db') /\ AllKept(apiQ') /\ (speHigh' => nhz)
           /\ Good(apiQ, fix, tb, nhz, speHigh) => Good(apiQ', fix, tb', nhz, speHigh')
           /\ EffectTyped(e) /\ apiQ' \in Seq(Command)
<1>1. s \in Sessions
  BY DEF RateFacts, MapTyped
<1>2. MapsKept(tb', db')
  BY PutKept DEF RateFacts
<1>4. EffectTyped(e)
  BY <1>1, FreesTyped DEF RateFacts
<1>5. AllKept(apiQ')
  BY <1>4, FreesKept, ConcatKept DEF RateFacts, EffectTyped
<1>6. speHigh' => nhz
  BY DEF RateFacts, Frees, Silent, Runs, Ends
<1>8. ASSUME Good(apiQ, fix, tb, nhz, speHigh) PROVE Good(apiQ', fix, tb', nhz, speHigh')
  BY <1>8, FreesGood DEF RateFacts
<1>9. apiQ' \in Seq(Command)
  BY <1>4, ConcatFacts DEF RateFacts, EffectTyped
<1> QED
  BY <1>2, <1>4, <1>5, <1>6, <1>8, <1>9

\* A command c that leaves the fix session alone goes out, and time based
\* sessions only go.
LEMMA OtherSent ==
    ASSUME RateFacts, NEW c \in Command, CommandKept(c), ~TimeBased(c), Send(c),
           MapsKept(tb', db'), tb' = tb \/ \E s : tb' = Drop(tb, s)
    PROVE  /\ AllKept(apiQ') /\ (speHigh' => nhz)
           /\ Good(apiQ, fix, tb, nhz, speHigh) => Good(apiQ', fix, tb', nhz, speHigh')
<1>1. apiQ' = apiQ \o <<c>> /\ speHigh' = speHigh /\ <<c>> \in Seq(Command)
  BY DEF Send, RateFacts
<1>2. AllKept(apiQ')
  BY <1>1, OneKept, ConcatKept DEF RateFacts
<1>3. speHigh' => nhz
  BY <1>1 DEF RateFacts
<1>4. ASSUME Good(apiQ, fix, tb, nhz, speHigh) PROVE Good(apiQ', fix, tb', nhz, speHigh')
  <2>1. PICK r : r = <<c>>
    OBVIOUS
  <2>2. r \in Seq(Command) /\ \A i \in 1..Len(r) : ~TimeBased(r[i])
    BY <2>1
  <2>3. Good(apiQ \o r, fix, tb, nhz, speHigh)
    BY <1>4, <2>2, GoodWithOthers DEF RateFacts
  <2>4. MapTyped(tb')
    BY DropTyped DEF RateFacts
  <2>5. \A t \in DOMAIN tb' : MinInterval <= tb'[t].int
    BY DEF MapsKept, TimeOption
  <2>6. \A t \in DOMAIN tb' : t \in DOMAIN tb /\ tb'[t] = tb[t]
    BY DEF Drop
  <2>7. \A t \in DOMAIN tb' : \E u \in DOMAIN tb : tb[u].int <= tb'[t].int
    BY <2>6, IntsTyped DEF RateFacts
  <2>8. apiQ \o r \in Seq(Command)
    BY <2>2, ConcatFacts DEF RateFacts
  <2> QED
    BY <1>1, <2>1, <2>3, <2>4, <2>5, <2>7, <2>8, GoodForLess DEF RateFacts
<1> QED
  BY <1>2, <1>3, <1>4

\* Nothing goes out, and time based sessions only go.
LEMMA NothingSent ==
    ASSUME RateFacts, Idle, MapsKept(tb', db'), tb' = tb \/ \E s : tb' = Drop(tb, s)
    PROVE  /\ AllKept(apiQ') /\ (speHigh' => nhz)
           /\ Good(apiQ, fix, tb, nhz, speHigh) => Good(apiQ', fix, tb', nhz, speHigh')
<1>1. apiQ' = apiQ /\ speHigh' = speHigh
  BY DEF Idle
<1>2. ASSUME Good(apiQ, fix, tb, nhz, speHigh) PROVE Good(apiQ', fix, tb', nhz, speHigh')
  <2>4. MapTyped(tb')
    BY DropTyped DEF RateFacts
  <2>5. \A t \in DOMAIN tb' : MinInterval <= tb'[t].int
    BY DEF MapsKept, TimeOption
  <2>6. \A t \in DOMAIN tb' : t \in DOMAIN tb /\ tb'[t] = tb[t]
    BY DEF Drop
  <2>7. \A t \in DOMAIN tb' : \E u \in DOMAIN tb : tb[u].int <= tb'[t].int
    BY <2>6, IntsTyped DEF RateFacts
  <2> QED
    BY <1>1, <1>2, <2>4, <2>5, <2>7, GoodForLess DEF RateFacts
<1> QED
  BY <1>1, <1>2 DEF RateFacts
\* What a step does to the options, the commands and the rate of the engine.
RateStep ==
    /\ MapsKept(tb', db') /\ AllKept(apiQ') /\ (speHigh' => nhz)
    /\ Good(apiQ, fix, tb, nhz, speHigh) => Good(apiQ', fix, tb', nhz, speHigh')

LEMMA ArrivedRate ==
    ASSUME TypedInv, RateInv, NEW kind, kind # "engineUp", Arrived(kind), Take,
           UNCHANGED <<nhz, engineVars>>, RateStep
    PROVE  RateInv'
<1>1. msgQ # <<>> /\ Head(msgQ).m # "engineUp"
  BY HeadTyped
<1>2. UNCHANGED <<up, fix, nhz>>
  BY DEF engineVars
<1> QED
  BY <1>1, <1>2, HandlerRate DEF RateStep

LEMMA SameMapsKept ==
    ASSUME RateFacts, UNCHANGED <<tb, db>>
    PROVE  MapsKept(tb', db')
  BY DEF RateFacts, MapsKept

LEMMA IdleRate ==
    ASSUME RateFacts, Idle, UNCHANGED <<tb, db>>
    PROVE  RateStep
  BY SameMapsKept, NothingSent DEF RateStep

LEMMA StartRate ==
    ASSUME Reliable, TypedInv, RateInv, ProcStart
    PROVE  RateInv'
<1> DEFINE s == Head(msgQ).s
           o == Raise(Head(msgQ).o)
<1>1. Arrived("start") /\ Take /\ UNCHANGED <<nhz, engineVars>>
  BY DEF ProcStart
<1>2. s \in Sessions /\ o \in OptionType
  BY <1>1, HeadTyped, RaiseTyped
<1>3. RateFacts /\ (~IsDistance(o) => TimeOption(o))
  BY <1>1, RateFactsHold, AskedOption
<1>4. CASE Idle /\ UNCHANGED <<tb, db>>
  BY <1>1, <1>3, <1>4, IdleRate, ArrivedRate
<1>5. CASE /\ IsDistance(o) /\ SetMaps(save(Maps, s, o))
           /\ Send(Cmd("startDB", o, "dstart", s, None))
  <2>1. PICK c : c = Cmd("startDB", o, "dstart", s, None)
    OBVIOUS
  <2>2. c \in Command /\ CommandKept(c)
    BY <1>2, <2>1, CmdTyped, CmdKept, NoneTyped DEF Callback
  <2>3. ~TimeBased(c)
    BY <2>1 DEF Cmd, TimeBased
  <2>4. tb' = tb /\ db' = Put(db, s, o)
    BY <1>5, SaveSteps
  <2>5. MapsKept(tb', db')
    BY <1>3, <1>5, <2>4, PutKept DEF RateFacts
  <2>6. Send(c)
    BY <1>5, <2>1
  <2>7. RateStep
    BY <1>3, <2>2, <2>3, <2>4, <2>5, <2>6, OtherSent DEF RateStep
  <2> QED
    BY <1>1, <2>7, ArrivedRate
<1>6. CASE /\ ~IsDistance(o) /\ SetMaps(save(Maps, s, o))
           /\ \E e \in startMultiplex(s, o) : Apply(e, s)
  <2>1. PICK e \in startMultiplex(s, o) : Apply(e, s)
    BY <1>6
  <2>2. Covers(e, "start", s, None, o)
    BY <1>2, <1>3, <2>1, startMultiplexFacts DEF RateFacts
  <2>3. tb' = Put(tb, s, o) /\ db' = db
    BY <1>6, SaveSteps
  <2>4. RateStep
    BY <1>2, <1>3, <1>6, <2>1, <2>2, <2>3, NoneTyped, CoversRate DEF RateStep
  <2> QED
    BY <1>1, <2>4, ArrivedRate
<1> QED
  BY <1>4, <1>5, <1>6 DEF ProcStart, Defer

LEMMA StopRate ==
    ASSUME TypedInv, RateInv, ProcStop
    PROVE  RateInv'
<1> DEFINE s == Head(msgQ).s
<1>1. Arrived("stop") /\ Take /\ UNCHANGED <<nhz, engineVars>>
  BY DEF ProcStop
<1>2. s \in Sessions
  BY <1>1, HeadTyped
<1>3. RateFacts
  BY RateFactsHold
<1>4. CASE Idle /\ UNCHANGED <<tb, db>>
  BY <1>1, <1>3, <1>4, IdleRate, ArrivedRate
<1>5. CASE UNCHANGED <<tb, db>> /\ Send(Cmd("stopDB", None, "dstop", s, None))
  <2>1. PICK c : c = Cmd("stopDB", None, "dstop", s, None)
    OBVIOUS
  <2>2. c \in Command /\ CommandKept(c)
    BY <1>2, <2>1, CmdTyped, CmdKept, NoneTyped DEF Callback
  <2>3. ~TimeBased(c)
    BY <2>1 DEF Cmd, TimeBased
  <2>6. Send(c)
    BY <1>5, <2>1
  <2>7. RateStep
    BY <1>3, <1>5, <2>2, <2>3, <2>6, SameMapsKept, OtherSent DEF RateStep
  <2> QED
    BY <1>1, <2>7, ArrivedRate
<1>6. CASE s \in DOMAIN tb /\ SetMaps(erase(Maps, s)) /\ \E e \in stopMultiplex(s) : Apply(e, s)
  <2>1. PICK e \in stopMultiplex(s) : Apply(e, s)
    BY <1>6
  <2>2. Frees(e, s)
    BY <1>3, <1>6, <2>1, stopMultiplexFacts DEF RateFacts
  <2>3. tb' = Drop(tb, s) /\ db' = db /\ apiQ' = apiQ \o e.cmds /\ speHigh' = e.spe
    BY <1>6, <2>1, EraseSteps DEF Apply
  <2>4. RateStep
    BY <1>3, <1>6, <2>2, <2>3, FreesRate DEF RateStep
  <2> QED
    BY <1>1, <2>4, ArrivedRate
<1> QED
  BY <1>4, <1>5, <1>6 DEF ProcStop

LEMMA RemoveClientRate ==
    ASSUME TypedInv, RateInv, ProcRemoveClient
    PROVE  RateInv'
<1>1. Arrived("remove") /\ Take /\ UNCHANGED <<nhz, engineVars>> /\ Idle /\ UNCHANGED <<tb, db>>
  BY DEF ProcRemoveClient, Idle
<1> QED
  BY <1>1, RateFactsHold, IdleRate, ArrivedRate

LEMMA RemoveTimeBasedRate ==
    ASSUME TypedInv, RateInv, RemoveTimeBased
    PROVE  RateInv'
<1>1. PICK s \in Owned(tb) : /\ SetMaps(erase(Maps, s))
                             /\ \E e \in stopMultiplex(s) : Apply(Quietly(e), s)
  BY DEF RemoveTimeBased, Quietly
<1>2. UNCHANGED <<msgQ, up, fix, nhz>>
  BY DEF RemoveTimeBased, engineVars
<1>3. s \in DOMAIN tb
  BY DEF Owned
<1>4. RateFacts
  BY RateFactsHold
<1>5. PICK e \in stopMultiplex(s) : Apply(Quietly(e), s)
  BY <1>1
<1>6. Frees(e, s)
  BY <1>3, <1>4, <1>5, stopMultiplexFacts DEF RateFacts
<1>7. apiQ' = apiQ \o e.cmds /\ speHigh' = e.spe
  BY <1>5, <1>6, FreesAreEffects, QuietlyFacts DEF Apply
<1>8. tb' = Drop(tb, s) /\ db' = db
  BY <1>1, <1>3, EraseSteps
<1>9. RateStep
  BY <1>3, <1>4, <1>6, <1>7, <1>8, FreesRate DEF RateStep
<1> QED
  BY <1>2, <1>9, SameQueueRate DEF RateStep

LEMMA RemoveRestRate ==
    ASSUME TypedInv, RateInv, RemoveRest
    PROVE  RateInv'
<1>1. PICK q \in DistanceCmds(Owned(db), "stopDB", "clean") : apiQ' = apiQ \o q
  BY DEF RemoveRest
<1>2. UNCHANGED <<msgQ, up, fix, nhz, speHigh, tb, db>>
  BY DEF RemoveRest, engineVars
<1>3. /\ q \in Seq(Command)
      /\ \A i \in 1..Len(q) : q[i] = Cmd("stopDB", db[q[i].s], "clean", q[i].s, None)
  BY MapsPair, OwnedDistance, DistanceCmdsFacts DEF Callback
<1>4. AllKept(q) /\ \A i \in 1..Len(q) : ~TimeBased(q[i])
  BY <1>3, DistanceCmdsKept
<1>5. RateFacts
  BY RateFactsHold
<1>6. AllKept(apiQ') /\ MapsKept(tb', db') /\ (speHigh' => nhz)
  BY <1>1, <1>2, <1>3, <1>4, <1>5, ConcatKept, SameMapsKept DEF RateFacts
<1>7. ASSUME Good(apiQ, fix, tb, nhz, speHigh) PROVE Good(apiQ \o q, fix, tb, nhz, speHigh)
  BY <1>3, <1>4, <1>5, <1>7, GoodWithOthers DEF RateFacts
<1>8. Good(apiQ, fix, tb, nhz, speHigh) => Good(apiQ', fix, tb', nhz, speHigh')
  BY <1>1, <1>2, <1>7
<1> QED
  BY <1>2, <1>6, <1>8, SameQueueRate

\* A command follows those of an effect.
LEMMA AppendAfter ==
    ASSUME NEW q \in Seq(Command), NEW r \in Seq(Command), NEW c \in Command
    PROVE  q \o Append(r, c) = (q \o r) \o <<c>>
  OBVIOUS

LEMMA UpdateRate ==
    ASSUME Reliable, TypedInv, RateInv, ProcUpdate
    PROVE  RateInv'
<1> DEFINE s == Head(msgQ).s
           o == Raise(Head(msgQ).o)
<1>1. Arrived("update") /\ Take /\ UNCHANGED <<nhz, engineVars>>
  BY DEF ProcUpdate
<1>2. s \in Sessions /\ o \in OptionType
  BY <1>1, HeadTyped, RaiseTyped
<1>3. RateFacts /\ (o.dist => IsDistance(o)) /\ (~o.dist => TimeOption(o))
  BY <1>1, RateFactsHold, AskedOption
<1>4. CASE Idle /\ UNCHANGED <<tb, db>>
  BY <1>1, <1>3, <1>4, IdleRate, ArrivedRate
<1>5. ASSUME s \in DOMAIN tb, o.dist, SetMaps(save(erase(Maps, s), s, o)),
             NEW e \in stopMultiplex(s),
             Apply([e EXCEPT !.cmds = Append(@, Cmd("startDB", o, "none", s, None))], s)
      PROVE  RateStep
  <2>1. PICK c : c = Cmd("startDB", o, "none", s, None)
    OBVIOUS
  <2>2. c \in Command /\ CommandKept(c)
    BY <1>2, <2>1, CmdTyped, CmdKept, NoneTyped DEF Callback
  <2>3. ~TimeBased(c)
    BY <2>1 DEF Cmd, TimeBased
  <2>4. Frees(e, s)
    BY <1>3, <1>5, stopMultiplexFacts DEF RateFacts
  <2>5. s \in Sessions /\ EffectTyped(e)
    BY <1>2, <1>3, <2>4, FreesTyped DEF RateFacts
  <2>6. PICK x : x = [e EXCEPT !.cmds = Append(@, c)]
    OBVIOUS
  <2>7. x.cmds = Append(e.cmds, c) /\ x.spe = e.spe
    BY <2>4, <2>6, FreesAreEffects DEF IsEffect
  <2>8. apiQ' = apiQ \o Append(e.cmds, c) /\ speHigh' = e.spe
    BY <1>5, <2>1, <2>6, <2>7 DEF Apply
  <2>9. PICK w, r : w = apiQ \o e.cmds /\ r = <<c>>
    OBVIOUS
  <2>10. w \in Seq(Command) /\ r \in Seq(Command) /\ apiQ' = w \o r
    BY <1>3, <2>2, <2>5, <2>8, <2>9, AppendAfter, ConcatFacts DEF RateFacts, EffectTyped
  <2>11. tb' = Drop(tb, s) /\ db' = Put(db, s, o)
    BY <1>3, <1>5, MoveSteps
  <2>12. MapsKept(tb', db')
    BY <1>3, <1>5, <2>11, PutKept DEF RateFacts
  <2>13. AllKept(w)
    BY <1>3, <2>4, <2>5, <2>9, FreesKept, ConcatKept DEF RateFacts, EffectTyped
  <2>14. AllKept(apiQ')
    BY <2>2, <2>9, <2>10, <2>13, OneKept, ConcatKept
  <2>15. speHigh' => nhz
    BY <1>3, <2>4, <2>8 DEF RateFacts, Frees, Silent, Runs, Ends
  <2>16. ASSUME Good(apiQ, fix, tb, nhz, speHigh)
         PROVE  Good(apiQ', fix, tb', nhz, speHigh')
    <3>1. Good(w, fix, Drop(tb, s), nhz, e.spe)
      BY <1>3, <1>5, <2>4, <2>9, <2>16, FreesGood DEF RateFacts
    <3>2. \A i \in 1..Len(r) : ~TimeBased(r[i])
      BY <2>3, <2>9
    <3>3. PICK g, y : g = Drop(tb, s) /\ y = e.spe
      OBVIOUS
    <3>4. Good(w \o r, fix, g, nhz, y)
      BY <2>10, <3>1, <3>2, <3>3, GoodWithOthers
    <3> QED
      BY <2>8, <2>10, <2>11, <3>3, <3>4
  <2> QED
    BY <2>12, <2>14, <2>15, <2>16 DEF RateStep
<1>6. ASSUME ~o.dist, SetMaps(erase(Maps, s)), Send(Cmd("stopDB", None, "toTimeBased", s, o))
      PROVE  RateStep
  <2>1. PICK c : c = Cmd("stopDB", None, "toTimeBased", s, o)
    OBVIOUS
  <2>2. c \in Command /\ CommandKept(c)
    BY <1>2, <1>3, <1>6, <2>1, CmdTyped, CmdKept, NoneTyped DEF Callback
  <2>3. ~TimeBased(c)
    BY <2>1 DEF Cmd, TimeBased
  <2>4. Send(c)
    BY <1>6, <2>1
  <2>5. (tb' = Drop(tb, s) /\ db' = db) \/ (tb' = tb /\ db' = Drop(db, s))
    BY <1>6, EraseSteps
  <2>6. MapsKept(tb', db')
    BY <1>3, <2>5, PutKept DEF RateFacts
  <2> QED
    BY <1>3, <2>2, <2>3, <2>4, <2>5, <2>6, OtherSent DEF RateStep
<1>7. ASSUME s \in DOMAIN tb, ~o.dist, SetMaps(save(Maps, s, o)),
             NEW e \in updateMultiplex(s, o), Apply(e, s)
      PROVE  RateStep
  <2>1. tb[s] \in OptionType /\ TimeOption(tb[s]) /\ TimeOption(o) /\ ~IsDistance(o)
    BY <1>3, <1>7, TimeIsNotDistance DEF RateFacts, MapTyped, MapsKept
  <2>2. Covers(e, "update", s, tb[s], o)
    BY <1>2, <1>3, <1>7, updateMultiplexFacts DEF RateFacts
  <2>3. tb' = Put(tb, s, o) /\ db' = db
    BY <1>7, <2>1, SaveSteps
  <2>4. PICK co : co = tb[s]
    OBVIOUS
  <2>5. co \in OptionType /\ TimeOption(co) /\ Covers(e, "update", s, co, o)
    BY <2>1, <2>2, <2>4
  <2> QED
    BY <1>2, <1>3, <1>7, <2>1, <2>3, <2>5, CoversRate DEF RateStep
<1>8. ASSUME o.dist, UNCHANGED <<tb, db>>, Send(Cmd("stopDB", None, "restart", s, o))
      PROVE  RateStep
  <2>1. PICK c : c = Cmd("stopDB", None, "restart", s, o)
    OBVIOUS
  <2>2. c \in Command /\ CommandKept(c)
    BY <1>2, <1>3, <1>8, <2>1, CmdTyped, CmdKept, NoneTyped DEF Callback
  <2>3. ~TimeBased(c)
    BY <2>1 DEF Cmd, TimeBased
  <2>4. Send(c)
    BY <1>8, <2>1
  <2> QED
    BY <1>3, <1>8, <2>2, <2>3, <2>4, SameMapsKept, OtherSent DEF RateStep
<1>9. CASE Update(s, o)
  BY <1>1, <1>5, <1>6, <1>7, <1>8, <1>9, ArrivedRate DEF Update
<1> QED
  BY <1>4, <1>9 DEF ProcUpdate, Defer

\* An answer r has arrived.
LEMMA ResponseRate ==
    ASSUME TypedInv, RateInv, NEW cb, Response(cb)
    PROVE  /\ Head(msgQ).cb = cb /\ Captured(Head(msgQ))
           /\ Head(msgQ).s \in Sessions /\ Head(msgQ).co \in OptionType
           /\ Opened => Head(msgQ).ok
<1>1. Arrived("resp") /\ Head(msgQ).cb = cb
  BY DEF Response
<1>2. PICK q : q = msgQ
  OBVIOUS
<1>3. /\ q \in Seq(Message) /\ q # <<>> /\ Head(q) = q[1] /\ 1 \in 1..Len(q)
      /\ q[1].m = "resp" /\ q[1].ok \in BOOLEAN
      /\ q[1].s \in Sessions /\ q[1].co \in OptionType
  BY <1>1, <1>2, HeadTyped, HeadTail
<1>4. Captured(q[1])
  BY <1>2, <1>3, OptionsParts DEF RateInv, Told
<1>5. ASSUME Opened PROVE q[1].ok
  BY <1>2, <1>3, <1>5 DEF Opened, RateInv, OldErrors
<1> QED
  BY <1>1, <1>2, <1>3, <1>4, <1>5

\* An error is reported: the engine has gone since, or comes up once more.
LEMMA RefusedRate ==
    ASSUME TypedInv, RateInv, NEW cb, Response(cb), ~Head(msgQ).ok,
           UNCHANGED <<nhz, engineVars>>, Idle, MapsKept(tb', db')
    PROVE  RateInv'
<1>1. Arrived("resp") /\ Take /\ ~Opened
  BY ResponseRate DEF Response
<1>2. msgQ # <<>> /\ Head(msgQ).m # "engineUp" /\ up' = up
  BY <1>1, HeadTyped DEF engineVars
<1>3. OldErrors' /\ Told' /\ (Opened' => Opened)
  BY <1>1, <1>2, TakeRate, OptionsParts DEF RateInv
<1>4. OptionsKept'
  BY <1>3, OptionsParts DEF RateInv, OptionsKept, MapsKept, AllKept, Told, Idle
<1>5. PlanServes'
  BY <1>1, <1>3 DEF PlanServes
<1>6. HighIsNeeded'
  BY DEF RateInv, HighIsNeeded, Idle
<1> QED
  BY <1>3, <1>4, <1>5, <1>6 DEF RateInv

LEMMA RespStartRate ==
    ASSUME TypedInv, RateInv, RespStart
    PROVE  RateInv'
<1> DEFINE r == Head(msgQ)
<1>1. PICK cb : Response(cb)
  BY DEF RespStart
<1>2. /\ SetMaps(IF r.ok THEN Maps ELSE erase(Maps, r.s))
      /\ Idle /\ UNCHANGED <<nhz, engineVars>>
  BY DEF RespStart
<1>3. CASE r.ok
  BY <1>1, <1>2, <1>3, SameSteps, RateFactsHold, IdleRate, ArrivedRate DEF Response
<1>4. CASE ~r.ok
  BY <1>1, <1>2, <1>4, EraseSteps, RateFactsHold, PutKept, RefusedRate DEF RateFacts
<1> QED
  BY <1>3, <1>4

LEMMA RespUpdateRate ==
    ASSUME TypedInv, RateInv, RespUpdate
    PROVE  RateInv'
<1> DEFINE r == Head(msgQ)
<1>1. Response("update") /\ SetMaps(IF r.ok THEN Maps ELSE save(Maps, r.s, r.co))
      /\ Idle /\ UNCHANGED <<nhz, engineVars>>
  BY DEF RespUpdate, Frame
<1>3. CASE r.ok
  BY <1>1, <1>3, SameSteps, RateFactsHold, IdleRate, ArrivedRate DEF Response
<1>4. CASE ~r.ok
  BY <1>1, <1>4, ResponseRate, TimeIsNotDistance, SaveSteps, RateFactsHold, PutKept,
     RefusedRate
  DEF Captured, RateFacts
<1> QED
  BY <1>3, <1>4

LEMMA RespStopRate ==
    ASSUME TypedInv, RateInv, RespStop
    PROVE  RateInv'
<1>1. Response("stop") /\ UNCHANGED <<tb, db>> /\ Idle /\ UNCHANGED <<nhz, engineVars>>
  BY DEF RespStop, Frame
<1> QED
  BY <1>1, RateFactsHold, IdleRate, ArrivedRate DEF Response

LEMMA RespDistanceStopRate ==
    ASSUME TypedInv, RateInv, RespDistanceStop
    PROVE  RateInv'
<1> DEFINE r == Head(msgQ)
<1>1. PICK cb : Response(cb)
  BY DEF RespDistanceStop
<1>2. /\ SetMaps(IF r.ok THEN erase(Maps, r.s) ELSE Maps)
      /\ Idle /\ UNCHANGED <<nhz, engineVars>>
  BY DEF RespDistanceStop, Frame
<1>3. \/ UNCHANGED <<tb, db>>
      \/ (tb' = Drop(tb, r.s) /\ db' = db) \/ (tb' = tb /\ db' = Drop(db, r.s))
  BY <1>2, SameSteps, EraseSteps
<1>4. RateFacts
  BY RateFactsHold
<1>5. MapsKept(tb', db')
  BY <1>3, <1>4, PutKept, SameMapsKept DEF RateFacts
<1>6. RateStep
  BY <1>2, <1>3, <1>4, <1>5, NothingSent DEF RateStep
<1> QED
  BY <1>1, <1>2, <1>6, ArrivedRate DEF Response

LEMMA RespToTimeBasedRate ==
    ASSUME TypedInv, RateInv, RespToTimeBased
    PROVE  RateInv'
<1> DEFINE r == Head(msgQ)
<1>1. /\ Response("toTimeBased")
      /\ SetMaps(save(Maps, r.s, r.co))
      /\ \E e \in startMultiplex(r.s, r.co) : Apply(e, r.s)
      /\ UNCHANGED <<nhz, engineVars>>
  BY DEF RespToTimeBased, Frame
<1>2. PICK s, o : s = r.s /\ o = r.co
  OBVIOUS
<1>3. s \in Sessions /\ o \in OptionType /\ TimeOption(o) /\ ~IsDistance(o)
  BY <1>1, <1>2, ResponseRate, TimeIsNotDistance DEF Captured
<1>4. RateFacts
  BY RateFactsHold
<1>5. PICK e \in startMultiplex(s, o) : Apply(e, s)
  BY <1>1, <1>2
<1>6. Covers(e, "start", s, None, o)
  BY <1>3, <1>4, <1>5, startMultiplexFacts DEF RateFacts
<1>7. tb' = Put(tb, s, o) /\ db' = db
  BY <1>1, <1>2, <1>3, SaveSteps
<1>8. RateStep
  BY <1>3, <1>4, <1>5, <1>6, <1>7, NoneTyped, CoversRate DEF RateStep
<1> QED
  BY <1>1, <1>8, ArrivedRate DEF Response

LEMMA RespRestartRate ==
    ASSUME TypedInv, RateInv, RespRestart
    PROVE  RateInv'
<1> DEFINE r == Head(msgQ)
<1>1. /\ Response("restart")
      /\ IF r.ok THEN Send(Cmd("startDB", r.co, "restarted", r.s, r.co)) ELSE Idle
      /\ UNCHANGED <<tb, db>> /\ UNCHANGED <<nhz, engineVars>>
  BY DEF RespRestart, Frame
<1>2. RateFacts
  BY RateFactsHold
<1>3. PICK c : c = Cmd("startDB", r.co, "restarted", r.s, r.co)
  OBVIOUS
<1>4. r.s \in Sessions /\ r.co \in OptionType /\ IsDistance(r.co)
  BY <1>1, ResponseRate DEF Captured
<1>5. c \in Command /\ CommandKept(c)
  BY <1>3, <1>4, CmdTyped, CmdKept DEF Callback
<1>6. ~TimeBased(c)
  BY <1>3 DEF Cmd, TimeBased
<1>7. CASE Send(c)
  BY <1>1, <1>2, <1>5, <1>6, <1>7, SameMapsKept, OtherSent, ArrivedRate
  DEF RateStep, Response
<1>8. CASE Idle
  BY <1>1, <1>2, <1>8, IdleRate, ArrivedRate DEF Response
<1> QED
  BY <1>1, <1>3, <1>7, <1>8

LEMMA RespRestartedRate ==
    ASSUME TypedInv, RateInv, RespRestarted
    PROVE  RateInv'
<1> DEFINE r == Head(msgQ)
<1>1. /\ Response("restarted")
      /\ SetMaps(IF r.ok THEN save(Maps, r.s, r.co) ELSE Maps)
      /\ Idle /\ UNCHANGED <<nhz, engineVars>>
  BY DEF RespRestarted, Frame
<1>2. IsDistance(r.co)
  BY <1>1, ResponseRate DEF Captured
<1>3. UNCHANGED <<tb, db>> \/ (tb' = tb /\ db' = Put(db, r.s, r.co))
  BY <1>1, <1>2, SameSteps, SaveSteps
<1>4. RateFacts
  BY RateFactsHold
<1>5. MapsKept(tb', db')
  BY <1>2, <1>3, <1>4, PutKept, SameMapsKept DEF RateFacts
<1>6. RateStep
  BY <1>1, <1>3, <1>4, <1>5, NothingSent DEF RateStep
<1> QED
  BY <1>1, <1>6, ArrivedRate DEF Response

\* The sessions are restarted, hz being the new NHz requirement.
LEMMA RestartRate ==
    ASSUME TypedInv, RateInv, NEW hz \in BOOLEAN, RestartSPE(hz)
    PROVE  AllKept(apiQ') /\ (speHigh' => hz) /\ Good(apiQ', fix, tb, hz, speHigh')
<1>1. PICK e \in RestartTimeBased(hz), q \in DistanceCmds(DOMAIN db, "startDB", "none") :
         apiQ' = apiQ \o e.cmds \o q /\ speHigh' = e.spe
  BY DEF RestartSPE
<1>2. RateFacts
  BY RateFactsHold
<1>3. Restarts(e, hz)
  BY <1>2, RestartFacts DEF RateFacts
<1>4. EffectTyped(e) /\ AllKept(e.cmds) /\ (e.spe => hz)
  BY <1>2, <1>3, RestartsTyped, RestartsKept DEF Restarts, RateFacts
<1>5. /\ q \in Seq(Command)
      /\ \A i \in 1..Len(q) : q[i] = Cmd("startDB", db[q[i].s], "none", q[i].s, None)
  BY MapsPair, OwnedDistance, DistanceCmdsFacts DEF Callback
<1>6. AllKept(q) /\ \A i \in 1..Len(q) : ~TimeBased(q[i])
  BY <1>5, DistanceCmdsKept
<1>7. PICK w, y : w = apiQ \o e.cmds /\ y = e.spe
  OBVIOUS
<1>8. w \in Seq(Command) /\ AllKept(w)
  BY <1>2, <1>4, <1>7, ConcatFacts, ConcatKept DEF RateFacts, EffectTyped
<1>9. Good(w, fix, tb, hz, y)
  BY <1>2, <1>3, <1>7, RestartsGood DEF RateFacts
<1>10. Good(w \o q, fix, tb, hz, y)
  BY <1>5, <1>6, <1>8, <1>9, GoodWithOthers
<1>11. AllKept(w \o q)
  BY <1>5, <1>6, <1>8, ConcatKept
<1> QED
  BY <1>1, <1>4, <1>7, <1>10, <1>11

LEMMA NHzRate ==
    ASSUME TypedInv, RateInv, ProcNHz
    PROVE  RateInv'
<1>1. Arrived("nhz") /\ Take /\ RestartSPE(~nhz)
      /\ UNCHANGED <<tb, db>> /\ UNCHANGED engineVars
  BY DEF ProcNHz
<1>2. nhz' = ~nhz
  BY DEF ProcNHz
<1>3. (~nhz) \in BOOLEAN
  OBVIOUS
<1>4. PICK hz \in BOOLEAN : hz = ~nhz
  BY <1>3
<1>5. nhz' = hz /\ RestartSPE(hz)
  BY <1>1, <1>2, <1>4
<1>6. AllKept(apiQ') /\ (speHigh' => hz) /\ Good(apiQ', fix, tb, hz, speHigh')
  BY <1>5, RestartRate
<1>7. msgQ # <<>> /\ Head(msgQ).m # "engineUp" /\ up' = up /\ fix' = fix
  BY <1>1, HeadTyped DEF engineVars
<1>8. OldErrors' /\ Told'
  BY <1>1, <1>7, TakeRate, OptionsParts DEF RateInv
<1>9. OptionsKept'
  BY <1>1, <1>6, <1>8, OptionsParts DEF RateInv, OptionsKept, MapsKept, AllKept, Told
<1>10. Good(apiQ', fix', tb', nhz', speHigh')
  BY <1>1, <1>5, <1>6, <1>7
<1>11. PlanServes' /\ HighIsNeeded'
  BY <1>5, <1>6, <1>10 DEF PlanServes, HighIsNeeded
<1> QED
  BY <1>8, <1>9, <1>11 DEF RateInv

LEMMA EngineUpRate ==
    ASSUME TypedInv, RateInv, ProcEngineUp
    PROVE  RateInv'
<1>1. /\ Arrived("engineUp") /\ RestartSPE(nhz)
      /\ msgQ' = Tail(msgQ) \o pending
      /\ UNCHANGED <<tb, db, nhz>> /\ UNCHANGED engineVars
  BY DEF ProcEngineUp
<1>2. AllKept(apiQ') /\ (speHigh' => nhz) /\ Good(apiQ', fix, tb, nhz, speHigh')
  BY <1>1, RestartRate, RateFactsHold DEF RateFacts
<1>3. PICK q, t, p : q = msgQ /\ t = Tail(msgQ) /\ p = pending
  OBVIOUS
<1>4. q \in Seq(Message) /\ q # <<>> /\ p \in Seq(Message) /\ t \in Seq(Message)
  BY <1>1, <1>3, HeadTyped, HeadTail DEF TypedInv, TypeOK
<1>5. /\ Len(t) \in Nat /\ Len(q) = Len(t) + 1
      /\ \A i \in 1..Len(t) : i + 1 \in 1..Len(q) /\ t[i] = q[i + 1]
      /\ \A i \in 1..Len(q) : i = 1 \/ (i - 1 \in 1..Len(t) /\ t[i - 1] = q[i])
  BY <1>3, <1>4, HeadTail
<1>6. PICK w : w = t \o p
  OBVIOUS
<1>7. /\ msgQ' = w /\ Len(w) \in Nat /\ Len(t) <= Len(w)
      /\ \A i \in 1..Len(t) : i \in 1..Len(w) /\ w[i] = t[i]
      /\ \A i \in 1..Len(w) : i \in 1..Len(t) \/ (i - Len(t) \in 1..Len(p) /\ w[i] = p[i - Len(t)])
  BY <1>1, <1>3, <1>4, <1>6
<1>8. \A i \in 1..Len(p) : p[i].m # "resp"
  BY <1>3 DEF TypedInv, DeferredOnes
<1>9. \A i \in 1..Len(w) : w[i].m = "resp" => i \in 1..Len(t) /\ w[i] = q[i + 1] /\ i + 1 \in 1..Len(q)
  BY <1>5, <1>7, <1>8
<1>10. Told'
  BY <1>3, <1>7, <1>9, OptionsParts DEF RateInv, Told
<1>11. OldErrors'
  <2>1. ASSUME up, NEW i \in 1..Len(w), w[i].m = "resp", ~w[i].ok
        PROVE  \E j \in i..Len(w) : w[j].m = "engineUp"
    <3>1. i \in 1..Len(t) /\ q[i + 1].m = "resp" /\ ~q[i + 1].ok /\ i + 1 \in 1..Len(q)
      BY <1>9, <2>1
    <3>2. PICK j \in (i + 1)..Len(q) : q[j].m = "engineUp"
      BY <1>3, <2>1, <3>1 DEF RateInv, OldErrors
    <3>3. j \in 1..Len(q) /\ j # 1 /\ j - 1 \in 1..Len(t) /\ t[j - 1] = q[j] /\ j - 1 >= i
      BY <1>5, <3>1, <3>2
    <3>4. w[j - 1].m = "engineUp" /\ j - 1 \in i..Len(w)
      BY <1>7, <3>1, <3>2, <3>3
    <3> QED
      BY <3>4
  <2>2. up' = up
    BY <1>1 DEF engineVars
  <2> QED
    BY <1>7, <2>1, <2>2 DEF OldErrors
<1>12. OptionsKept'
  BY <1>1, <1>2, <1>10, OptionsParts DEF RateInv, OptionsKept, MapsKept, AllKept, Told
<1>13. Good(apiQ', fix', tb', nhz', speHigh')
  BY <1>1, <1>2 DEF engineVars
<1>14. PlanServes' /\ HighIsNeeded'
  BY <1>1, <1>2, <1>13 DEF PlanServes, HighIsNeeded
<1> QED
  BY <1>11, <1>12, <1>14 DEF RateInv

\* A message m comes behind the others.
LEMMA PostRate ==
    ASSUME TypedInv, OldErrors, Told, NEW m \in Message, Post(m), up' = up,
           m.m = "resp" => Captured(m) /\ (m.ok \/ ~up)
    PROVE  OldErrors' /\ Told' /\ (Opened' => Opened)
<1>1. PICK q, t : q = msgQ /\ t = Append(msgQ, m)
  OBVIOUS
<1>2. q \in Seq(Message) /\ msgQ' = t
  BY <1>1 DEF Post, TypedInv, TypeOK
<1>3. /\ Len(q) \in Nat /\ Len(t) = Len(q) + 1 /\ t[Len(q) + 1] = m
      /\ \A i \in 1..Len(q) : i \in 1..Len(t) /\ t[i] = q[i]
      /\ \A i \in 1..Len(t) : i \in 1..Len(q) \/ i = Len(q) + 1
  BY <1>1, <1>2, AppendFacts
<1>4. Opened' => Opened
  BY <1>1, <1>2, <1>3 DEF Opened
<1>5. Told'
  BY <1>1, <1>2, <1>3 DEF Told
<1>6. ASSUME up, NEW i \in 1..Len(t), t[i].m = "resp", ~t[i].ok
      PROVE  \E j \in i..Len(t) : t[j].m = "engineUp"
  <2>1. i \in 1..Len(q) /\ q[i] = t[i]
    BY <1>3, <1>6
  <2>2. PICK j \in i..Len(q) : q[j].m = "engineUp"
    BY <1>1, <1>6, <2>1 DEF OldErrors
  <2>3. j \in 1..Len(q) /\ j \in i..Len(t) /\ t[j] = q[j]
    BY <1>3, <2>1, <2>2
  <2> QED
    BY <2>2, <2>3
<1>7. OldErrors'
  BY <1>2, <1>6 DEF OldErrors
<1> QED
  BY <1>4, <1>5, <1>7

\* A client sends a message, or the engine hub does.
LEMMA AskRate ==
    ASSUME TypedInv, RateInv, NEW m \in Message, m.m # "resp", Post(m),
           UNCHANGED adapterVars, UNCHANGED <<apiQ, up, fix>>
    PROVE  RateInv'
<1>1. OldErrors' /\ Told' /\ (Opened' => Opened)
  BY PostRate, OptionsParts DEF RateInv
<1>2. UNCHANGED <<tb, db, nhz, speHigh>>
  BY DEF adapterVars
<1>3. OptionsKept'
  BY <1>1, <1>2, OptionsParts DEF RateInv, OptionsKept, MapsKept, AllKept, Told
<1>4. PlanServes' /\ HighIsNeeded'
  BY <1>1, <1>2 DEF RateInv, PlanServes, HighIsNeeded
<1> QED
  BY <1>1, <1>3, <1>4 DEF RateInv

LEMMA ClientRate ==
    ASSUME TypedInv, RateInv,
           \/ \E s \in Sessions, o \in Options \cup {None} :
                 startTracking(s, o) \/ updateTrackingOptions(s, o)
           \/ \E s \in Sessions : stopTracking(s)
           \/ \E c \in Clients : removeClient(c)
           \/ NHzRequirement
    PROVE  RateInv'
<1>1. UNCHANGED adapterVars /\ UNCHANGED <<apiQ, up, fix>>
  BY DEF startTracking, updateTrackingOptions, stopTracking, removeClient, NHzRequirement, Sent,
         engineVars
<1>2. \E m \in Message : m.m # "resp" /\ Post(m)
  <2>1. ASSUME NEW s \in Sessions, NEW o \in Options \cup {None}, NEW k \in {"start", "update"}
        PROVE  [m |-> k, s |-> s, o |-> o] \in Message /\ [m |-> k, s |-> s, o |-> o].m # "resp"
    BY <2>1 DEF Message
  <2>2. ASSUME NEW s \in Sessions
        PROVE  [m |-> "stop", s |-> s] \in Message /\ [m |-> "stop", s |-> s].m # "resp"
    BY <2>2 DEF Message
  <2>3. ASSUME NEW c \in Clients
        PROVE  [m |-> "remove", c |-> c] \in Message /\ [m |-> "remove", c |-> c].m # "resp"
    BY <2>3 DEF Message
  <2>4. [m |-> "nhz"] \in Message /\ [m |-> "nhz"].m # "resp"
    BY DEF Message
  <2>5. CASE \E s \in Sessions, o \in Options \cup {None} :
                 startTracking(s, o) \/ updateTrackingOptions(s, o)
    BY <2>1, <2>5 DEF startTracking, updateTrackingOptions
  <2>6. CASE \E s \in Sessions : stopTracking(s)
    BY <2>2, <2>6 DEF stopTracking
  <2>7. CASE \E c \in Clients : removeClient(c)
    BY <2>3, <2>7 DEF removeClient
  <2>8. CASE NHzRequirement
    BY <2>4, <2>8 DEF NHzRequirement
  <2> QED
    BY <2>5, <2>6, <2>7, <2>8
<1> QED
  BY <1>1, <1>2, AskRate

\* What the engine answers to the command at the head of apiQ.
LEMMA AnswerRate ==
    ASSUME TypedInv, RateInv, Serve, NEW ok \in BOOLEAN, Answer(Head(apiQ), ok),
           up' = up, ok \/ ~up
    PROVE  /\ OldErrors' /\ Told' /\ (Opened' => Opened) /\ AllKept(apiQ')
           /\ Head(apiQ).op = "stopFix" => Head(apiQ).o = None
<1>1. PICK q, c : q = apiQ /\ c = Head(apiQ)
  OBVIOUS
<1>2. /\ q \in Seq(Command) /\ q # <<>> /\ apiQ' = Tail(q) /\ c = q[1]
      /\ c.op \in {"startTB", "stopFix", "startDB", "stopDB"}
      /\ c.cb \in Callback /\ c.s \in Sessions /\ c.co \in OptionType
  BY <1>1, ServeTyped
<1>3. AllKept(q) /\ Told
  BY <1>1, OptionsParts DEF RateInv
<1>4. CommandKept(c)
  BY <1>2, <1>3, HeadTail DEF AllKept
<1>5. Captured(c) /\ (c.op = "stopFix" => c.o = None)
  BY <1>2, <1>4 DEF CommandKept
<1>6. PICK m : m = Answers(c, ok)
  OBVIOUS
<1>7. m \in Message /\ m.ok = ok /\ m.cb = c.cb /\ m.co = c.co
  BY <1>2, <1>6 DEF Answers, Message
<1>8. Captured(m)
  BY <1>5, <1>7 DEF Captured
<1>9. UNCHANGED msgQ \/ Post(m)
  BY <1>1, <1>6 DEF Answer, Answers
<1>10. CASE UNCHANGED msgQ
  BY <1>1, <1>2, <1>3, <1>5, <1>10, TailKept DEF RateInv, OldErrors, Told, Opened
<1>11. CASE Post(m)
  BY <1>1, <1>2, <1>3, <1>5, <1>7, <1>8, <1>11, PostRate, TailKept DEF RateInv
<1> QED
  BY <1>9, <1>10, <1>11

LEMMA EngineDoneRate ==
    ASSUME TypedInv, RateInv, EngineDone
    PROVE  RateInv'
<1>1. /\ Serve /\ Answer(Head(apiQ), TRUE) /\ UNCHANGED adapterVars /\ up' = up
      /\ fix' = CASE Head(apiQ).op = "startTB" -> Head(apiQ).o
                  [] Head(apiQ).op = "stopFix" -> None
                  [] OTHER -> fix
  BY DEF EngineDone
<1>2. /\ OldErrors' /\ Told' /\ (Opened' => Opened) /\ AllKept(apiQ')
      /\ Head(apiQ).op = "stopFix" => Head(apiQ).o = None
  BY <1>1, AnswerRate
<1>3. UNCHANGED <<tb, db, nhz, speHigh>>
  BY <1>1 DEF adapterVars
<1>4. OptionsKept'
  BY <1>2, <1>3, OptionsParts DEF RateInv, OptionsKept, MapsKept, AllKept, Told
<1>5. PICK q, c, x, y : q = apiQ /\ c = Head(apiQ) /\ x = fix /\ y = fix'
  OBVIOUS
<1>6. q \in Seq(Command) /\ q # <<>> /\ apiQ' = Tail(q) /\ c = q[1]
      /\ c.op \in {"startTB", "stopFix", "startDB", "stopDB"}
  BY <1>1, <1>5, ServeTyped
<1>7. (TimeBased(c) => y = c.o) /\ (~TimeBased(c) => y = x)
  BY <1>1, <1>2, <1>5, <1>6 DEF TimeBased
<1>8. ASSUME Opened' PROVE Good(apiQ', fix', tb', nhz', speHigh')
  BY <1>2, <1>3, <1>5, <1>6, <1>7, <1>8, GoodTail DEF RateInv, PlanServes
<1>9. PlanServes' /\ HighIsNeeded'
  BY <1>3, <1>8 DEF RateInv, PlanServes, HighIsNeeded
<1> QED
  BY <1>2, <1>4, <1>9 DEF RateInv

LEMMA EngineRefusesRate ==
    ASSUME Reliable, TypedInv, RateInv, EngineRefuses
    PROVE  RateInv'
<1>1. /\ Serve /\ Answer(Head(apiQ), FALSE) /\ UNCHANGED adapterVars /\ up' = up /\ ~up
  BY DEF EngineRefuses, Reliable, engineVars
<1>2. OldErrors' /\ Told' /\ AllKept(apiQ')
  BY <1>1, AnswerRate
<1>3. UNCHANGED <<tb, db, nhz, speHigh>>
  BY <1>1 DEF adapterVars
<1>4. OptionsKept'
  BY <1>2, <1>3, OptionsParts DEF RateInv, OptionsKept, MapsKept, AllKept, Told
<1>5. PlanServes' /\ HighIsNeeded'
  BY <1>1, <1>3 DEF RateInv, PlanServes, HighIsNeeded, Opened
<1> QED
  BY <1>2, <1>4, <1>5 DEF RateInv

LEMMA EngineEventRate ==
    ASSUME TypedInv, RateInv, EngineDown \/ handleEngineDownEvent \/ EngineUp
    PROVE  RateInv'
<1>1. UNCHANGED adapterVars /\ apiQ \in Seq(Command) /\ msgQ \in Seq(Message)
  BY DEF EngineDown, handleEngineDownEvent, EngineUp, TypedInv, TypeOK
<1>2. UNCHANGED <<tb, db, nhz, speHigh>>
  BY <1>1 DEF adapterVars
<1>3. AllKept(apiQ) /\ Told /\ MapsKept(tb, db)
  BY OptionsParts DEF RateInv
<1>4. MapsKept(tb', db') /\ HighIsNeeded'
  BY <1>2, <1>3 DEF MapsKept, RateInv, HighIsNeeded
<1>5. CASE EngineDown
  BY <1>3, <1>4, <1>5
  DEF EngineDown, OldErrors, PlanServes, Opened, Told, AllKept, RateInv, OptionsKept,
       MapsKept
<1>6. CASE handleEngineDownEvent
  <2>1. ~up /\ up' = up /\ UNCHANGED msgQ /\ apiQ' = Append(apiQ, OpenMsg)
    BY <1>6 DEF handleEngineDownEvent, engineVars
  <2>2. PICK c : c = OpenMsg
    OBVIOUS
  <2>3. c \in Command /\ CommandKept(c) /\ <<c>> \in Seq(Command)
    BY <2>2 DEF OpenMsg, Command, CommandKept
  <2>4. apiQ' = apiQ \o <<c>>
    BY <1>1, <2>1, <2>2
  <2>5. AllKept(apiQ')
    BY <1>1, <1>3, <2>3, <2>4, OneKept, ConcatKept
  <2>6. OldErrors' /\ PlanServes' /\ Told'
    BY <1>3, <2>1 DEF OldErrors, PlanServes, Opened, Told
  <2> QED
    BY <1>4, <2>5, <2>6 DEF RateInv, OptionsKept, MapsKept, AllKept, Told
<1>7. CASE EngineUp
  <2>1. apiQ # <<>> /\ apiQ' = Tail(apiQ) /\ Post([m |-> "engineUp"])
    BY <1>7 DEF EngineUp
  <2>2. AllKept(apiQ')
    BY <1>1, <1>3, <2>1, TailKept
  <2>3. PICK m, q, t : m = [m |-> "engineUp"] /\ q = msgQ /\ t = Append(msgQ, m)
    OBVIOUS
  <2>4. m \in Message /\ m.m = "engineUp" /\ msgQ' = t /\ q \in Seq(Message)
    BY <1>1, <2>1, <2>3 DEF Message, Post
  <2>5. /\ Len(q) \in Nat /\ Len(t) = Len(q) + 1 /\ t[Len(q) + 1] = m
        /\ \A i \in 1..Len(q) : i \in 1..Len(t) /\ t[i] = q[i]
        /\ \A i \in 1..Len(t) : i \in 1..Len(q) \/ i = Len(q) + 1
    BY <2>3, <2>4, AppendFacts
  <2>6. \A i \in 1..Len(t) : Len(t) \in i..Len(t) /\ t[Len(t)].m = "engineUp"
    BY <2>4, <2>5
  <2>7. OldErrors'
    BY <2>4, <2>6 DEF OldErrors
  <2>8. \E i \in 1..Len(t) : t[i].m = "engineUp"
    BY <2>5, <2>6
  <2>9. PlanServes'
    BY <2>4, <2>8 DEF PlanServes, Opened
  <2>10. Told'
    BY <1>3, <2>3, <2>4, <2>5 DEF Told
  <2> QED
    BY <1>4, <2>2, <2>7, <2>9, <2>10 DEF RateInv, OptionsKept, MapsKept, AllKept, Told
<1> QED
  BY <1>5, <1>6, <1>7

LEMMA RateInit == Init => RateInv
<1> SUFFICES ASSUME Init PROVE RateInv
  OBVIOUS
<1>1. DOMAIN tb = {} /\ DOMAIN db = {} /\ apiQ = <<>> /\ msgQ = <<>> /\ ~up /\ ~speHigh
  BY DEF Init
<1>2. HighIsNeeded /\ OldErrors /\ PlanServes
  BY <1>1 DEF HighIsNeeded, OldErrors, PlanServes, Opened
<1>3. OptionsKept
  BY <1>1 DEF OptionsKept
<1> QED
  BY <1>2, <1>3 DEF RateInv

LEMMA RateStepKept ==
    ASSUME Reliable, TypedInv, RateInv, [Next]_vars
    PROVE  RateInv'
<1>1. CASE Proc
  BY <1>1, StartRate, UpdateRate, StopRate, RemoveClientRate, RemoveTimeBasedRate,
     RemoveRestRate, RespStartRate, RespUpdateRate, RespStopRate, RespDistanceStopRate,
     RespToTimeBasedRate, RespRestartRate, RespRestartedRate, EngineUpRate, NHzRate
  DEF Proc
<1>2. CASE \/ \E s \in Sessions, o \in Options \cup {None} :
                 startTracking(s, o) \/ updateTrackingOptions(s, o)
           \/ \E s \in Sessions : stopTracking(s)
           \/ \E c \in Clients : removeClient(c)
           \/ NHzRequirement
  BY <1>2, ClientRate
<1>3. CASE EngineDone \/ EngineRefuses
  BY <1>3, EngineDoneRate, EngineRefusesRate
<1>4. CASE EngineDown \/ handleEngineDownEvent \/ EngineUp
  BY <1>4, EngineEventRate
<1>5. CASE UNCHANGED vars
  BY <1>5 DEF vars, RateInv, HighIsNeeded, OldErrors, OptionsKept, PlanServes, Opened
<1> QED
  BY <1>1, <1>2, <1>3, <1>4, <1>5 DEF Next

\* When nothing is on its way the engine runs at the rate that was planned.
LEMMA RateServes ==
    ASSUME TypedInv, RateInv
    PROVE  IntervalServed
<1> SUFFICES ASSUME Quiet
             PROVE  /\ \A s \in DOMAIN tb : fix # None /\ fix.int <= tb[s].int
                    /\ nhz /\ DOMAIN tb # {} => fix.int = MinInterval
  BY DEF IntervalServed
<1>1. up /\ msgQ = <<>> /\ apiQ = <<>>
  BY DEF Quiet
<1>2. Opened
  BY <1>1 DEF Opened
<1>3. Good(<<>>, fix, tb, nhz, speHigh)
  BY <1>1, <1>2 DEF RateInv, PlanServes
<1>4. Decides(<<>>) = {}
  BY DEF Decides
<1>5. fix \in Plans(<<>>, fix)
  BY <1>4, PlansFacts
<1>6. Rate(fix, tb, nhz, speHigh)
  BY <1>3, <1>5 DEF Good
<1>7. \A s \in DOMAIN tb : fix # None
  <2> SUFFICES ASSUME NEW s \in DOMAIN tb, fix = None PROVE FALSE
    OBVIOUS
  <2>1. MinInterval <= fix.int
    BY <1>6 DEF Rate
  <2> QED
    BY <2>1, NoneTyped, OptionAssumption
<1> QED
  BY <1>6, <1>7 DEF Rate

\* Whatever the sessions, their options and their order, and however often the
\* engine goes down or NHz is required: when all is quiet the engine serves
\* every time based session at its interval or faster.  The engine refuses
\* nothing while it is up, and distance based sessions are asked for only if
\* it supports them (startTimeBasedTrackingMultiplex, updateTrackingMultiplex,
\* stopTimeBasedTrackingMultiplex, checkAndSetSPEToRunforNHz and
\* checkAndRestartTimeBasedSession).
THEOREM IntervalServedAlways ==
    ASSUME Reliable
    PROVE  Spec => []IntervalServed
<1>1. Init => TypedInv /\ RateInv
  BY TypedInit, RateInit
<1>2. TypedInv /\ RateInv /\ [Next]_vars => TypedInv' /\ RateInv'
  BY TypedStep, RateStepKept
<1>3. TypedInv /\ RateInv => IntervalServed
  BY RateServes
<1> QED
  BY <1>1, <1>2, <1>3, PTL DEF Spec

-----------------------------------------------------------------------------
(* The fix session ends with the last time based session. *)

\* No distance based sessions, and an engine that refuses nothing while it is up
\* to clients that wait for it.
Orderly == ~EngineErrors /\ AwaitEngine /\ \A o \in Options : ~o.dist

PlainCommand(c) ==
    /\ c.op \in {"open", "startTB", "stopFix"}
    /\ c.op # "open" => c.cb \in {"none", "start", "update", "stop"}

AllPlain(q) == \A i \in 1..Len(q) : PlainCommand(q[i])

PlainAnswers == \A i \in 1..Len(msgQ) : msgQ[i].m = "resp" => msgQ[i].cb \in {"start", "update", "stop"}

TimeOnly == DOMAIN db = {} /\ pending = <<>> /\ AllPlain(apiQ) /\ PlainAnswers

\* No fix session is planned when there are no sessions f.
Idles(q, x, f) == DOMAIN f = {} => \A o \in Plans(q, x) : o = None

EmptyIdles == NoRestart /\ Opened => Idles(apiQ, fix, tb)

\* Until the adapter knows the engine nothing is started.
Blank ==
    /\ DOMAIN tb = {} /\ fix = None
    /\ \A s \in Sessions : want[s] = None
    /\ \A i \in 1..Len(msgQ) : msgQ[i].m \in {"engineUp", "remove"}
    /\ \A i \in 1..Len(apiQ) : apiQ[i].op = "open"

\* The engine comes up once, and the adapter hears of it once.
UpOnce ==
    /\ \A i \in 1..Len(msgQ) : msgQ[i].m # "nhz"
    /\ up \/ capsKnown => ups = 1
    /\ \A i \in 1..Len(msgQ) : msgQ[i].m = "engineUp" =>
          ups = 1 /\ ~capsKnown /\ \A j \in 1..Len(msgQ) : msgQ[j].m = "engineUp" => j = i

Booted == NoRestart => UpOnce /\ (~capsKnown => Blank)

OnceInv == TimeOnly /\ Booted /\ EmptyIdles

LEMMA OrderlyIsReliable == Orderly => Reliable
  BY DEF Orderly, Reliable

LEMMA IdlesTail ==
    ASSUME NEW q \in Seq(Command), q # <<>>, NEW x, NEW y,
           TimeBased(q[1]) => y = q[1].o, ~TimeBased(q[1]) => y = x,
           NEW f, Idles(q, x, f)
    PROVE  Idles(Tail(q), y, f)
  BY PlansOfTail DEF Idles

LEMMA IdlesWhenOpen ==
    ASSUME NEW q, \A i \in 1..Len(q) : q[i].op = "open", NEW f
    PROVE  Idles(q, None, f)
<1>1. \A i : i \notin Decides(q)
  BY DecidesFacts DEF TimeBased
<1> QED
  BY <1>1, PlansFacts DEF Idles

\* The last session s goes with the command that ends the fix session.
LEMMA FreesIdles ==
    ASSUME NEW q \in Seq(Command), NEW x, MapTyped(tb), NEW s \in DOMAIN tb, NEW e, Frees(e, s)
    PROVE  Idles(q \o e.cmds, x, Drop(tb, s))
<1>1. CASE ~(DOMAIN tb \subseteq {s})
  BY <1>1 DEF Drop, Idles
<1>2. CASE Ends(e, s)
  <2>1. PICK c : c = Cmd("stopFix", None, "stop", s, None)
    OBVIOUS
  <2>2. s \in Sessions
    BY DEF MapTyped
  <2>3. c \in Command /\ c.o = None /\ TimeBased(c)
    BY <2>1, <2>2, CmdTyped, NoneTyped DEF Cmd, TimeBased, Callback
  <2>4. e.cmds = <<c>>
    BY <1>2, <2>1 DEF Ends
  <2>5. \A o \in Plans(q \o <<c>>, x) : o = None
    BY <2>3, PlansOfOne
  <2> QED
    BY <2>4, <2>5 DEF Idles
<1> QED
  BY <1>1, <1>2 DEF Frees

LEMMA PlainConcat ==
    ASSUME NEW q \in Seq(Command), NEW r \in Seq(Command), AllPlain(q), AllPlain(r)
    PROVE  AllPlain(q \o r)
<1>1. PICK w, n : w = q \o r /\ n = Len(q)
  OBVIOUS
<1>2. /\ n \in Nat
      /\ \A i \in 1..Len(w) : i \in 1..n \/ (i - n \in 1..Len(r) /\ w[i] = r[i - n])
      /\ \A i \in 1..n : w[i] = q[i]
  BY <1>1
<1>3. (\A i \in 1..n : PlainCommand(q[i])) /\ (\A i \in 1..Len(r) : PlainCommand(r[i]))
  BY <1>1 DEF AllPlain
<1>4. \A i \in 1..Len(w) : PlainCommand(w[i])
  BY <1>2, <1>3
<1> QED
  BY <1>1, <1>4 DEF AllPlain

LEMMA PlainTail ==
    ASSUME NEW q \in Seq(Command), q # <<>>, AllPlain(q)
    PROVE  AllPlain(Tail(q))
  BY HeadTail DEF AllPlain

LEMMA PlainOne ==
    ASSUME NEW op \in {"startTB", "stopFix"}, NEW o, NEW cb \in {"none", "start", "update", "stop"},
           NEW s, NEW co
    PROVE  AllPlain(<<Cmd(op, o, cb, s, co)>>)
<1>1. PICK c : c = Cmd(op, o, cb, s, co)
  OBVIOUS
<1>2. PlainCommand(c)
  BY <1>1 DEF Cmd, PlainCommand
<1>3. AllPlain(<<c>>)
  BY <1>2 DEF AllPlain
<1> QED
  BY <1>1, <1>3

LEMMA EffectsArePlain ==
    ASSUME NEW e, NEW s
    PROVE  /\ Frees(e, s) => AllPlain(e.cmds)
           /\ \A cb \in {"start", "update"} : \A co, o : Covers(e, cb, s, co, o) => AllPlain(e.cmds)
           /\ \A hz : Restarts(e, hz) => AllPlain(e.cmds)
<1>0. AllPlain(<<>>)
  BY DEF AllPlain
<1>1. Silent(e) => AllPlain(e.cmds)
  BY <1>0 DEF Silent
<1>2. \A cb \in {"start", "update"} : \A co, p : Runs(e, cb, s, co, p) => AllPlain(e.cmds)
  BY PlainOne DEF Runs
<1>3. Ends(e, s) => AllPlain(e.cmds)
  BY PlainOne DEF Ends
<1>4. Frees(e, s) => AllPlain(e.cmds)
  BY <1>1, <1>2, <1>3 DEF Frees
<1>5. \A cb \in {"start", "update"} : \A co, o : Covers(e, cb, s, co, o) => AllPlain(e.cmds)
  BY <1>1, <1>2 DEF Covers, Fast
<1>6. \A hz : Restarts(e, hz) => AllPlain(e.cmds)
  BY <1>0, PlainOne DEF Restarts
<1> QED
  BY <1>4, <1>5, <1>6

LEMMA NoDistanceCmds ==
    ASSUME MapTyped(db), NEW S \in SUBSET DOMAIN db, IsFiniteSet(S), DOMAIN db = {},
           NEW op \in {"startDB", "stopDB"}, NEW cb \in Callback, NEW q \in DistanceCmds(S, op, cb)
    PROVE  q = <<>>
<1>1. q \in Seq(Command) /\ \A i \in 1..Len(q) : q[i].s \in S
  BY DistanceCmdsFacts
<1>2. \A i \in 1..Len(q) : FALSE
  BY <1>1
<1> QED
  BY <1>1, <1>2

\* A message is taken that is not about the engine.
LEMMA TakeOnce ==
    ASSUME TypedInv, NoRestart, UpOnce, PlainAnswers, msgQ # <<>>, Take,
           UNCHANGED <<capsKnown, up, ups>>
    PROVE  UpOnce'
<1>1. PICK q, t : q = msgQ /\ t = Tail(msgQ)
  OBVIOUS
<1>2. /\ q \in Seq(Message) /\ msgQ' = t
      /\ \A i \in 1..Len(t) : i + 1 \in 1..Len(q) /\ t[i] = q[i + 1]
  BY <1>1, HeadTail DEF TypedInv, TypeOK, Take
<1>3. \A i \in 1..Len(q) : q[i].m # "nhz"
  BY <1>1 DEF UpOnce
<1>4. \A i \in 1..Len(q) : q[i].m = "engineUp" =>
          ups = 1 /\ ~capsKnown /\ \A j \in 1..Len(q) : q[j].m = "engineUp" => j = i
  BY <1>1 DEF UpOnce
<1>5. ASSUME NEW i \in 1..Len(t), t[i].m = "engineUp"
      PROVE  ups = 1 /\ ~capsKnown /\ \A j \in 1..Len(t) : t[j].m = "engineUp" => j = i
  <2>1. i + 1 \in 1..Len(q) /\ q[i + 1].m = "engineUp"
    BY <1>2, <1>5
  <2>2. ASSUME NEW j \in 1..Len(t), t[j].m = "engineUp" PROVE j = i
    <3>1. j + 1 \in 1..Len(q) /\ q[j + 1].m = "engineUp"
      BY <1>2, <2>2
    <3>2. j + 1 = i + 1
      BY <1>4, <2>1, <3>1
    <3> QED
      BY <3>2
  <2> QED
    BY <1>4, <2>1, <2>2
<1>6. up' \/ capsKnown' => ups' = 1
  BY DEF UpOnce
<1> QED
  BY <1>2, <1>3, <1>5, <1>6 DEF UpOnce

LEMMA TakePlain ==
    ASSUME TypedInv, PlainAnswers, msgQ # <<>>, Take
    PROVE  PlainAnswers'
<1>1. PICK q, t : q = msgQ /\ t = Tail(msgQ)
  OBVIOUS
<1>2. /\ msgQ' = t
      /\ \A i \in 1..Len(t) : i + 1 \in 1..Len(q) /\ t[i] = q[i + 1]
  BY <1>1, HeadTail DEF TypedInv, TypeOK, Take
<1> QED
  BY <1>1, <1>2 DEF PlainAnswers

\* Commands and answers are handled when the engine is known.
LEMMA HandlerOnce ==
    ASSUME TypedInv, RateInv, OnceInv, NEW kind \in {"start", "update", "stop", "resp"},
           Arrived(kind), Take, UNCHANGED <<capsKnown, pending, nhz, engineVars>>,
           DOMAIN db' = {}, AllPlain(apiQ'),
           Opened /\ Idles(apiQ, fix, tb) => Idles(apiQ', fix, tb')
    PROVE  OnceInv'
<1>1. msgQ # <<>> /\ Head(msgQ).m = kind /\ msgQ \in Seq(Message)
  BY HeadTyped
<1>2. UNCHANGED <<up, ups, fix, nhzs>>
  BY DEF engineVars
<1>3. TimeOnly'
  BY <1>1, TakePlain DEF OnceInv, TimeOnly
<1>4. ASSUME NoRestart' PROVE UpOnce' /\ capsKnown' /\ NoRestart
  <2>1. NoRestart /\ UpOnce /\ (~capsKnown => Blank)
    BY <1>2, <1>4 DEF NoRestart, OnceInv, Booted
  <2>2. capsKnown
    BY <1>1, <2>1, HeadTail DEF Blank
  <2> QED
    BY <1>1, <1>2, <2>1, <2>2, TakeOnce DEF OnceInv, TimeOnly
<1>5. Booted'
  BY <1>4 DEF Booted
<1>6. Opened' => Opened
  BY <1>1, <1>2, TakeRate, OptionsParts DEF RateInv
<1>7. EmptyIdles'
  BY <1>2, <1>4, <1>6 DEF OnceInv, EmptyIdles
<1> QED
  BY <1>3, <1>5, <1>7 DEF OnceInv

LEMMA NothingIdles ==
    ASSUME Idle, UNCHANGED <<tb, db>>, OnceInv
    PROVE  /\ DOMAIN db' = {} /\ AllPlain(apiQ')
           /\ Idles(apiQ, fix, tb) => Idles(apiQ', fix, tb')
<1>1. apiQ' = apiQ
  BY DEF Idle
<1> QED
  BY <1>1 DEF OnceInv, TimeOnly

\* A start, or an update of a time based session.
LEMMA CoversOnce ==
    ASSUME TypedInv, OnceInv, NEW cb \in {"start", "update"}, NEW s \in Sessions,
           NEW co \in OptionType, NEW o, NEW e,
           Covers(e, cb, s, co, o), Apply(e, s), tb' = Put(tb, s, o), db' = db
    PROVE  /\ DOMAIN db' = {} /\ AllPlain(apiQ') /\ Idles(apiQ', fix, tb')
<1>1. apiQ' = apiQ \o e.cmds /\ apiQ \in Seq(Command)
  BY DEF Apply, TypedInv, TypeOK
<1>2. cb \in Callback /\ speHigh \in BOOLEAN
  BY DEF Callback, TypedInv, TypeOK
<1>3. e.cmds \in Seq(Command)
  BY <1>2, CoversTyped DEF EffectTyped
<1>4. AllPlain(apiQ')
  BY <1>1, <1>3, EffectsArePlain, PlainConcat DEF OnceInv, TimeOnly
<1>5. s \in DOMAIN tb'
  BY DEF Put
<1> QED
  BY <1>4, <1>5 DEF OnceInv, TimeOnly, Idles

\* A time based session goes.
LEMMA FreesOnce ==
    ASSUME TypedInv, OnceInv, NEW s \in DOMAIN tb, NEW e, Frees(e, s),
           apiQ' = apiQ \o e.cmds, tb' = Drop(tb, s), db' = db
    PROVE  /\ DOMAIN db' = {} /\ AllPlain(apiQ') /\ Idles(apiQ', fix, tb')
<1>1. s \in Sessions /\ MapTyped(tb)
  BY MapsPair DEF MapTyped
<1>2. apiQ \in Seq(Command) /\ speHigh \in BOOLEAN
  BY DEF TypedInv, TypeOK
<1>3. e.cmds \in Seq(Command)
  BY <1>1, <1>2, FreesTyped DEF EffectTyped
<1>4. AllPlain(apiQ')
  BY <1>2, <1>3, EffectsArePlain, PlainConcat DEF OnceInv, TimeOnly
<1>5. Idles(apiQ', fix, tb')
  BY <1>1, <1>2, FreesIdles
<1> QED
  BY <1>4, <1>5 DEF OnceInv, TimeOnly

LEMMA StartOnce ==
    ASSUME Orderly, TypedInv, RateInv, OnceInv, ProcStart
    PROVE  OnceInv'
<1> DEFINE s == Head(msgQ).s
           o == Raise(Head(msgQ).o)
<1>1. Arrived("start") /\ Take /\ UNCHANGED <<capsKnown, nhz, engineVars>>
  BY DEF ProcStart
<1>2. s \in Sessions /\ o \in OptionType /\ ~IsDistance(o) /\ ~Head(msgQ).o.dist
  BY <1>1, HeadTyped, MessageFields, NoneTyped, RaiseTyped DEF Orderly, IsDistance
<1>3. UNCHANGED pending
  BY <1>2 DEF ProcStart, Deferred
<1>4. CASE Idle /\ UNCHANGED <<tb, db>>
  BY <1>1, <1>3, <1>4, NothingIdles, HandlerOnce
<1>5. CASE SetMaps(save(Maps, s, o)) /\ \E e \in startMultiplex(s, o) : Apply(e, s)
  <2>1. PICK e \in startMultiplex(s, o) : Apply(e, s)
    BY <1>5
  <2>2. Covers(e, "start", s, None, o)
    BY <1>2, <2>1, MapsPair, startMultiplexFacts DEF TypedInv, TypeOK
  <2>3. tb' = Put(tb, s, o) /\ db' = db
    BY <1>2, <1>5, SaveSteps
  <2>4. DOMAIN db' = {} /\ AllPlain(apiQ') /\ Idles(apiQ', fix, tb')
    BY <1>2, <2>1, <2>2, <2>3, NoneTyped, CoversOnce
  <2> QED
    BY <1>1, <1>3, <2>4, HandlerOnce
<1> QED
  BY <1>2, <1>4, <1>5 DEF ProcStart, Deferred

LEMMA UpdateOnce ==
    ASSUME Orderly, TypedInv, RateInv, OnceInv, ProcUpdate
    PROVE  OnceInv'
<1> DEFINE s == Head(msgQ).s
           o == Raise(Head(msgQ).o)
<1>1. Arrived("update") /\ Take /\ UNCHANGED <<capsKnown, nhz, engineVars>>
  BY DEF ProcUpdate
<1>2. /\ s \in Sessions /\ o \in OptionType /\ ~IsDistance(o) /\ ~Head(msgQ).o.dist
      /\ ~o.dist
  BY <1>1, HeadTyped, MessageFields, NoneTyped, RaiseTyped DEF Orderly, IsDistance
<1>3. UNCHANGED pending
  BY <1>2 DEF ProcUpdate, Deferred
<1>4. CASE Idle /\ UNCHANGED <<tb, db>>
  BY <1>1, <1>3, <1>4, NothingIdles, HandlerOnce
<1>5. CASE /\ s \in DOMAIN tb /\ SetMaps(save(Maps, s, o))
           /\ \E e \in updateMultiplex(s, o) : Apply(e, s)
  <2>1. PICK e \in updateMultiplex(s, o) : Apply(e, s)
    BY <1>5
  <2>2. PICK co : co = tb[s]
    OBVIOUS
  <2>3. co \in OptionType
    BY <1>5, <2>2, MapsPair DEF MapTyped
  <2>4. Covers(e, "update", s, tb[s], o)
    BY <1>2, <1>5, <2>1, MapsPair, updateMultiplexFacts DEF TypedInv, TypeOK
  <2>5. tb' = Put(tb, s, o) /\ db' = db
    BY <1>2, <1>5, SaveSteps
  <2>6. DOMAIN db' = {} /\ AllPlain(apiQ') /\ Idles(apiQ', fix, tb')
    BY <1>2, <2>1, <2>2, <2>3, <2>4, <2>5, CoversOnce
  <2> QED
    BY <1>1, <1>3, <2>6, HandlerOnce
<1>6. s \notin DOMAIN db
  BY DEF OnceInv, TimeOnly
<1> QED
  BY <1>2, <1>4, <1>5, <1>6 DEF ProcUpdate, Deferred, Update

LEMMA StopOnce ==
    ASSUME TypedInv, RateInv, OnceInv, ProcStop
    PROVE  OnceInv'
<1> DEFINE s == Head(msgQ).s
<1>1. Arrived("stop") /\ Take /\ UNCHANGED <<capsKnown, pending, nhz, engineVars>>
  BY DEF ProcStop
<1>4. CASE Idle /\ UNCHANGED <<tb, db>>
  BY <1>1, <1>4, NothingIdles, HandlerOnce
<1>5. CASE /\ s \in DOMAIN tb /\ SetMaps(erase(Maps, s))
           /\ \E e \in stopMultiplex(s) : Apply(e, s)
  <2>1. PICK e \in stopMultiplex(s) : Apply(e, s)
    BY <1>5
  <2>2. Frees(e, s)
    BY <1>5, <2>1, MapsPair, stopMultiplexFacts DEF TypedInv, TypeOK
  <2>3. tb' = Drop(tb, s) /\ db' = db /\ apiQ' = apiQ \o e.cmds
    BY <1>5, <2>1, EraseSteps DEF Apply
  <2>4. DOMAIN db' = {} /\ AllPlain(apiQ') /\ Idles(apiQ', fix, tb')
    BY <1>5, <2>2, <2>3, FreesOnce
  <2> QED
    BY <1>1, <2>4, HandlerOnce
<1>6. s \notin DOMAIN db
  BY DEF OnceInv, TimeOnly
<1> QED
  BY <1>4, <1>5, <1>6 DEF ProcStop

\* A client is removed before or after the engine is known.
LEMMA RemoveClientOnce ==
    ASSUME TypedInv, RateInv, OnceInv, ProcRemoveClient
    PROVE  OnceInv'
<1>1. Arrived("remove") /\ Take
      /\ UNCHANGED <<tb, db, capsKnown, pending, apiQ, want, engineVars>>
  BY DEF ProcRemoveClient
<1>2. msgQ # <<>> /\ msgQ \in Seq(Message) /\ Head(msgQ).m = "remove"
  BY <1>1, HeadTyped
<1>3. UNCHANGED <<up, ups, fix, nhzs>>
  BY <1>1 DEF engineVars
<1>4. TimeOnly'
  BY <1>1, <1>2, TakePlain DEF OnceInv, TimeOnly, AllPlain
<1>5. ASSUME NoRestart' PROVE NoRestart /\ UpOnce' /\ (~capsKnown' => Blank')
  <2>1. NoRestart /\ UpOnce /\ (~capsKnown => Blank)
    BY <1>3, <1>5 DEF NoRestart, OnceInv, Booted
  <2>2. UpOnce'
    BY <1>1, <1>2, <1>3, <2>1, TakeOnce DEF OnceInv, TimeOnly
  <2>3. PICK q, t : q = msgQ /\ t = Tail(msgQ)
    OBVIOUS
  <2>4. /\ msgQ' = t
        /\ \A i \in 1..Len(t) : i + 1 \in 1..Len(q) /\ t[i] = q[i + 1]
    BY <1>1, <1>2, <2>3, HeadTail DEF Take
  <2>5. Blank => Blank'
    BY <1>1, <1>3, <2>3, <2>4 DEF Blank
  <2> QED
    BY <1>1, <2>1, <2>2, <2>5
<1>6. Opened' => Opened
  BY <1>2, <1>1, <1>3, TakeRate, OptionsParts DEF RateInv
<1>7. EmptyIdles'
  BY <1>1, <1>3, <1>5, <1>6 DEF OnceInv, EmptyIdles
<1> QED
  BY <1>4, <1>5, <1>7 DEF OnceInv, Booted

\* A step of the adapter between two messages.
LEMMA BetweenOnce ==
    ASSUME OnceInv, UNCHANGED <<msgQ, capsKnown, pending, want, engineVars>>,
           DOMAIN db' = {}, AllPlain(apiQ'), Blank => Blank',
           Idles(apiQ, fix, tb) => Idles(apiQ', fix, tb')
    PROVE  OnceInv'
<1>1. UNCHANGED <<up, ups, fix, nhzs>>
  BY DEF engineVars
<1>2. (NoRestart' <=> NoRestart) /\ (Opened' <=> Opened) /\ (UpOnce' <=> UpOnce)
  BY <1>1 DEF NoRestart, Opened, UpOnce
<1>3. TimeOnly'
  BY DEF OnceInv, TimeOnly, PlainAnswers
<1>4. EmptyIdles'
  BY <1>1, <1>2 DEF OnceInv, EmptyIdles
<1>5. Booted'
  BY <1>1, <1>2 DEF OnceInv, Booted
<1> QED
  BY <1>3, <1>4, <1>5 DEF OnceInv

LEMMA RemoveTimeBasedOnce ==
    ASSUME TypedInv, OnceInv, RemoveTimeBased
    PROVE  OnceInv'
<1>1. PICK s \in Owned(tb) : /\ SetMaps(erase(Maps, s))
                             /\ \E e \in stopMultiplex(s) : Apply(Quietly(e), s)
  BY DEF RemoveTimeBased, Quietly
<1>2. UNCHANGED <<msgQ, capsKnown, pending, want, engineVars>>
  BY DEF RemoveTimeBased
<1>3. s \in DOMAIN tb
  BY DEF Owned
<1>5. PICK e \in stopMultiplex(s) : Apply(Quietly(e), s)
  BY <1>1
<1>6. Frees(e, s)
  BY <1>3, <1>5, MapsPair, stopMultiplexFacts DEF TypedInv, TypeOK
<1>7. apiQ' = apiQ \o e.cmds
  BY <1>5, <1>6, FreesAreEffects, QuietlyFacts DEF Apply
<1>8. tb' = Drop(tb, s) /\ db' = db
  BY <1>1, <1>3, EraseSteps
<1>9. DOMAIN db' = {} /\ AllPlain(apiQ') /\ Idles(apiQ', fix, tb')
  BY <1>3, <1>6, <1>7, <1>8, FreesOnce
<1>10. ~Blank
  BY <1>3 DEF Blank
<1> QED
  BY <1>2, <1>9, <1>10, BetweenOnce

LEMMA RemoveRestOnce ==
    ASSUME TypedInv, OnceInv, RemoveRest
    PROVE  OnceInv'
<1>1. PICK q \in DistanceCmds(Owned(db), "stopDB", "clean") : apiQ' = apiQ \o q
  BY DEF RemoveRest
<1>2. UNCHANGED <<tb, db, msgQ, capsKnown, pending, want, engineVars>>
  BY DEF RemoveRest
<1>3. q = <<>>
  BY MapsPair, OwnedDistance, NoDistanceCmds DEF Callback, OnceInv, TimeOnly
<1>4. apiQ' = apiQ
  BY <1>1, <1>3 DEF TypedInv, TypeOK
<1>5. Blank => Blank'
  BY <1>2, <1>4 DEF Blank, engineVars
<1>6. DOMAIN db' = {} /\ AllPlain(apiQ') /\ (Idles(apiQ, fix, tb) => Idles(apiQ', fix, tb'))
  BY <1>2, <1>4 DEF OnceInv, TimeOnly
<1> QED
  BY <1>2, <1>5, <1>6, BetweenOnce

\* Answers are to starts, updates and stops.
LEMMA ResponseOnce ==
    ASSUME TypedInv, OnceInv, NEW cb, Response(cb)
    PROVE  cb \in {"start", "update", "stop"} /\ Arrived("resp") /\ Take
<1>1. Arrived("resp") /\ Take /\ Head(msgQ).cb = cb
  BY DEF Response
<1>2. PICK q : q = msgQ
  OBVIOUS
<1>3. Head(q) = q[1] /\ 1 \in 1..Len(q) /\ Head(q).m = "resp"
  BY <1>1, <1>2, HeadTyped, HeadTail
<1> QED
  BY <1>1, <1>2, <1>3 DEF OnceInv, TimeOnly, PlainAnswers

LEMMA RespStartOnce ==
    ASSUME TypedInv, RateInv, OnceInv, RespStart
    PROVE  OnceInv'
<1> DEFINE r == Head(msgQ)
<1>1. PICK cb : Response(cb)
  BY DEF RespStart
<1>2. /\ SetMaps(IF r.ok THEN Maps ELSE erase(Maps, r.s))
      /\ Idle /\ UNCHANGED <<capsKnown, pending, nhz, engineVars>>
  BY DEF RespStart
<1>3. Arrived("resp") /\ Take /\ (Opened => r.ok)
  BY <1>1, ResponseOnce, ResponseRate
<1>4. CASE r.ok
  BY <1>2, <1>3, <1>4, SameSteps, NothingIdles, HandlerOnce
<1>5. CASE ~r.ok
  BY <1>2, <1>3, <1>5, EraseSteps, HandlerOnce DEF Drop, OnceInv, TimeOnly, Idle
<1> QED
  BY <1>4, <1>5

LEMMA RespUpdateOnce ==
    ASSUME TypedInv, RateInv, OnceInv, RespUpdate
    PROVE  OnceInv'
<1> DEFINE r == Head(msgQ)
<1>1. Response("update") /\ SetMaps(IF r.ok THEN Maps ELSE save(Maps, r.s, r.co))
      /\ Idle /\ UNCHANGED <<capsKnown, pending, nhz, engineVars>>
  BY DEF RespUpdate, Frame
<1>3. Arrived("resp") /\ Take /\ (Opened => r.ok) /\ Captured(r) /\ r.cb = "update"
  BY <1>1, ResponseOnce, ResponseRate
<1>4. CASE r.ok
  BY <1>1, <1>3, <1>4, SameSteps, NothingIdles, HandlerOnce
<1>5. CASE ~r.ok
  BY <1>1, <1>3, <1>5, TimeIsNotDistance, SaveSteps, HandlerOnce
  DEF Captured, Idle, OnceInv, TimeOnly
<1> QED
  BY <1>4, <1>5

LEMMA RespStopOnce ==
    ASSUME TypedInv, RateInv, OnceInv, RespStop
    PROVE  OnceInv'
<1>1. Response("stop") /\ UNCHANGED <<tb, db>> /\ Idle
      /\ UNCHANGED <<capsKnown, pending, nhz, engineVars>>
  BY DEF RespStop, Frame
<1> QED
  BY <1>1, ResponseOnce, NothingIdles, HandlerOnce

LEMMA OtherRespOnce ==
    ASSUME TypedInv, OnceInv,
           RespDistanceStop \/ RespToTimeBased \/ RespRestart \/ RespRestarted
    PROVE  OnceInv'
  BY ResponseOnce DEF RespDistanceStop, RespToTimeBased, RespRestart, RespRestarted

\* Restarting the sessions sends plain commands, and nothing without sessions.
LEMMA RestartOnce ==
    ASSUME TypedInv, DOMAIN db = {}, NEW hz \in BOOLEAN, RestartSPE(hz)
    PROVE  (AllPlain(apiQ) => AllPlain(apiQ')) /\ (DOMAIN tb = {} => apiQ' = apiQ)
<1>1. PICK e \in RestartTimeBased(hz), q \in DistanceCmds(DOMAIN db, "startDB", "none") :
         apiQ' = apiQ \o e.cmds \o q
  BY DEF RestartSPE
<1>2. q = <<>>
  BY MapsPair, OwnedDistance, NoDistanceCmds DEF Callback
<1>3. Restarts(e, hz) /\ e.cmds \in Seq(Command)
  BY MapsPair, RestartFacts, RestartsTyped DEF EffectTyped
<1>4. apiQ \in Seq(Command)
  BY DEF TypedInv, TypeOK
<1>5. PICK w : w = apiQ \o e.cmds
  OBVIOUS
<1>6. w \in Seq(Command) /\ apiQ' = w
  BY <1>1, <1>2, <1>3, <1>4, <1>5
<1>7. AllPlain(apiQ) => AllPlain(w)
  BY <1>3, <1>4, <1>5, EffectsArePlain, PlainConcat
<1>8. DOMAIN tb = {} => e.cmds = <<>>
  BY DEF RestartTimeBased
<1>9. DOMAIN tb = {} => apiQ' = apiQ
  BY <1>4, <1>5, <1>6, <1>8
<1> QED
  BY <1>6, <1>7, <1>9

LEMMA EngineUpOnce ==
    ASSUME TypedInv, RateInv, OnceInv, ProcEngineUp
    PROVE  OnceInv'
<1>1. /\ Arrived("engineUp") /\ capsKnown' = TRUE /\ RestartSPE(nhz)
      /\ msgQ' = Tail(msgQ) \o pending /\ pending' = <<>>
      /\ UNCHANGED <<tb, db, want, engineVars>>
  BY DEF ProcEngineUp
<1>2. UNCHANGED <<up, ups, fix, nhzs>>
  BY <1>1 DEF engineVars
<1>3. msgQ # <<>> /\ msgQ \in Seq(Message) /\ Head(msgQ).m = "engineUp"
  BY <1>1, HeadTyped
<1>4. PICK q, t : q = msgQ /\ t = Tail(msgQ)
  OBVIOUS
<1>5. /\ q \in Seq(Message) /\ t \in Seq(Message) /\ 1 \in 1..Len(q) /\ q[1].m = "engineUp"
      /\ \A i \in 1..Len(t) : i + 1 \in 1..Len(q) /\ t[i] = q[i + 1]
  BY <1>3, <1>4, HeadTail
<1>6. msgQ' = t
  BY <1>1, <1>4, <1>5 DEF OnceInv, TimeOnly
<1>7. Take
  BY <1>4, <1>6 DEF Take
<1>8. TimeOnly'
  BY <1>1, <1>3, <1>7, TakePlain, FlagsAreTyped, RestartOnce DEF FlagsTyped, OnceInv, TimeOnly
<1>9. ASSUME NoRestart' PROVE UpOnce' /\ Idles(apiQ', fix', tb')
  <2>1. NoRestart /\ UpOnce /\ (~capsKnown => Blank)
    BY <1>2, <1>9 DEF NoRestart, OnceInv, Booted
  <2>2. /\ ups = 1 /\ ~capsKnown
        /\ \A j \in 1..Len(q) : q[j].m = "engineUp" => j = 1
        /\ \A j \in 1..Len(q) : q[j].m # "nhz"
    BY <1>4, <1>5, <2>1 DEF UpOnce
  <2>3. DOMAIN tb = {} /\ fix = None /\ \A i \in 1..Len(apiQ) : apiQ[i].op = "open"
    BY <2>1, <2>2 DEF Blank
  <2>4. apiQ' = apiQ
    BY <1>1, <2>3, FlagsAreTyped, RestartOnce DEF FlagsTyped, OnceInv, TimeOnly
  <2>5. Idles(apiQ, None, tb)
    BY <2>3, IdlesWhenOpen
  <2>6. \A i \in 1..Len(t) : t[i].m # "engineUp" /\ t[i].m # "nhz"
    <3> SUFFICES ASSUME NEW i \in 1..Len(t) PROVE t[i].m # "engineUp" /\ t[i].m # "nhz"
      OBVIOUS
    <3>1. i + 1 \in 1..Len(q) /\ t[i] = q[i + 1] /\ i + 1 # 1
      BY <1>5
    <3> QED
      BY <2>2, <3>1
  <2> QED
    BY <1>1, <1>2, <1>6, <2>2, <2>3, <2>4, <2>5, <2>6 DEF UpOnce
<1> QED
  BY <1>1, <1>8, <1>9 DEF OnceInv, Booted, EmptyIdles

LEMMA NHzOnce ==
    ASSUME TypedInv, OnceInv, ProcNHz
    PROVE  OnceInv'
<1>1. /\ Arrived("nhz") /\ Take /\ RestartSPE(~nhz)
      /\ UNCHANGED <<tb, db, pending>> /\ UNCHANGED engineVars
  BY DEF ProcNHz
<1>2. msgQ # <<>> /\ msgQ \in Seq(Message) /\ Head(msgQ).m = "nhz"
  BY <1>1, HeadTyped
<1>b. (~nhz) \in BOOLEAN
  OBVIOUS
<1>3. AllPlain(apiQ')
  BY <1>1, <1>b, RestartOnce DEF OnceInv, TimeOnly
<1>4. TimeOnly'
  BY <1>1, <1>2, <1>3, TakePlain DEF OnceInv, TimeOnly
<1>5. ~NoRestart
  <2>1. PICK q : q = msgQ
    OBVIOUS
  <2>2. 1 \in 1..Len(q) /\ q[1].m = "nhz"
    BY <1>2, <2>1, HeadTail
  <2> QED
    BY <2>1, <2>2 DEF OnceInv, Booted, UpOnce
<1>6. ~NoRestart'
  BY <1>1, <1>5 DEF NoRestart, engineVars
<1> QED
  BY <1>4, <1>6 DEF OnceInv, Booted, EmptyIdles

\* A message m comes behind the others.
LEMMA PostOnce ==
    ASSUME TypedInv, OnceInv, NEW m \in Message, Post(m),
           m.m # "engineUp", m.m = "resp" => m.cb \in {"start", "update", "stop"},
           UNCHANGED <<capsKnown, up, ups>>
    PROVE  /\ PlainAnswers' /\ (Opened' => Opened)
           /\ NoRestart /\ m.m # "nhz" => UpOnce'
           /\ Blank /\ m.m = "remove" => \A i \in 1..Len(msgQ') : msgQ'[i].m \in {"engineUp", "remove"}
<1>1. PICK q, t : q = msgQ /\ t = Append(msgQ, m)
  OBVIOUS
<1>2. q \in Seq(Message) /\ msgQ' = t
  BY <1>1 DEF Post, TypedInv, TypeOK
<1>3. /\ t[Len(q) + 1] = m
      /\ \A i \in 1..Len(q) : i \in 1..Len(t) /\ t[i] = q[i]
      /\ \A i \in 1..Len(t) : (i \in 1..Len(q) /\ t[i] = q[i]) \/ (i = Len(q) + 1 /\ t[i] = m)
  BY <1>1, <1>2, AppendFacts
<1>4. PlainAnswers'
  BY <1>1, <1>2, <1>3 DEF PlainAnswers, OnceInv, TimeOnly
<1>5. Opened' => Opened
  BY <1>1, <1>2, <1>3 DEF Opened
<1>6. ASSUME NoRestart, m.m # "nhz" PROVE UpOnce'
  <2>1. UpOnce
    BY <1>6 DEF OnceInv, Booted
  <2>2. \A i \in 1..Len(t) : t[i].m # "nhz"
    BY <1>1, <1>3, <1>6, <2>1 DEF UpOnce
  <2>3. ASSUME NEW i \in 1..Len(t), t[i].m = "engineUp"
        PROVE  ups = 1 /\ ~capsKnown /\ \A j \in 1..Len(t) : t[j].m = "engineUp" => j = i
    BY <1>1, <1>3, <2>1, <2>3 DEF UpOnce
  <2>4. up' \/ capsKnown' => ups' = 1
    BY <2>1 DEF UpOnce
  <2> QED
    BY <1>2, <2>2, <2>3, <2>4 DEF UpOnce
<1>7. ASSUME Blank, m.m = "remove"
      PROVE  \A i \in 1..Len(t) : t[i].m \in {"engineUp", "remove"}
  BY <1>1, <1>3, <1>7 DEF Blank
<1> QED
  BY <1>2, <1>4, <1>5, <1>6, <1>7

\* A client sends a message: commands only when the engine is known.
LEMMA AskOnce ==
    ASSUME TypedInv, OnceInv, NEW m \in Message, m.m \notin {"resp", "engineUp", "nhz"}, Post(m),
           UNCHANGED adapterVars, UNCHANGED <<apiQ, engineVars>>,
           NoRestart /\ ~capsKnown => m.m = "remove" /\ \A s \in Sessions : want'[s] = None
    PROVE  OnceInv'
<1>1. UNCHANGED <<tb, db, pending, capsKnown>>
  BY DEF adapterVars
<1>2. UNCHANGED <<up, ups, fix, nhzs>>
  BY DEF engineVars
<1>3. NoRestart' <=> NoRestart
  BY <1>2 DEF NoRestart
<1>4. PlainAnswers' /\ (Opened' => Opened) /\ (NoRestart => UpOnce')
  BY <1>1, <1>2, PostOnce
<1>5. TimeOnly'
  BY <1>1, <1>4 DEF OnceInv, TimeOnly, AllPlain
<1>6. ASSUME NoRestart, ~capsKnown PROVE Blank'
  BY <1>1, <1>2, <1>6, PostOnce DEF OnceInv, Booted, Blank
<1>7. Booted'
  BY <1>1, <1>3, <1>4, <1>6 DEF Booted
<1>8. EmptyIdles'
  BY <1>1, <1>2, <1>3, <1>4 DEF OnceInv, EmptyIdles
<1> QED
  BY <1>5, <1>7, <1>8 DEF OnceInv

LEMMA ClientOnce ==
    ASSUME Orderly, TypedInv, OnceInv,
           \/ \E s \in Sessions, o \in Options \cup {None} :
                 startTracking(s, o) \/ updateTrackingOptions(s, o)
           \/ \E s \in Sessions : stopTracking(s)
           \/ \E c \in Clients : removeClient(c)
    PROVE  OnceInv'
<1>1. UNCHANGED adapterVars /\ UNCHANGED <<apiQ, engineVars>>
  BY DEF startTracking, updateTrackingOptions, stopTracking, removeClient, Sent
<1>2. ASSUME NEW s \in Sessions, want[s] # None PROVE ~NoRestart \/ capsKnown
  BY <1>2 DEF OnceInv, Booted, Blank
<1>3. ASSUME NEW s \in Sessions, NEW o \in Options \cup {None}, startTracking(s, o)
      PROVE  OnceInv'
  <2>1. capsKnown /\ Post([m |-> "start", s |-> s, o |-> o])
    BY <1>3 DEF startTracking, Orderly
  <2>2. PICK m : m = [m |-> "start", s |-> s, o |-> o]
    OBVIOUS
  <2>3. m \in Message /\ m.m = "start" /\ Post(m)
    BY <2>1, <2>2 DEF Message
  <2> QED
    BY <1>1, <2>1, <2>3, AskOnce
<1>4. ASSUME NEW s \in Sessions, NEW o \in Options \cup {None}, updateTrackingOptions(s, o)
      PROVE  OnceInv'
  <2>1. want[s] # None /\ Post([m |-> "update", s |-> s, o |-> o])
    BY <1>4 DEF updateTrackingOptions
  <2>2. PICK m : m = [m |-> "update", s |-> s, o |-> o]
    OBVIOUS
  <2>3. m \in Message /\ m.m = "update" /\ Post(m)
    BY <2>1, <2>2 DEF Message
  <2> QED
    BY <1>1, <1>2, <2>1, <2>3, AskOnce
<1>5. ASSUME NEW s \in Sessions, stopTracking(s)
      PROVE  OnceInv'
  <2>1. want[s] # None /\ Post([m |-> "stop", s |-> s])
    BY <1>5 DEF stopTracking
  <2>2. PICK m : m = [m |-> "stop", s |-> s]
    OBVIOUS
  <2>3. m \in Message /\ m.m = "stop" /\ Post(m)
    BY <2>1, <2>2 DEF Message
  <2> QED
    BY <1>1, <1>2, <2>1, <2>3, AskOnce
<1>6. ASSUME NEW c \in Clients, removeClient(c)
      PROVE  OnceInv'
  <2>1. /\ Post([m |-> "remove", c |-> c])
        /\ want' = [s \in Sessions |-> IF ClientOf[s] = c THEN None ELSE want[s]]
    BY <1>6 DEF removeClient
  <2>2. PICK m : m = [m |-> "remove", c |-> c]
    OBVIOUS
  <2>3. m \in Message /\ m.m = "remove" /\ Post(m)
    BY <2>1, <2>2 DEF Message
  <2>4. NoRestart /\ ~capsKnown => \A s \in Sessions : want'[s] = None
    BY <2>1 DEF OnceInv, Booted, Blank
  <2> QED
    BY <1>1, <2>3, <2>4, AskOnce
<1> QED
  BY <1>3, <1>4, <1>5, <1>6

\* An engine that has come up answers the command at the head of apiQ.
LEMMA AnswerOnce ==
    ASSUME TypedInv, OnceInv, Serve, NEW ok \in BOOLEAN, Answer(Head(apiQ), ok),
           UNCHANGED <<capsKnown, up, ups>>
    PROVE  /\ PlainAnswers' /\ AllPlain(apiQ') /\ (Opened' => Opened)
           /\ NoRestart => UpOnce' /\ capsKnown
<1>1. PICK q, c : q = apiQ /\ c = Head(apiQ)
  OBVIOUS
<1>2. /\ q \in Seq(Command) /\ q # <<>> /\ apiQ' = Tail(q) /\ c = q[1] /\ 1 \in 1..Len(q)
      /\ c.op # "open" /\ c.cb \in Callback /\ c.s \in Sessions /\ c.co \in OptionType
  BY <1>1, ServeTyped, HeadTail
<1>3. PlainCommand(c)
  BY <1>1, <1>2 DEF OnceInv, TimeOnly, AllPlain
<1>4. c.cb = "none" \/ c.cb \in {"start", "update", "stop"}
  BY <1>2, <1>3 DEF PlainCommand
<1>5. AllPlain(apiQ')
  BY <1>1, <1>2, PlainTail DEF OnceInv, TimeOnly
<1>6. NoRestart => capsKnown
  BY <1>1, <1>2 DEF OnceInv, Booted, Blank
<1>7. CASE UNCHANGED msgQ
  BY <1>5, <1>6, <1>7 DEF OnceInv, TimeOnly, Booted, PlainAnswers, Opened, UpOnce
<1>8. CASE c.cb # "none" /\ Post(Answers(c, ok))
  <2>1. PICK m : m = Answers(c, ok)
    OBVIOUS
  <2>2. m \in Message /\ m.m = "resp" /\ m.cb \in {"start", "update", "stop"} /\ Post(m)
    BY <1>2, <1>4, <1>8, <2>1 DEF Answers, Message
  <2>3. PlainAnswers' /\ (Opened' => Opened) /\ (NoRestart => UpOnce')
    BY <2>2, PostOnce
  <2> QED
    BY <1>5, <1>6, <2>3
<1> QED
  BY <1>1, <1>7, <1>8 DEF Answer, Answers

LEMMA EngineDoneOnce ==
    ASSUME TypedInv, RateInv, OnceInv, EngineDone
    PROVE  OnceInv'
<1>1. /\ Serve /\ Answer(Head(apiQ), TRUE) /\ UNCHANGED adapterVars
      /\ UNCHANGED <<up, ups, nhzs>>
      /\ fix' = CASE Head(apiQ).op = "startTB" -> Head(apiQ).o
                  [] Head(apiQ).op = "stopFix" -> None
                  [] OTHER -> fix
  BY DEF EngineDone
<1>2. UNCHANGED <<tb, db, pending, capsKnown>>
  BY <1>1 DEF adapterVars
<1>3. /\ PlainAnswers' /\ AllPlain(apiQ') /\ (Opened' => Opened)
      /\ NoRestart => UpOnce' /\ capsKnown
  BY <1>1, <1>2, AnswerOnce
<1>4. Head(apiQ).op = "stopFix" => Head(apiQ).o = None
  BY <1>1, AnswerRate
<1>5. NoRestart' <=> NoRestart
  BY <1>1 DEF NoRestart
<1>6. TimeOnly' /\ Booted'
  BY <1>2, <1>3, <1>5 DEF OnceInv, TimeOnly, Booted
<1>7. PICK q, c, x, y : q = apiQ /\ c = Head(apiQ) /\ x = fix /\ y = fix'
  OBVIOUS
<1>8. q \in Seq(Command) /\ q # <<>> /\ apiQ' = Tail(q) /\ c = q[1]
      /\ c.op \in {"startTB", "stopFix", "startDB", "stopDB"}
  BY <1>1, <1>7, ServeTyped
<1>9. (TimeBased(c) => y = c.o) /\ (~TimeBased(c) => y = x)
  BY <1>1, <1>4, <1>7, <1>8 DEF TimeBased
<1>10. ASSUME NoRestart', Opened' PROVE Idles(apiQ', fix', tb')
  BY <1>2, <1>3, <1>5, <1>7, <1>8, <1>9, <1>10, IdlesTail DEF OnceInv, EmptyIdles
<1> QED
  BY <1>6, <1>10 DEF OnceInv, EmptyIdles

LEMMA EngineRefusesOnce ==
    ASSUME Orderly, TypedInv, OnceInv, EngineRefuses
    PROVE  OnceInv'
<1>1. /\ Serve /\ Answer(Head(apiQ), FALSE) /\ UNCHANGED adapterVars
      /\ UNCHANGED <<up, ups, fix, nhzs>> /\ ~up
  BY DEF EngineRefuses, Orderly, engineVars
<1>2. UNCHANGED <<tb, db, pending, capsKnown>>
  BY <1>1 DEF adapterVars
<1>3. /\ PlainAnswers' /\ AllPlain(apiQ') /\ (NoRestart => UpOnce' /\ capsKnown)
  BY <1>1, <1>2, AnswerOnce
<1>4. NoRestart' <=> NoRestart
  BY <1>1 DEF NoRestart
<1>5. TimeOnly' /\ Booted'
  BY <1>2, <1>3, <1>4 DEF OnceInv, TimeOnly, Booted
<1>6. ~Opened'
  BY <1>1 DEF Opened
<1> QED
  BY <1>5, <1>6 DEF OnceInv, EmptyIdles

LEMMA EngineEventOnce ==
    ASSUME TypedInv, OnceInv, EngineDown \/ handleEngineDownEvent \/ EngineUp \/ NHzRequirement
    PROVE  OnceInv'
<1>1. UNCHANGED adapterVars /\ UNCHANGED want /\ apiQ \in Seq(Command) /\ msgQ \in Seq(Message)
  BY DEF EngineDown, handleEngineDownEvent, EngineUp, NHzRequirement, TypedInv, TypeOK
<1>2. UNCHANGED <<tb, db, pending, capsKnown>>
  BY <1>1 DEF adapterVars
<1>3. ups \in Nat /\ nhzs \in Nat
  BY DEF TypedInv, TypeOK
<1>4. CASE EngineDown
  <2>1. up' = FALSE /\ fix' = None /\ UNCHANGED <<msgQ, apiQ, ups, nhzs>>
    BY <1>4 DEF EngineDown
  <2>2. ~Opened' /\ (NoRestart' <=> NoRestart) /\ TimeOnly'
    BY <1>2, <2>1 DEF Opened, NoRestart, OnceInv, TimeOnly, PlainAnswers, AllPlain
  <2>3. UpOnce => UpOnce'
    BY <1>2, <2>1 DEF UpOnce
  <2>4. Blank => Blank'
    BY <1>1, <1>2, <2>1 DEF Blank
  <2> QED
    BY <1>2, <2>2, <2>3, <2>4 DEF OnceInv, Booted, EmptyIdles
<1>5. CASE handleEngineDownEvent
  <2>1. ~up /\ UNCHANGED <<up, ups, nhzs, fix, msgQ>> /\ apiQ' = Append(apiQ, OpenMsg)
    BY <1>5 DEF handleEngineDownEvent, engineVars
  <2>2. PICK c, q, t : c = OpenMsg /\ q = apiQ /\ t = Append(apiQ, OpenMsg)
    OBVIOUS
  <2>3. c \in Command /\ c.op = "open" /\ q \in Seq(Command) /\ apiQ' = t
    BY <1>1, <2>1, <2>2 DEF OpenMsg, Command
  <2>4. \A i \in 1..Len(t) : (i \in 1..Len(q) /\ t[i] = q[i]) \/ t[i] = c
    BY <2>2, <2>3, AppendFacts
  <2>5. PlainCommand(c)
    BY <2>3 DEF PlainCommand
  <2>6. AllPlain(t)
    BY <2>2, <2>4, <2>5 DEF AllPlain, OnceInv, TimeOnly
  <2>7. ~Opened' /\ (NoRestart' <=> NoRestart) /\ TimeOnly'
    BY <1>2, <2>1, <2>3, <2>6 DEF Opened, NoRestart, OnceInv, TimeOnly, PlainAnswers
  <2>8. UpOnce => UpOnce'
    BY <1>2, <2>1 DEF UpOnce
  <2>9. Blank => Blank'
    BY <1>1, <1>2, <2>1, <2>2, <2>3, <2>4 DEF Blank
  <2> QED
    BY <1>2, <2>7, <2>8, <2>9 DEF OnceInv, Booted, EmptyIdles
<1>6. CASE EngineUp
  <2>1. /\ apiQ # <<>> /\ apiQ' = Tail(apiQ) /\ up' = TRUE /\ ups' = ups + 1
        /\ Post([m |-> "engineUp"]) /\ UNCHANGED <<fix, nhzs>>
    BY <1>6 DEF EngineUp
  <2>2. PICK m, q, t : m = [m |-> "engineUp"] /\ q = msgQ /\ t = Append(msgQ, m)
    OBVIOUS
  <2>3. m \in Message /\ m.m = "engineUp" /\ msgQ' = t /\ q \in Seq(Message)
    BY <1>1, <2>1, <2>2 DEF Message, Post
  <2>4. /\ Len(q) \in Nat /\ Len(t) = Len(q) + 1 /\ t[Len(q) + 1] = m
        /\ \A i \in 1..Len(q) : i \in 1..Len(t) /\ t[i] = q[i]
        /\ \A i \in 1..Len(t) : (i \in 1..Len(q) /\ t[i] = q[i]) \/ (i = Len(q) + 1 /\ t[i] = m)
    BY <2>2, <2>3, AppendFacts
  <2>5. AllPlain(apiQ')
    BY <1>1, <2>1, PlainTail DEF OnceInv, TimeOnly
  <2>6. PlainAnswers'
    BY <2>2, <2>3, <2>4 DEF PlainAnswers, OnceInv, TimeOnly
  <2>7. TimeOnly'
    BY <1>2, <2>5, <2>6 DEF OnceInv, TimeOnly
  <2>8. Len(t) \in 1..Len(t) /\ t[Len(t)].m = "engineUp"
    BY <2>3, <2>4
  <2>9. ~Opened'
    BY <2>3, <2>8 DEF Opened
  <2>10. ASSUME NoRestart' PROVE UpOnce' /\ (~capsKnown' => Blank')
    <3>1. ups = 0 /\ NoRestart
      BY <1>3, <2>1, <2>10 DEF NoRestart
    <3>2. UpOnce /\ ~capsKnown /\ Blank
      BY <3>1 DEF OnceInv, Booted, UpOnce
    <3>3. \A i \in 1..Len(q) : q[i].m \in {"engineUp", "remove"} /\ q[i].m # "engineUp"
      BY <2>2, <3>1, <3>2 DEF UpOnce, Blank
    <3>4. \A i \in 1..Len(t) : t[i].m \in {"engineUp", "remove"}
      BY <2>3, <2>4, <3>3
    <3>5. \A i \in 1..Len(t) : t[i].m = "engineUp" => i = Len(q) + 1
      BY <2>4, <3>3
    <3>6. ups' = 1 /\ ~capsKnown'
      BY <1>2, <2>1, <3>1, <3>2
    <3>7. UpOnce'
      BY <2>3, <3>4, <3>5, <3>6 DEF UpOnce
    <3>8. PICK p, r : p = apiQ /\ r = Tail(apiQ)
      OBVIOUS
    <3>9. \A i \in 1..Len(r) : i + 1 \in 1..Len(p) /\ r[i] = p[i + 1]
      BY <1>1, <2>1, <3>8, HeadTail
    <3>10. \A i \in 1..Len(r) : r[i].op = "open"
      BY <3>2, <3>8, <3>9 DEF Blank
    <3>11. Blank'
      BY <1>1, <1>2, <2>1, <2>3, <3>2, <3>4, <3>8, <3>10 DEF Blank
    <3> QED
      BY <3>7, <3>11
  <2> QED
    BY <2>7, <2>9, <2>10 DEF OnceInv, Booted, EmptyIdles
<1>7. CASE NHzRequirement
  <2>1. nhzs' = nhzs + 1 /\ Post([m |-> "nhz"]) /\ UNCHANGED <<apiQ, up, ups>>
    BY <1>7 DEF NHzRequirement
  <2>2. PICK m : m = [m |-> "nhz"]
    OBVIOUS
  <2>3. m \in Message /\ m.m = "nhz" /\ Post(m)
    BY <2>1, <2>2 DEF Message
  <2>4. PlainAnswers'
    BY <1>2, <2>1, <2>3, PostOnce
  <2>5. ~NoRestart'
    BY <1>3, <2>1 DEF NoRestart
  <2>6. TimeOnly'
    BY <1>2, <2>1, <2>4 DEF OnceInv, TimeOnly, AllPlain
  <2> QED
    BY <2>5, <2>6 DEF OnceInv, Booted, EmptyIdles
<1> QED
  BY <1>4, <1>5, <1>6, <1>7

LEMMA OnceInit == Init => OnceInv
<1> SUFFICES ASSUME Init PROVE OnceInv
  OBVIOUS
<1>1. /\ DOMAIN tb = {} /\ DOMAIN db = {} /\ apiQ = <<>> /\ msgQ = <<>> /\ pending = <<>>
      /\ ~up /\ ~capsKnown /\ fix = None /\ \A s \in Sessions : want[s] = None
  BY DEF Init
<1>2. TimeOnly
  BY <1>1 DEF TimeOnly, AllPlain, PlainAnswers
<1>3. UpOnce /\ Blank
  BY <1>1 DEF UpOnce, Blank
<1>4. ~Opened
  BY <1>1 DEF Opened
<1> QED
  BY <1>2, <1>3, <1>4 DEF OnceInv, Booted, EmptyIdles

LEMMA OnceStep ==
    ASSUME Orderly, TypedInv, RateInv, OnceInv, [Next]_vars
    PROVE  OnceInv'
<1>1. CASE Proc
  BY <1>1, StartOnce, UpdateOnce, StopOnce, RemoveClientOnce, RemoveTimeBasedOnce,
     RemoveRestOnce, RespStartOnce, RespUpdateOnce, RespStopOnce, OtherRespOnce,
     EngineUpOnce, NHzOnce
  DEF Proc
<1>2. CASE \/ \E s \in Sessions, o \in Options \cup {None} :
                 startTracking(s, o) \/ updateTrackingOptions(s, o)
           \/ \E s \in Sessions : stopTracking(s)
           \/ \E c \in Clients : removeClient(c)
  BY <1>2, ClientOnce
<1>3. CASE EngineDone \/ EngineRefuses
  BY <1>3, EngineDoneOnce, EngineRefusesOnce
<1>4. CASE EngineDown \/ handleEngineDownEvent \/ EngineUp \/ NHzRequirement
  BY <1>4, EngineEventOnce
<1>5. CASE UNCHANGED vars
  BY <1>5 DEF vars, OnceInv, TimeOnly, AllPlain, PlainAnswers, Booted, UpOnce, Blank,
              EmptyIdles, Opened, NoRestart
<1> QED
  BY <1>1, <1>2, <1>3, <1>4, <1>5 DEF Next

\* When nothing is on its way the fix session is the planned one.
LEMMA OnceServes ==
    ASSUME TypedInv, RateInv, OnceInv
    PROVE  FixWhenWanted
<1> SUFFICES ASSUME Quiet, NoRestart PROVE fix = None <=> DOMAIN tb = {}
  BY DEF FixWhenWanted
<1>1. up /\ msgQ = <<>> /\ apiQ = <<>>
  BY DEF Quiet
<1>2. fix = None => DOMAIN tb = {}
  BY RateServes DEF IntervalServed
<1>3. Opened
  BY <1>1 DEF Opened
<1>4. Idles(<<>>, fix, tb)
  BY <1>1, <1>3 DEF OnceInv, EmptyIdles
<1>5. Decides(<<>>) = {}
  BY DEF Decides
<1>6. fix \in Plans(<<>>, fix)
  BY <1>5, PlansFacts
<1> QED
  BY <1>2, <1>4, <1>6 DEF Idles

\* While the engine has come up once and no NHz requirement has changed: when all
\* is quiet the fix session runs exactly while there is a time based session,
\* whatever starts, updates, stops and removals of clients were under way at
\* once.  There are no distance based sessions, clients wait for the
\* capabilities, and the engine refuses nothing while it is up
\* (stopTimeBasedTrackingMultiplex, stopTracking and handleEngineUpEvent).
THEOREM FixWhenWantedAlways ==
    ASSUME Orderly
    PROVE  Spec => []FixWhenWanted
<1>1. Init => TypedInv /\ RateInv /\ OnceInv
  BY TypedInit, RateInit, OnceInit
<1>2. TypedInv /\ RateInv /\ OnceInv /\ [Next]_vars => TypedInv' /\ RateInv' /\ OnceInv'
  BY TypedStep, RateStepKept, OnceStep, OrderlyIsReliable
<1>3. TypedInv /\ RateInv /\ OnceInv => FixWhenWanted
  BY OnceServes
<1> QED
  BY <1>1, <1>2, <1>3, PTL DEF Spec

-----------------------------------------------------------------------------
(* Every command is answered, and once only. *)

\* How many elements of the queue q are in S.
Marked(q, S) == {i \in 1..Len(q) : q[i] \in S}
N(q, S) == Cardinality(Marked(q, S))

\* Messages and commands whose end is an answer to the client of session s.
Awaited(s) ==
    {m \in Message : \/ m.m \in {"start", "update", "stop"} /\ m.s = s
                     \/ m.m = "resp" /\ m.cb \notin {"none", "clean"} /\ m.s = s}

Asking(s) == {c \in Command : c.op # "open" /\ c.cb \notin {"none", "clean"} /\ c.s = s}

\* What the client of session s waits for beyond what is under way.
Due(s) == owed[s] - N(apiQ, Asking(s))
Balance(s) == Due(s) - N(msgQ, Awaited(s)) - N(pending, Awaited(s))

\* An answer is under way only if the client waits for it.
NeverTwice == \A s \in Sessions : ClientOf[s] \in clients \ removing => Balance(s) >= 0

\* An engine that refuses nothing while it is up to clients that have callbacks and
\* pass options.
Thorough == ~EngineErrors /\ ~BadOptions /\ Mute = {}

\* The engine has not gone down since it came up.
Steady == ups <= 1 /\ (ups = 1 => up)

\* What the client waits for is under way.
NoneLost == Steady => \A s \in Sessions : Registered(s) => Balance(s) <= 0

GoodStarts ==
    /\ \A i \in 1..Len(msgQ) : msgQ[i].m = "start" => msgQ[i].o # None
    /\ \A i \in 1..Len(pending) : pending[i].m = "start" => pending[i].o # None

\* Before the engine comes up no distance based session is to be restarted, ...
NotYetUp ==
    ups = 0 => /\ ~up /\ ~capsKnown
               /\ \A i \in 1..Len(msgQ) : msgQ[i].m # "engineUp"
               /\ \A i \in 1..Len(apiQ) : apiQ[i].op # "open" => apiQ[i].cb # "restart"

\* ... and after it none is refused.
Restarted ==
    Steady => \A i \in 1..Len(msgQ) : msgQ[i].m = "resp" /\ msgQ[i].cb = "restart" => msgQ[i].ok

AnswerInv == NoneLost /\ GoodStarts /\ NotYetUp /\ Restarted

LEMMA NTyped ==
    ASSUME NEW X, NEW q \in Seq(X), NEW S
    PROVE  IsFiniteSet(Marked(q, S)) /\ N(q, S) \in Nat
<1>1. Len(q) \in Nat
  OBVIOUS
<1>2. IsFiniteSet(1..Len(q))
  BY <1>1, FS_Interval
<1>3. Marked(q, S) \in SUBSET (1..Len(q))
  BY DEF Marked
<1>4. IsFiniteSet(Marked(q, S))
  BY <1>2, <1>3, FS_Subset
<1> QED
  BY <1>4, FS_CardinalityType DEF N

LEMMA NNone ==
    ASSUME NEW q, NEW S, \A i \in 1..Len(q) : q[i] \notin S
    PROVE  N(q, S) = 0
<1>1. Marked(q, S) = {}
  BY DEF Marked
<1> QED
  BY <1>1, FS_EmptySet DEF N

LEMMA NOne ==
    ASSUME NEW x, NEW S
    PROVE  N(<<x>>, S) = IF x \in S THEN 1 ELSE 0
<1>1. PICK q : q = <<x>>
  OBVIOUS
<1>2. Len(q) = 1 /\ q[1] = x
  BY <1>1
<1>3. CASE x \in S
  <2>1. Marked(q, S) = {1}
    BY <1>2, <1>3 DEF Marked
  <2> QED
    BY <1>1, <1>3, <2>1, FS_Singleton DEF N
<1>4. CASE x \notin S
  BY <1>1, <1>2, <1>4, NNone
<1> QED
  BY <1>3, <1>4

LEMMA NConcat ==
    ASSUME NEW X, NEW q \in Seq(X), NEW r \in Seq(X), NEW S
    PROVE  N(q \o r, S) = N(q, S) + N(r, S)
<1>1. PICK w, n : w = q \o r /\ n = Len(q)
  OBVIOUS
<1>2. /\ n \in Nat /\ w \in Seq(X) /\ Len(r) \in Nat /\ Len(w) = n + Len(r)
      /\ \A i \in 1..n : w[i] = q[i]
      /\ \A i \in 1..Len(r) : w[i + n] = r[i]
  BY <1>1
<1> DEFINE A == Marked(q, S)
           B == Marked(r, S)
           C == {i \in (n + 1)..Len(w) : w[i] \in S}
<1>3. IsFiniteSet(A) /\ IsFiniteSet(B)
  BY NTyped
<1>4. ExistsBijection(B, C)
  <2> DEFINE f == [i \in B |-> i + n]
  <2>1. \A i \in B : i \in 1..Len(r) /\ r[i] \in S /\ i \in Int
    BY <1>2 DEF Marked
  <2>2. f \in [B -> C]
    <3> SUFFICES ASSUME NEW i \in B PROVE i + n \in C
      OBVIOUS
    <3> QED
      BY <1>2, <2>1
  <2>3. \A i, j \in B : f[i] = f[j] => i = j
    <3> SUFFICES ASSUME NEW i \in B, NEW j \in B, i + n = j + n PROVE i = j
      OBVIOUS
    <3> QED
      BY <1>2, <2>1
  <2>4. \A c \in C : \E i \in B : f[i] = c
    <3> SUFFICES ASSUME NEW c \in C PROVE \E i \in B : i + n = c
      OBVIOUS
    <3>1. c \in (n + 1)..Len(w) /\ w[c] \in S
      OBVIOUS
    <3>2. PICK i : i = c - n
      OBVIOUS
    <3>3. i \in 1..Len(r) /\ i + n = c
      BY <1>2, <3>1, <3>2
    <3>4. r[i] \in S
      BY <1>2, <3>1, <3>3
    <3> QED
      BY <3>3, <3>4 DEF Marked
  <2> HIDE DEF f
  <2>5. f \in Bijection(B, C)
    BY <2>2, <2>3, <2>4 DEF Bijection, Injection, Surjection, IsInjective
  <2> QED
    BY <2>5 DEF ExistsBijection
<1>5. IsFiniteSet(C) /\ Cardinality(C) = Cardinality(B)
  BY <1>3, <1>4, FS_Bijection
<1>6. Marked(w, S) = A \cup C
  <2>1. ASSUME NEW i \in Marked(w, S) PROVE i \in A \cup C
    BY <1>1, <1>2 DEF Marked
  <2>2. ASSUME NEW i \in A PROVE i \in Marked(w, S)
    BY <1>1, <1>2 DEF Marked
  <2>3. ASSUME NEW i \in C PROVE i \in Marked(w, S)
    BY <1>2 DEF Marked
  <2> QED
    BY <2>1, <2>2, <2>3
<1>7. A \cap C = {}
  BY <1>1, <1>2 DEF Marked
<1> HIDE DEF A, B, C
<1>8. Cardinality(A \cap C) = 0
  BY <1>7, FS_EmptySet
<1>9. Cardinality(A \cup C) = Cardinality(A) + Cardinality(C) - Cardinality(A \cap C)
  BY <1>3, <1>5, FS_Union
<1>10. Cardinality(A) \in Nat /\ Cardinality(B) \in Nat
  BY <1>3, FS_CardinalityType
<1>11. Cardinality(Marked(w, S)) = Cardinality(A) + Cardinality(B)
  BY <1>5, <1>6, <1>8, <1>9, <1>10
<1> QED
  BY <1>1, <1>11 DEF N, A, B

LEMMA NAppend ==
    ASSUME NEW X, NEW q \in Seq(X), NEW x \in X, NEW S
    PROVE  N(Append(q, x), S) = N(q, S) + (IF x \in S THEN 1 ELSE 0)
<1>1. PICK h : h = <<x>>
  OBVIOUS
<1>2. Append(q, x) = q \o h /\ h \in Seq(X)
  BY <1>1
<1>3. N(q \o h, S) = N(q, S) + N(h, S)
  BY <1>2, NConcat
<1>4. N(h, S) = IF x \in S THEN 1 ELSE 0
  BY <1>1, NOne
<1> QED
  BY <1>2, <1>3, <1>4

LEMMA NTail ==
    ASSUME NEW X, NEW q \in Seq(X), q # <<>>, NEW S
    PROVE  N(q, S) = N(Tail(q), S) + (IF Head(q) \in S THEN 1 ELSE 0)
<1>1. PICK t, x, h : t = Tail(q) /\ x = Head(q) /\ h = <<x>>
  OBVIOUS
<1>2. q = h \o t /\ t \in Seq(X) /\ h \in Seq(X)
  BY <1>1
<1>3. N(q, S) = N(h, S) + N(t, S)
  BY <1>2, NConcat
<1>4. N(h, S) = IF x \in S THEN 1 ELSE 0
  BY <1>1, NOne
<1>5. N(t, S) \in Nat
  BY <1>2, NTyped
<1> QED
  BY <1>1, <1>3, <1>4, <1>5

\* The command that an effect sends for session s waits for the client's answer.
Asks(e, s) ==
    /\ EffectTyped(e) /\ IsEffect(e)
    /\ \A x \in Sessions :
           N(e.cmds, Asking(x)) = IF e.rep = "later" /\ x = s THEN 1 ELSE 0

\* The client of s is told, or what it waits for is under way to the engine.
Settles(s) == \A x \in Sessions :
    /\ x # s => Due(x)' = Due(x)
    /\ x = s /\ Registered(s) => Due(x)' = Due(x) - 1

LEMMA CmdAsks ==
    ASSUME NEW op \in {"startTB", "stopFix", "startDB", "stopDB"}, NEW o \in OptionType,
           NEW cb \in Callback, NEW s \in Sessions, NEW co \in OptionType, NEW x
    PROVE  N(<<Cmd(op, o, cb, s, co)>>, Asking(x))
              = IF cb \notin {"none", "clean"} /\ x = s THEN 1 ELSE 0
<1>1. PICK c : c = Cmd(op, o, cb, s, co)
  OBVIOUS
<1>2. c \in Command /\ c.op # "open" /\ c.cb = cb /\ c.s = s
  BY <1>1, CmdTyped DEF Cmd
<1>3. c \in Asking(x) <=> cb \notin {"none", "clean"} /\ x = s
  BY <1>2 DEF Asking
<1>4. N(<<c>>, Asking(x)) = IF c \in Asking(x) THEN 1 ELSE 0
  BY NOne
<1> QED
  BY <1>1, <1>3, <1>4

LEMMA EmptyAsks == \A S : N(<<>>, S) = 0
  BY NNone

LEMMA CoversAsks ==
    ASSUME speHigh \in BOOLEAN, NEW cb \in {"start", "update"}, NEW s \in Sessions,
           NEW co \in OptionType, NEW o, NEW e, Covers(e, cb, s, co, o)
    PROVE  Asks(e, s)
<1>1. cb \in Callback
  BY DEF Callback
<1>2. EffectTyped(e)
  BY <1>1, CoversTyped
<1>3. CASE Silent(e)
  BY <1>2, <1>3, EmptyAsks DEF Asks, Silent
<1>4. CASE \E p \in OptionType : Runs(e, cb, s, co, p)
  <2>1. PICK p \in OptionType : Runs(e, cb, s, co, p)
    BY <1>4
  <2>2. /\ IsEffect(e) /\ e.rep = "later"
        /\ e.cmds = <<Cmd("startTB", p, cb, s, co)>>
    BY <2>1 DEF Runs
  <2>3. \A x \in Sessions : N(e.cmds, Asking(x)) = IF x = s THEN 1 ELSE 0
    BY <1>1, <2>2, CmdAsks
  <2> QED
    BY <1>2, <2>2, <2>3 DEF Asks
<1> QED
  BY <1>3, <1>4 DEF Covers, Fast

LEMMA FreesAsks ==
    ASSUME speHigh \in BOOLEAN, NEW s \in Sessions, NEW e, Frees(e, s)
    PROVE  Asks(e, s)
<1>1. None \in OptionType /\ {"start", "stop"} \subseteq Callback
  BY NoneTyped DEF Callback
<1>2. EffectTyped(e)
  BY FreesTyped
<1>3. CASE Silent(e)
  BY <1>2, <1>3, EmptyAsks DEF Asks, Silent
<1>4. CASE \E p \in OptionType : Runs(e, "start", s, None, p)
  <2>1. PICK p \in OptionType : Runs(e, "start", s, None, p)
    BY <1>4
  <2>2. /\ IsEffect(e) /\ e.rep = "later"
        /\ e.cmds = <<Cmd("startTB", p, "start", s, None)>>
    BY <2>1 DEF Runs
  <2>3. \A x \in Sessions : N(e.cmds, Asking(x)) = IF x = s THEN 1 ELSE 0
    BY <1>1, <2>2, CmdAsks
  <2> QED
    BY <1>2, <2>2, <2>3 DEF Asks
<1>5. CASE Ends(e, s)
  BY <1>1, <1>2, <1>5, CmdAsks DEF Ends, Asks
<1> QED
  BY <1>3, <1>4, <1>5 DEF Frees

\* A command without an answer to the client follows.
LEMMA AppendAsks ==
    ASSUME NEW s \in Sessions, NEW e, Asks(e, s), NEW o \in OptionType
    PROVE  Asks([e EXCEPT !.cmds = Append(@, Cmd("startDB", o, "none", s, None))], s)
<1>1. PICK c, f : /\ c = Cmd("startDB", o, "none", s, None)
                  /\ f = [e EXCEPT !.cmds = Append(@, Cmd("startDB", o, "none", s, None))]
  OBVIOUS
<1>2. c \in Command
  BY <1>1, CmdTyped, NoneTyped DEF Callback
<1>3. IsEffect(f) /\ f.cmds = Append(e.cmds, c) /\ f.rep = e.rep /\ f.spe = e.spe
  BY <1>1 DEF Asks, IsEffect
<1>4. EffectTyped(f)
  BY <1>2, <1>3, AppendFacts DEF Asks, EffectTyped
<1>5. ASSUME NEW x \in Sessions PROVE N(f.cmds, Asking(x)) = N(e.cmds, Asking(x))
  <2>1. c \notin Asking(x)
    BY <1>1 DEF Asking, Cmd
  <2>2. e.cmds \in Seq(Command)
    BY DEF Asks, EffectTyped
  <2>3. N(Append(e.cmds, c), Asking(x)) = N(e.cmds, Asking(x)) + 0
    BY <1>2, <2>1, <2>2, NAppend
  <2>4. N(e.cmds, Asking(x)) \in Nat
    BY <2>2, NTyped
  <2> QED
    BY <1>3, <2>3, <2>4
<1>6. Asks(f, s)
  BY <1>3, <1>4, <1>5 DEF Asks
<1> QED
  BY <1>1, <1>6

\* Commands r follow those under way.
LEMMA SentDue ==
    ASSUME TypedInv, NEW r \in Seq(Command), apiQ' = apiQ \o r, NEW x \in Sessions
    PROVE  /\ N(r, Asking(x)) \in Int /\ owed[x] \in Int /\ N(apiQ, Asking(x)) \in Int
           /\ Due(x)' = owed'[x] - (N(apiQ, Asking(x)) + N(r, Asking(x)))
<1>1. apiQ \in Seq(Command) /\ owed[x] \in Int
  BY DEF TypedInv, TypeOK
<1>2. PICK q : q = apiQ
  OBVIOUS
<1>3. N(q \o r, Asking(x)) = N(q, Asking(x)) + N(r, Asking(x))
  BY <1>1, <1>2, NConcat
<1>4. N(q, Asking(x)) \in Nat /\ N(r, Asking(x)) \in Nat
  BY <1>1, <1>2, NTyped
<1>5. TypedInv
  OBVIOUS
<1>6. Due(x)' = owed'[x] - N(q \o r, Asking(x))
  BY <1>2 DEF Due
<1> QED
  BY <1>1, <1>2, <1>3, <1>4, <1>6

LEMMA ApplySettles ==
    ASSUME TypedInv, NEW s \in Sessions, NEW e, Asks(e, s), Apply(e, s)
    PROVE  Settles(s)
<1>1. /\ apiQ' = apiQ \o e.cmds /\ e.cmds \in Seq(Command)
      /\ IF e.rep = "later" THEN owed' = owed ELSE Report(s)
  BY DEF Apply, Asks, EffectTyped, NoReport
<1>2. ASSUME NEW x \in Sessions
      PROVE  /\ x # s => Due(x)' = Due(x)
             /\ x = s /\ Registered(s) => Due(x)' = Due(x) - 1
  <2>1. /\ owed[x] \in Int /\ N(apiQ, Asking(x)) \in Int
        /\ Due(x)' = owed'[x] - (N(apiQ, Asking(x)) + N(e.cmds, Asking(x)))
    BY <1>1, SentDue
  <2>2. N(e.cmds, Asking(x)) = IF e.rep = "later" /\ x = s THEN 1 ELSE 0
    BY DEF Asks
  <2>3. owed \in [Sessions -> Int]
    BY DEF TypedInv, TypeOK
  <2>4. /\ x # s => owed'[x] = owed[x]
        /\ x = s /\ Registered(s) /\ e.rep # "later" => owed'[x] = owed[x] - 1
        /\ e.rep = "later" => owed'[x] = owed[x]
    BY <1>1, <2>3 DEF Report
  <2>5. Due(x) = owed[x] - N(apiQ, Asking(x))
    BY DEF Due
  <2> QED
    BY <2>1, <2>2, <2>4, <2>5
<1> QED
  BY <1>2 DEF Settles

LEMMA ReportSettles ==
    ASSUME TypedInv, NEW s \in Sessions, Report(s), apiQ' = apiQ
    PROVE  Settles(s)
<1>1. owed \in [Sessions -> Int] /\ \A x \in Sessions : N(apiQ, Asking(x)) \in Nat
  BY NTyped DEF TypedInv, TypeOK
<1>2. \A x \in Sessions : /\ x # s => owed'[x] = owed[x]
                          /\ x = s /\ Registered(s) => owed'[x] = owed[x] - 1
  BY <1>1 DEF Report
<1>3. \A x \in Sessions : Due(x)' = owed'[x] - N(apiQ, Asking(x))
  BY DEF Due
<1>4. \A x \in Sessions : owed[x] \in Int
  BY <1>1
<1> QED
  BY <1>1, <1>2, <1>3, <1>4 DEF Settles, Due

LEMMA SendSettles ==
    ASSUME TypedInv, NEW op \in {"startDB", "stopDB"}, NEW o \in OptionType,
           NEW cb \in Callback \ {"none", "clean"}, NEW s \in Sessions, NEW co \in OptionType,
           Send(Cmd(op, o, cb, s, co)), NoReport
    PROVE  Settles(s)
<1>1. PICK c, r : c = Cmd(op, o, cb, s, co) /\ r = <<c>>
  OBVIOUS
<1>2. c \in Command /\ r \in Seq(Command) /\ apiQ \in Seq(Command)
  BY <1>1, CmdTyped DEF TypedInv, TypeOK
<1>3. apiQ' = apiQ \o r /\ owed' = owed
  BY <1>1, <1>2 DEF Send, NoReport
<1>4. ASSUME NEW x \in Sessions
      PROVE  /\ x # s => Due(x)' = Due(x)
             /\ x = s /\ Registered(s) => Due(x)' = Due(x) - 1
  <2>1. /\ owed[x] \in Int /\ N(apiQ, Asking(x)) \in Int
        /\ Due(x)' = owed'[x] - (N(apiQ, Asking(x)) + N(r, Asking(x)))
    BY <1>2, <1>3, SentDue
  <2>2. N(r, Asking(x)) = IF x = s THEN 1 ELSE 0
    BY <1>1, CmdAsks
  <2>3. Due(x) = owed[x] - N(apiQ, Asking(x))
    BY DEF Due
  <2> QED
    BY <1>3, <2>1, <2>2, <2>3
<1> QED
  BY <1>4 DEF Settles

\* What a step may do to the balance of a session.
Balanced == \A x \in Sessions :
    /\ ClientOf[x] \in clients \ removing => Balance(x)' >= Balance(x)
    /\ Thorough /\ AnswerInv /\ Steady /\ Registered(x) => Balance(x)' <= Balance(x)

LEMMA BalanceTyped ==
    ASSUME TypedInv, NEW x \in Sessions
    PROVE  /\ owed[x] \in Int /\ N(apiQ, Asking(x)) \in Nat /\ N(msgQ, Awaited(x)) \in Nat
           /\ N(pending, Awaited(x)) \in Nat /\ Due(x) \in Int /\ Balance(x) \in Int
<1>1. owed[x] \in Int
  BY DEF TypedInv, TypeOK
<1>2. N(apiQ, Asking(x)) \in Nat /\ N(msgQ, Awaited(x)) \in Nat /\ N(pending, Awaited(x)) \in Nat
  BY NTyped DEF TypedInv, TypeOK
<1> QED
  BY <1>1, <1>2 DEF Due, Balance

LEMMA BalanceStaysInt ==
    ASSUME TypedInv', NEW x \in Sessions
    PROVE  Balance(x)' \in Int
<1>1. owed'[x] \in Int
  BY DEF TypedInv, TypeOK
<1>2. N(apiQ', Asking(x)) \in Nat /\ N(msgQ', Awaited(x)) \in Nat /\ N(pending', Awaited(x)) \in Nat
  BY NTyped DEF TypedInv, TypeOK
<1> QED
  BY <1>1, <1>2 DEF Due, Balance

LEMMA TakeCounts ==
    ASSUME TypedInv, msgQ # <<>>, Take, NEW x
    PROVE  /\ N(msgQ, Awaited(x)) = N(msgQ', Awaited(x))
                                      + (IF Head(msgQ) \in Awaited(x) THEN 1 ELSE 0)
           /\ N(msgQ', Awaited(x)) \in Nat
<1>1. PICK q, t : q = msgQ /\ t = Tail(msgQ)
  OBVIOUS
<1>2. q \in Seq(Message) /\ q # <<>> /\ t = Tail(q) /\ t \in Seq(Message) /\ msgQ' = t
  BY <1>1 DEF TypedInv, TypeOK, Take
<1>3. N(q, Awaited(x)) = N(t, Awaited(x)) + (IF Head(q) \in Awaited(x) THEN 1 ELSE 0)
  BY <1>2, NTail
<1>4. N(t, Awaited(x)) \in Nat
  BY <1>2, NTyped
<1> QED
  BY <1>1, <1>2, <1>3, <1>4

\* Whose message it is.
LEMMA HeadAwaited ==
    ASSUME TypedInv, NEW kind, Arrived(kind), NEW x
    PROVE  Head(msgQ) \in Awaited(x) <=>
              \/ kind \in {"start", "update", "stop"} /\ Head(msgQ).s = x
              \/ kind = "resp" /\ Head(msgQ).cb \notin {"none", "clean"} /\ Head(msgQ).s = x
<1>1. Head(msgQ) \in Message /\ Head(msgQ).m = kind
  BY HeadTyped
<1> QED
  BY <1>1 DEF Awaited

\* The message or answer for session s is handled.
LEMMA HandledBalance ==
    ASSUME TypedInv, msgQ # <<>>, Take, UNCHANGED pending, NEW s \in Sessions, Settles(s),
           \A x \in Sessions : Head(msgQ) \in Awaited(x) <=> x = s
    PROVE  Balanced
<1>1. ASSUME NEW x \in Sessions, Registered(x) PROVE Balance(x)' = Balance(x)
  <2>1. /\ N(msgQ, Awaited(x)) = N(msgQ', Awaited(x)) + (IF x = s THEN 1 ELSE 0)
        /\ N(msgQ', Awaited(x)) \in Nat
    BY TakeCounts
  <2>2. Due(x)' = IF x = s THEN Due(x) - 1 ELSE Due(x)
    BY <1>1 DEF Settles
  <2>3. Balance(x)' = Due(x)' - N(msgQ', Awaited(x)) - N(pending, Awaited(x))
    BY DEF Balance
  <2>4. Balance(x) = Due(x) - N(msgQ, Awaited(x)) - N(pending, Awaited(x))
    BY DEF Balance
  <2>5. Due(x) \in Int /\ N(pending, Awaited(x)) \in Nat
    BY BalanceTyped
  <2> QED
    BY <2>1, <2>2, <2>3, <2>4, <2>5
<1>2. \A x \in Sessions : ClientOf[x] \in clients \ removing => Registered(x)
  BY DEF Registered
<1>3. \A x \in Sessions : Balance(x) \in Int
  BY BalanceTyped
<1> QED
  BY <1>1, <1>2, <1>3 DEF Balanced

\* A message that nobody waits for is handled, or nothing is sent.
LEMMA UnnoticedBalance ==
    ASSUME TypedInv, msgQ # <<>>, Take, UNCHANGED <<pending, owed>>,
           \A x \in Sessions : /\ Head(msgQ) \notin Awaited(x)
                               /\ N(apiQ', Asking(x)) = N(apiQ, Asking(x))
    PROVE  Balanced
<1>1. ASSUME NEW x \in Sessions PROVE Balance(x)' = Balance(x) /\ Balance(x) \in Int
  <2>1. N(msgQ, Awaited(x)) = N(msgQ', Awaited(x)) /\ N(msgQ', Awaited(x)) \in Nat
    BY TakeCounts
  <2>2. Due(x)' = Due(x)
    BY DEF Due
  <2> QED
    BY <2>1, <2>2, BalanceTyped DEF Balance
<1> QED
  BY <1>1 DEF Balanced

\* The message or answer for session s is dropped, and nobody told: this can only lose
\* an answer, and no command of a registered client is lost while all goes well.
LEMMA DroppedBalance ==
    ASSUME TypedInv, msgQ # <<>>, Take, UNCHANGED <<pending, owed, apiQ>>, NEW s \in Sessions,
           \A x \in Sessions : Head(msgQ) \in Awaited(x) <=> x = s,
           ~(Thorough /\ AnswerInv /\ Steady /\ Registered(s))
    PROVE  Balanced
<1>1. ASSUME NEW x \in Sessions
      PROVE  /\ Balance(x)' = (IF x = s THEN Balance(x) + 1 ELSE Balance(x))
             /\ Balance(x) \in Int
  <2>1. /\ N(msgQ, Awaited(x)) = N(msgQ', Awaited(x)) + (IF x = s THEN 1 ELSE 0)
        /\ N(msgQ', Awaited(x)) \in Nat
    BY TakeCounts
  <2>2. Due(x)' = Due(x)
    BY DEF Due
  <2>3. Balance(x)' = Due(x) - N(msgQ', Awaited(x)) - N(pending, Awaited(x))
    BY <2>2 DEF Balance
  <2>4. Balance(x) = Due(x) - N(msgQ, Awaited(x)) - N(pending, Awaited(x))
    BY DEF Balance
  <2>5. Due(x) \in Int /\ N(pending, Awaited(x)) \in Nat
    BY BalanceTyped
  <2> QED
    BY <2>1, <2>3, <2>4, <2>5
<1>2. ASSUME NEW x \in Sessions PROVE Balance(x)' >= Balance(x) /\ (x # s => Balance(x)' <= Balance(x))
  BY <1>1
<1> QED
  BY <1>2 DEF Balanced

LEMMA DeferBalance ==
    ASSUME TypedInv, NEW kind, Arrived(kind), Take, Defer
    PROVE  Balanced
<1>1. PICK h, p : h = Head(msgQ) /\ p = pending
  OBVIOUS
<1>2. h \in Message /\ p \in Seq(Message) /\ pending' = Append(p, h) /\ UNCHANGED <<apiQ, owed>>
      /\ msgQ # <<>>
  BY <1>1, HeadTyped DEF TypedInv, TypeOK, Defer, Idle, NoReport
<1>3. ASSUME NEW x \in Sessions PROVE Balance(x)' = Balance(x) /\ Balance(x) \in Int
  <2>1. PICK S : S = Awaited(x)
    OBVIOUS
  <2>2. /\ N(msgQ, S) = N(msgQ', S) + (IF h \in S THEN 1 ELSE 0)
        /\ N(msgQ', S) \in Nat
    BY <1>1, <1>2, <2>1, TakeCounts
  <2>3. N(Append(p, h), S) = N(p, S) + (IF h \in S THEN 1 ELSE 0) /\ N(p, S) \in Nat
    BY <1>2, NAppend, NTyped
  <2>4. Due(x)' = Due(x) /\ Due(x) \in Int /\ Balance(x) \in Int
    BY <1>2, BalanceTyped DEF Due
  <2>5. Balance(x) = Due(x) - N(msgQ, S) - N(p, S)
    BY <1>1, <2>1 DEF Balance
  <2>6. Balance(x)' = Due(x) - N(msgQ', S) - N(Append(p, h), S)
    BY <1>2, <2>1, <2>4 DEF Balance
  <2> QED
    BY <2>2, <2>3, <2>4, <2>5, <2>6
<1> QED
  BY <1>3 DEF Balanced

LEMMA StartBalance ==
    ASSUME TypedInv, ProcStart
    PROVE  Balanced
<1> DEFINE s == Head(msgQ).s
           o == Raise(Head(msgQ).o)
<1>1. Arrived("start") /\ Take
  BY DEF ProcStart
<1>2. s \in Sessions /\ o \in OptionType /\ msgQ # <<>>
      /\ \A x \in Sessions : Head(msgQ) \in Awaited(x) <=> x = s
  BY <1>1, HeadTyped, HeadAwaited, RaiseTyped
<1>3. CASE Defer
  BY <1>1, <1>3, DeferBalance
<1>4. CASE /\ UNCHANGED pending /\ Idle /\ NoReport
           /\ ~Registered(s) \/ ClientOf[s] \in Mute \/ Head(msgQ).o = None
  <2>1. GoodStarts => Head(msgQ).o # None
    BY <1>1, HeadTyped, HeadTail DEF GoodStarts
  <2>2. ~(Thorough /\ AnswerInv /\ Steady /\ Registered(s))
    BY <1>4, <2>1 DEF Thorough, AnswerInv
  <2> QED
    BY <1>1, <1>2, <1>4, <2>2, DroppedBalance DEF Idle, NoReport
<1>5. CASE UNCHANGED pending /\ Send(Cmd("startDB", o, "dstart", s, None)) /\ NoReport
  BY <1>1, <1>2, <1>5, NoneTyped, SendSettles, HandledBalance DEF Callback
<1>6. CASE UNCHANGED pending /\ \E e \in startMultiplex(s, o) : Apply(e, s)
  <2>1. PICK e \in startMultiplex(s, o) : Apply(e, s)
    BY <1>6
  <2>2. Covers(e, "start", s, None, o)
    BY <1>2, <2>1, MapsPair, startMultiplexFacts DEF TypedInv, TypeOK
  <2>3. Asks(e, s)
    BY <1>2, <2>2, FlagsAreTyped, NoneTyped, CoversAsks DEF FlagsTyped
  <2>4. Settles(s)
    BY <1>2, <2>1, <2>3, ApplySettles
  <2> QED
    BY <1>1, <1>2, <1>6, <2>4, HandledBalance
<1> QED
  BY <1>3, <1>4, <1>5, <1>6 DEF ProcStart

LEMMA UpdateBalance ==
    ASSUME TypedInv, ProcUpdate
    PROVE  Balanced
<1> DEFINE s == Head(msgQ).s
           o == Raise(Head(msgQ).o)
<1>1. Arrived("update") /\ Take
  BY DEF ProcUpdate
<1>2. s \in Sessions /\ o \in OptionType /\ msgQ # <<>>
      /\ \A x \in Sessions : Head(msgQ) \in Awaited(x) <=> x = s
  BY <1>1, HeadTyped, HeadAwaited, RaiseTyped
<1>3. CASE Defer
  BY <1>1, <1>3, DeferBalance
<1>4. CASE UNCHANGED pending /\ Idle /\ Report(s)
  BY <1>1, <1>2, <1>4, ReportSettles, HandledBalance DEF Idle
<1>5. CASE UNCHANGED pending /\ Update(s, o)
  <2>1. ASSUME s \in DOMAIN tb, NEW e \in stopMultiplex(s),
               Apply([e EXCEPT !.cmds = Append(@, Cmd("startDB", o, "none", s, None))], s)
        PROVE  Settles(s)
    <3>1. Frees(e, s)
      BY <2>1, MapsPair, stopMultiplexFacts DEF TypedInv, TypeOK
    <3>2. PICK f : f = [e EXCEPT !.cmds = Append(@, Cmd("startDB", o, "none", s, None))]
      OBVIOUS
    <3>3. Asks(e, s)
      BY <1>2, <3>1, FlagsAreTyped, FreesAsks DEF FlagsTyped
    <3>4. Asks(f, s)
      BY <1>2, <3>2, <3>3, AppendAsks
    <3> QED
      BY <1>2, <2>1, <3>2, <3>4, ApplySettles
  <2>2. ASSUME s \in DOMAIN tb, NEW e \in updateMultiplex(s, o), Apply(e, s)
        PROVE  Settles(s)
    <3>1. PICK co : co = tb[s]
      OBVIOUS
    <3>2. co \in OptionType
      BY <2>2, <3>1, MapsPair DEF MapTyped
    <3>3. Covers(e, "update", s, tb[s], o)
      BY <1>2, <2>2, MapsPair, updateMultiplexFacts DEF TypedInv, TypeOK
    <3>4. Asks(e, s)
      BY <1>2, <3>1, <3>2, <3>3, FlagsAreTyped, CoversAsks DEF FlagsTyped
    <3> QED
      BY <1>2, <2>2, <3>4, ApplySettles
  <2>3. ASSUME NEW cb \in {"toTimeBased", "restart"}, Send(Cmd("stopDB", None, cb, s, o)), NoReport
        PROVE  Settles(s)
    BY <1>2, <2>3, NoneTyped, SendSettles DEF Callback
  <2>4. Settles(s)
    BY <1>5, <2>1, <2>2, <2>3 DEF Update
  <2> QED
    BY <1>1, <1>2, <1>5, <2>4, HandledBalance
<1> QED
  BY <1>3, <1>4, <1>5 DEF ProcUpdate

LEMMA StopBalance ==
    ASSUME TypedInv, ProcStop
    PROVE  Balanced
<1> DEFINE s == Head(msgQ).s
<1>1. Arrived("stop") /\ Take /\ UNCHANGED pending
  BY DEF ProcStop
<1>2. s \in Sessions /\ msgQ # <<>>
      /\ \A x \in Sessions : Head(msgQ) \in Awaited(x) <=> x = s
  BY <1>1, HeadTyped, HeadAwaited
<1>3. ASSUME s \in DOMAIN tb, NEW e \in stopMultiplex(s), Apply(e, s)
      PROVE  Settles(s)
  BY <1>2, <1>3, MapsPair, stopMultiplexFacts, FlagsAreTyped, FreesAsks, ApplySettles
  DEF TypedInv, TypeOK, FlagsTyped
<1>4. CASE Send(Cmd("stopDB", None, "dstop", s, None)) /\ NoReport
  BY <1>1, <1>2, <1>4, NoneTyped, SendSettles, HandledBalance DEF Callback
<1>5. CASE Idle /\ Report(s)
  BY <1>1, <1>2, <1>5, ReportSettles, HandledBalance DEF Idle
<1>6. CASE s \in DOMAIN tb /\ \E e \in stopMultiplex(s) : Apply(e, s)
  BY <1>1, <1>2, <1>3, <1>6, HandledBalance
<1> QED
  BY <1>4, <1>5, <1>6 DEF ProcStop

LEMMA RemoveClientBalance ==
    ASSUME TypedInv, ProcRemoveClient
    PROVE  Balanced
<1>1. Arrived("remove") /\ Take /\ UNCHANGED <<pending, owed, apiQ>>
  BY DEF ProcRemoveClient
<1>2. msgQ # <<>> /\ \A x \in Sessions : Head(msgQ) \notin Awaited(x)
  BY <1>1, HeadTyped, HeadAwaited
<1> QED
  BY <1>1, <1>2, UnnoticedBalance

LEMMA RemoveTimeBasedBalance ==
    ASSUME TypedInv, RemoveTimeBased
    PROVE  Balanced
<1>1. PICK s \in Owned(tb) : \E e \in stopMultiplex(s) : Apply(Quietly(e), s)
  BY DEF RemoveTimeBased, Quietly
<1>2. PICK e \in stopMultiplex(s) : Apply(Quietly(e), s)
  BY <1>1
<1>3. UNCHANGED <<msgQ, pending>>
  BY DEF RemoveTimeBased
<1>4. s \in DOMAIN tb /\ s \in Sessions /\ ClientOf[s] \in removing
  BY MapsPair DEF Owned, MapTyped
<1>5. Frees(e, s)
  BY <1>2, <1>4, MapsPair, stopMultiplexFacts DEF TypedInv, TypeOK
<1>6. Asks(e, s)
  BY <1>4, <1>5, FlagsAreTyped, FreesAsks DEF FlagsTyped
<1>7. PICK f : f = Quietly(e)
  OBVIOUS
<1>8. f.cmds = e.cmds /\ f.rep \in {"self", "later"} \cup {e.rep}
  BY <1>6, <1>7 DEF Asks, IsEffect, Quietly
<1>9. e.cmds \in Seq(Command) /\ apiQ' = apiQ \o e.cmds
      /\ (owed' = owed \/ owed' = [owed EXCEPT ![s] = @ - 1])
  BY <1>2, <1>6, <1>7, <1>8 DEF Asks, EffectTyped, Apply, Report, NoReport
<1>10. ASSUME NEW x \in Sessions
       PROVE  /\ x # s => Balance(x)' = Balance(x)
              /\ Balance(x)' <= Balance(x) /\ Balance(x) \in Int
  <2>1. /\ owed[x] \in Int /\ N(apiQ, Asking(x)) \in Int
        /\ Due(x)' = owed'[x] - (N(apiQ, Asking(x)) + N(e.cmds, Asking(x)))
    BY <1>9, SentDue
  <2>2. N(e.cmds, Asking(x)) \in {0, 1} /\ (x # s => N(e.cmds, Asking(x)) = 0)
    BY <1>6 DEF Asks
  <2>3. owed \in [Sessions -> Int]
    BY DEF TypedInv, TypeOK
  <2>4. owed'[x] \in {owed[x], owed[x] - 1} /\ (x # s => owed'[x] = owed[x])
    BY <1>9, <2>3
  <2>5. Due(x) = owed[x] - N(apiQ, Asking(x))
    BY DEF Due
  <2>6. Due(x)' <= Due(x) /\ Due(x)' \in Int /\ (x # s => Due(x)' = Due(x))
    BY <2>1, <2>2, <2>4, <2>5
  <2>7. /\ Balance(x)' = Due(x)' - N(msgQ, Awaited(x)) - N(pending, Awaited(x))
        /\ Balance(x) = Due(x) - N(msgQ, Awaited(x)) - N(pending, Awaited(x))
    BY <1>3 DEF Balance
  <2>8. Due(x) \in Int /\ N(msgQ, Awaited(x)) \in Nat /\ N(pending, Awaited(x)) \in Nat
    BY BalanceTyped
  <2> QED
    BY <2>6, <2>7, <2>8
<1>11. ASSUME NEW x \in Sessions, ClientOf[x] \in clients \ removing PROVE Balance(x)' >= Balance(x)
  BY <1>4, <1>10, <1>11
<1> QED
  BY <1>10, <1>11 DEF Balanced

\* Commands r whose answers no client waits for follow those under way.
LEMMA UnnoticedCommands ==
    ASSUME NEW q \in Seq(Command), NEW r \in Seq(Command),
           \A i \in 1..Len(r) : r[i].cb \in {"none", "clean"}, NEW x
    PROVE  q \o r \in Seq(Command) /\ N(q \o r, Asking(x)) = N(q, Asking(x))
<1>1. \A i \in 1..Len(r) : r[i] \notin Asking(x)
  BY DEF Asking
<1>2. N(r, Asking(x)) = 0
  BY <1>1, NNone
<1>3. N(q, Asking(x)) \in Nat
  BY NTyped
<1> QED
  BY <1>2, <1>3, NConcat, ConcatFacts

LEMMA RemoveRestBalance ==
    ASSUME TypedInv, RemoveRest
    PROVE  Balanced
<1>1. PICK q \in DistanceCmds(Owned(db), "stopDB", "clean") : apiQ' = apiQ \o q
  BY DEF RemoveRest
<1>2. UNCHANGED <<msgQ, pending, owed>>
  BY DEF RemoveRest
<1>3. /\ q \in Seq(Command)
      /\ \A i \in 1..Len(q) : q[i] = Cmd("stopDB", db[q[i].s], "clean", q[i].s, None)
  BY MapsPair, OwnedDistance, DistanceCmdsFacts DEF Callback
<1>4. ASSUME NEW i \in 1..Len(q) PROVE q[i].cb = "clean"
  <2>1. PICK d, s : d = db[q[i].s] /\ s = q[i].s
    OBVIOUS
  <2>2. q[i] = Cmd("stopDB", d, "clean", s, None)
    BY <1>3, <2>1
  <2> QED
    BY <2>2 DEF Cmd
<1>5. ASSUME NEW x \in Sessions PROVE Balance(x)' = Balance(x) /\ Balance(x) \in Int
  BY <1>1, <1>2, <1>3, <1>4, UnnoticedCommands, BalanceTyped
  DEF TypedInv, TypeOK, Balance, Due
<1> QED
  BY <1>5 DEF Balanced

\* An answer of the engine for the client of session s is handled.
LEMMA ResponseBalance ==
    ASSUME TypedInv, NEW cb, cb \notin {"none", "clean"}, Response(cb), UNCHANGED pending,
           Settles(Head(msgQ).s)
    PROVE  Balanced
<1>1. Arrived("resp") /\ Take /\ Head(msgQ).cb = cb
  BY DEF Response
<1>2. PICK s : s = Head(msgQ).s
  OBVIOUS
<1>3. s \in Sessions /\ msgQ # <<>> /\ \A x : Head(msgQ) \in Awaited(x) <=> x = s
  BY <1>1, <1>2, HeadTyped, HeadAwaited
<1> QED
  BY <1>1, <1>2, <1>3, HandledBalance

LEMMA ReportedBalance ==
    ASSUME TypedInv, NEW cb, cb \notin {"none", "clean"}, Response(cb), UNCHANGED pending,
           Report(Head(msgQ).s), Idle
    PROVE  Balanced
<1>1. Head(msgQ).s \in Sessions
  BY HeadTyped DEF Response
<1>2. PICK s : s = Head(msgQ).s
  OBVIOUS
<1>3. Settles(s)
  BY <1>1, <1>2, ReportSettles DEF Idle
<1> QED
  BY <1>2, <1>3, ResponseBalance

LEMMA RespReportBalance ==
    ASSUME TypedInv, RespStart \/ RespUpdate \/ RespStop \/ RespRestarted
    PROVE  Balanced
<1>1. CASE RespStart
  <2>1. PICK cb \in {"start", "dstart"} : Response(cb)
    BY <1>1 DEF RespStart
  <2> QED
    BY <1>1, <2>1, ReportedBalance DEF RespStart
<1>2. CASE RespUpdate
  BY <1>2, ReportedBalance DEF RespUpdate, Frame
<1>3. CASE RespStop
  BY <1>3, ReportedBalance DEF RespStop, Frame
<1>4. CASE RespRestarted
  BY <1>4, ReportedBalance DEF RespRestarted, Frame
<1> QED
  BY <1>1, <1>2, <1>3, <1>4

LEMMA RespDistanceStopBalance ==
    ASSUME TypedInv, RespDistanceStop
    PROVE  Balanced
<1>1. PICK cb \in {"dstop", "clean"} : Response(cb)
  BY DEF RespDistanceStop
<1>2. Arrived("resp") /\ Take /\ Head(msgQ).cb = cb /\ Idle /\ UNCHANGED pending
  BY <1>1 DEF RespDistanceStop, Response, Frame
<1>3. CASE cb = "dstop"
  BY <1>1, <1>2, <1>3, ReportedBalance DEF RespDistanceStop
<1>4. CASE cb = "clean"
  BY <1>2, <1>4, HeadTyped, HeadAwaited, UnnoticedBalance
  DEF RespDistanceStop, Idle, NoReport
<1> QED
  BY <1>3, <1>4

LEMMA RespToTimeBasedBalance ==
    ASSUME TypedInv, RespToTimeBased
    PROVE  Balanced
<1> DEFINE r == Head(msgQ)
<1>1. Response("toTimeBased") /\ UNCHANGED pending
  BY DEF RespToTimeBased, Frame
<1>2. PICK e \in startMultiplex(r.s, r.co) : Apply(e, r.s)
  BY DEF RespToTimeBased
<1>3. r.s \in Sessions /\ r.co \in OptionType
  BY <1>1, HeadTyped DEF Response
<1>4. PICK s, o : s = r.s /\ o = r.co
  OBVIOUS
<1>5. Covers(e, "start", s, None, o)
  BY <1>2, <1>3, <1>4, MapsPair, startMultiplexFacts DEF TypedInv, TypeOK
<1>6. Asks(e, s)
  BY <1>3, <1>4, <1>5, FlagsAreTyped, NoneTyped, CoversAsks DEF FlagsTyped
<1>7. Settles(s)
  BY <1>2, <1>3, <1>4, <1>6, ApplySettles
<1> QED
  BY <1>1, <1>4, <1>7, ResponseBalance

LEMMA RespRestartBalance ==
    ASSUME TypedInv, RespRestart
    PROVE  Balanced
<1> DEFINE r == Head(msgQ)
<1>1. Response("restart") /\ UNCHANGED pending /\ NoReport
      /\ IF r.ok THEN Send(Cmd("startDB", r.co, "restarted", r.s, r.co)) ELSE Idle
  BY DEF RespRestart, Frame
<1>2. Arrived("resp") /\ Take /\ r.cb = "restart"
  BY <1>1 DEF Response
<1>3. r.s \in Sessions /\ r.co \in OptionType /\ msgQ # <<>>
      /\ \A x \in Sessions : Head(msgQ) \in Awaited(x) <=> x = r.s
  BY <1>2, HeadTyped, HeadAwaited
<1>4. CASE r.ok
  <2>1. PICK s, o : s = r.s /\ o = r.co
    OBVIOUS
  <2>2. Settles(s)
    BY <1>1, <1>3, <1>4, <2>1, SendSettles DEF Callback
  <2> QED
    BY <1>1, <2>1, <2>2, ResponseBalance
<1>5. CASE ~r.ok
  <2>1. Restarted /\ Steady => r.ok
    BY <1>2, HeadTyped, HeadTail DEF Restarted
  <2>2. ~(Thorough /\ AnswerInv /\ Steady /\ Registered(r.s))
    BY <1>5, <2>1 DEF AnswerInv
  <2> QED
    BY <1>1, <1>2, <1>3, <1>5, <2>2, DroppedBalance DEF Idle, NoReport
<1> QED
  BY <1>4, <1>5

\* Nobody waits for the sessions that are restarted.
LEMMA RestartAsks ==
    ASSUME TypedInv, NEW hz \in BOOLEAN, RestartSPE(hz), NEW x
    PROVE  N(apiQ', Asking(x)) = N(apiQ, Asking(x))
<1>1. PICK e \in RestartTimeBased(hz), q \in DistanceCmds(DOMAIN db, "startDB", "none") :
         apiQ' = apiQ \o e.cmds \o q
  BY DEF RestartSPE
<1>2. Restarts(e, hz) /\ e.cmds \in Seq(Command)
  BY MapsPair, RestartFacts, RestartsTyped DEF EffectTyped
<1>3. \A i \in 1..Len(e.cmds) : e.cmds[i].cb = "none"
  <2>1. CASE e.cmds = <<>>
    BY <2>1
  <2>2. ASSUME NEW p, NEW s, e.cmds = <<Cmd("startTB", p, "none", s, None)>>
        PROVE  \A i \in 1..Len(e.cmds) : e.cmds[i].cb = "none"
    <3>1. PICK c : c = Cmd("startTB", p, "none", s, None)
      OBVIOUS
    <3>2. c.cb = "none" /\ e.cmds = <<c>>
      BY <2>2, <3>1 DEF Cmd
    <3> QED
      BY <3>2
  <2> QED
    BY <1>2, <2>1, <2>2 DEF Restarts
<1>4. q \in Seq(Command) /\ \A i \in 1..Len(q) : q[i] = Cmd("startDB", db[q[i].s], "none", q[i].s, None)
  BY MapsPair, OwnedDistance, DistanceCmdsFacts DEF Callback
<1>5. ASSUME NEW i \in 1..Len(q) PROVE q[i].cb = "none"
  <2>1. PICK d, s : d = db[q[i].s] /\ s = q[i].s
    OBVIOUS
  <2>2. q[i] = Cmd("startDB", d, "none", s, None)
    BY <1>4, <2>1
  <2> QED
    BY <2>2 DEF Cmd
<1>6. PICK w : w = apiQ \o e.cmds
  OBVIOUS
<1>7. apiQ \in Seq(Command)
  BY DEF TypedInv, TypeOK
<1>8. w \in Seq(Command) /\ N(w, Asking(x)) = N(apiQ, Asking(x))
  BY <1>2, <1>3, <1>6, <1>7, UnnoticedCommands
<1>9. apiQ' = w \o q
  BY <1>1, <1>6
<1> QED
  BY <1>4, <1>5, <1>8, <1>9, UnnoticedCommands

LEMMA NHzBalance ==
    ASSUME TypedInv, ProcNHz
    PROVE  Balanced
<1>1. Arrived("nhz") /\ Take /\ RestartSPE(~nhz) /\ UNCHANGED <<pending, owed>>
  BY DEF ProcNHz
<1>b. (~nhz) \in BOOLEAN
  OBVIOUS
<1>2. \A x \in Sessions : N(apiQ', Asking(x)) = N(apiQ, Asking(x))
  BY <1>1, <1>b, RestartAsks
<1>3. msgQ # <<>> /\ \A x \in Sessions : Head(msgQ) \notin Awaited(x)
  BY <1>1, HeadTyped, HeadAwaited
<1> QED
  BY <1>1, <1>2, <1>3, UnnoticedBalance

LEMMA EngineUpBalance ==
    ASSUME TypedInv, ProcEngineUp
    PROVE  Balanced
<1>1. /\ Arrived("engineUp") /\ RestartSPE(nhz) /\ owed' = owed
      /\ msgQ' = Tail(msgQ) \o pending /\ pending' = <<>>
  BY DEF ProcEngineUp
<1>2. PICK q, t, p : q = msgQ /\ t = Tail(msgQ) /\ p = pending
  OBVIOUS
<1>3. q \in Seq(Message) /\ q # <<>> /\ p \in Seq(Message) /\ t = Tail(q) /\ t \in Seq(Message)
  BY <1>1, <1>2, HeadTyped, HeadTail DEF TypedInv, TypeOK
<1>4. ASSUME NEW x \in Sessions PROVE Balance(x)' = Balance(x) /\ Balance(x) \in Int
  <2>1. PICK S : S = Awaited(x)
    OBVIOUS
  <2>2. Head(q) \notin S
    BY <1>1, <1>2, <2>1, HeadAwaited
  <2>3. N(q, S) = N(t, S) + 0
    BY <1>3, <2>2, NTail
  <2>4. N(t \o p, S) = N(t, S) + N(p, S)
    BY <1>3, NConcat
  <2>5. N(q, S) \in Nat /\ N(t, S) \in Nat /\ N(p, S) \in Nat
    BY <1>3, NTyped
  <2>6. N(<<>>, S) = 0
    BY EmptyAsks
  <2>7. N(apiQ', Asking(x)) = N(apiQ, Asking(x))
    BY <1>1, FlagsAreTyped, RestartAsks DEF FlagsTyped
  <2>8. Due(x)' = Due(x) /\ Due(x) \in Int /\ Balance(x) \in Int
    BY <1>1, <2>7, BalanceTyped DEF Due
  <2>9. Balance(x) = Due(x) - N(q, S) - N(p, S)
    BY <1>2, <2>1 DEF Balance
  <2>10. Balance(x)' = Due(x) - N(t \o p, S) - N(<<>>, S)
    BY <1>1, <1>2, <2>1, <2>8 DEF Balance
  <2> QED
    BY <2>3, <2>4, <2>5, <2>6, <2>8, <2>9, <2>10
<1> QED
  BY <1>4 DEF Balanced

\* A message m comes behind the others; the client of s waits for one more answer if
\* it is a command.
LEMMA PostBalance ==
    ASSUME TypedInv, NEW m \in Message, Post(m), UNCHANGED <<pending, apiQ>>,
           NEW d \in [Sessions -> {0, 1}],
           \A x \in Sessions : /\ owed'[x] = owed[x] + d[x]
                               /\ m \in Awaited(x) <=> d[x] = 1
    PROVE  Balanced
<1>1. PICK q : q = msgQ
  OBVIOUS
<1>2. q \in Seq(Message) /\ msgQ' = Append(q, m)
  BY <1>1 DEF TypedInv, TypeOK, Post
<1>3. ASSUME NEW x \in Sessions PROVE Balance(x)' = Balance(x) /\ Balance(x) \in Int
  <2>1. PICK S : S = Awaited(x)
    OBVIOUS
  <2>2. N(Append(q, m), S) = N(q, S) + (IF m \in S THEN 1 ELSE 0)
    BY <1>2, NAppend
  <2>3. /\ N(q, S) \in Nat /\ N(pending, S) \in Nat /\ owed[x] \in Int
        /\ N(apiQ, Asking(x)) \in Nat /\ Balance(x) \in Int
    BY <1>1, <2>1, BalanceTyped
  <2>4. Balance(x) = (owed[x] - N(apiQ, Asking(x))) - N(q, S) - N(pending, S)
    BY <1>1, <2>1 DEF Balance, Due
  <2>5. Balance(x)' = ((owed[x] + d[x]) - N(apiQ, Asking(x))) - N(Append(q, m), S) - N(pending, S)
    BY <1>2, <2>1 DEF Balance, Due
  <2>6. d[x] \in {0, 1} /\ (m \in S <=> d[x] = 1)
    BY <2>1
  <2> QED
    BY <2>2, <2>3, <2>4, <2>5, <2>6
<1> QED
  BY <1>3 DEF Balanced

\* A client's command.
LEMMA AskBalance ==
    ASSUME TypedInv, NEW s \in Sessions, NEW o \in OptionType, Sent(s, o),
           NEW m \in Message, m.m \in {"start", "update", "stop"}, m.s = s, Post(m)
    PROVE  Balanced
<1> DEFINE d == [x \in Sessions |-> IF x = s THEN 1 ELSE 0]
<1>1. owed' = [owed EXCEPT ![s] = @ + 1] /\ UNCHANGED <<pending, apiQ>>
  BY DEF Sent, adapterVars
<1>2. owed \in [Sessions -> Int]
  BY DEF TypedInv, TypeOK
<1>3. \A x \in Sessions : owed[x] \in Int
  BY <1>2
<1>4. \A x \in Sessions : m \in Awaited(x) <=> x = s
  BY DEF Awaited
<1>5. \A x \in Sessions : owed'[x] = IF x = s THEN owed[x] + 1 ELSE owed[x]
  BY <1>1, <1>2
<1>6. d \in [Sessions -> {0, 1}] /\ \A x \in Sessions : d[x] = IF x = s THEN 1 ELSE 0
  OBVIOUS
<1>7. PICK e : e = d
  OBVIOUS
<1> HIDE DEF d
<1>8. \A x \in Sessions : owed'[x] = owed[x] + e[x] /\ (m \in Awaited(x) <=> e[x] = 1)
  BY <1>3, <1>4, <1>5, <1>6, <1>7
<1> QED
  BY <1>1, <1>6, <1>7, <1>8, PostBalance

\* A message that nobody waits for.
LEMMA SilentPostBalance ==
    ASSUME TypedInv, NEW m \in Message, m.m \in {"remove", "engineUp", "nhz"}, Post(m),
           UNCHANGED <<pending, owed>>,
           \A x \in Sessions : N(apiQ', Asking(x)) = N(apiQ, Asking(x))
    PROVE  Balanced
<1>1. PICK q : q = msgQ
  OBVIOUS
<1>2. q \in Seq(Message) /\ msgQ' = Append(q, m)
  BY <1>1 DEF TypedInv, TypeOK, Post
<1>3. ASSUME NEW x \in Sessions PROVE Balance(x)' = Balance(x) /\ Balance(x) \in Int
  <2>1. PICK S : S = Awaited(x)
    OBVIOUS
  <2>2. m \notin S
    BY <2>1 DEF Awaited
  <2>3. N(Append(q, m), S) = N(q, S) + 0 /\ N(q, S) \in Nat
    BY <1>2, <2>2, NAppend, NTyped
  <2>4. Due(x)' = Due(x)
    BY DEF Due
  <2>5. Balance(x)' = Due(x) - N(Append(q, m), S) - N(pending, S)
    BY <1>2, <2>1, <2>4 DEF Balance
  <2>6. Balance(x) = Due(x) - N(q, S) - N(pending, S)
    BY <1>1, <2>1 DEF Balance
  <2> QED
    BY <2>3, <2>5, <2>6, BalanceTyped
<1> QED
  BY <1>3 DEF Balanced

LEMMA ClientBalance ==
    ASSUME TypedInv,
           \/ \E s \in Sessions, o \in Options \cup {None} :
                 startTracking(s, o) \/ updateTrackingOptions(s, o)
           \/ \E s \in Sessions : stopTracking(s)
           \/ \E c \in Clients : removeClient(c)
    PROVE  Balanced
<1>1. ASSUME NEW s \in Sessions, NEW o \in Options \cup {None}, startTracking(s, o)
      PROVE  Balanced
  <2>1. PICK m : m = [m |-> "start", s |-> s, o |-> o]
    OBVIOUS
  <2>2. m \in Message /\ m.m = "start" /\ m.s = s /\ Post(m) /\ Sent(s, o)
    BY <1>1, <2>1 DEF Message, startTracking
  <2>3. o \in OptionType
    BY OptionAssumption, NoneTyped
  <2> QED
    BY <2>2, <2>3, AskBalance
<1>2. ASSUME NEW s \in Sessions, NEW o \in Options \cup {None}, updateTrackingOptions(s, o)
      PROVE  Balanced
  <2>1. PICK m, w : m = [m |-> "update", s |-> s, o |-> o] /\ w = IF o = None THEN want[s] ELSE o
    OBVIOUS
  <2>2. m \in Message /\ m.m = "update" /\ m.s = s /\ Post(m) /\ Sent(s, w)
    BY <1>2, <2>1 DEF Message, updateTrackingOptions
  <2>3. w \in OptionType
    BY <2>1, OptionAssumption, NoneTyped DEF TypedInv, TypeOK
  <2> QED
    BY <2>2, <2>3, AskBalance
<1>3. ASSUME NEW s \in Sessions, stopTracking(s)
      PROVE  Balanced
  <2>1. PICK m : m = [m |-> "stop", s |-> s]
    OBVIOUS
  <2>2. m \in Message /\ m.m = "stop" /\ m.s = s /\ Post(m) /\ Sent(s, None)
    BY <1>3, <2>1 DEF Message, stopTracking
  <2> QED
    BY <2>2, NoneTyped, AskBalance
<1>4. ASSUME NEW c \in Clients, removeClient(c)
      PROVE  Balanced
  <2>1. PICK m : m = [m |-> "remove", c |-> c]
    OBVIOUS
  <2>2. m \in Message /\ m.m = "remove" /\ Post(m) /\ UNCHANGED <<pending, owed, apiQ>>
    BY <1>4, <2>1 DEF Message, removeClient, adapterVars
  <2> QED
    BY <2>2, SilentPostBalance
<1> QED
  BY <1>1, <1>2, <1>3, <1>4

\* The answer takes the place of the command.
LEMMA AnswerBalance ==
    ASSUME TypedInv, Serve, NEW ok \in BOOLEAN, Answer(Head(apiQ), ok), UNCHANGED <<pending, owed>>
    PROVE  Balanced
<1>1. PICK q, c, t, w, r : /\ q = apiQ /\ c = Head(apiQ) /\ t = Tail(apiQ)
                           /\ w = msgQ /\ r = Answers(Head(apiQ), ok)
  OBVIOUS
<1>2. /\ q \in Seq(Command) /\ q # <<>> /\ apiQ' = t /\ t = Tail(q) /\ c = Head(q)
      /\ c \in Command /\ c.op # "open" /\ t \in Seq(Command)
      /\ c.cb \in Callback /\ c.s \in Sessions /\ c.co \in OptionType
  BY <1>1, ServeTyped, HeadTail
<1>3. w \in Seq(Message)
  BY <1>1 DEF TypedInv, TypeOK
<1>4. r \in Message /\ r.m = "resp" /\ r.cb = c.cb /\ r.s = c.s
  BY <1>1, <1>2 DEF Answers, Message
<1>5. msgQ' = IF c.cb = "none" THEN w ELSE Append(w, r)
  BY <1>1 DEF Answer, Answers, Post
<1>6. ASSUME NEW x \in Sessions PROVE Balance(x)' = Balance(x) /\ Balance(x) \in Int
  <2>1. PICK A, S : A = Asking(x) /\ S = Awaited(x)
    OBVIOUS
  <2>2. c \in A <=> c.cb \notin {"none", "clean"} /\ c.s = x
    BY <1>2, <2>1 DEF Asking
  <2>3. r \in S <=> c.cb \notin {"none", "clean"} /\ c.s = x
    BY <1>4, <2>1 DEF Awaited
  <2>4. N(q, A) = N(t, A) + (IF c \in A THEN 1 ELSE 0)
    BY <1>2, NTail
  <2>5. N(Append(w, r), S) = N(w, S) + (IF r \in S THEN 1 ELSE 0)
    BY <1>3, <1>4, NAppend
  <2>6. N(q, A) \in Nat /\ N(t, A) \in Nat /\ N(w, S) \in Nat
    BY <1>2, <1>3, NTyped
  <2>7. N(msgQ', S) = N(w, S) + (IF c \in A THEN 1 ELSE 0)
    BY <1>5, <2>2, <2>3, <2>5, <2>6
  <2>8. owed[x] \in Int /\ N(pending, S) \in Nat /\ Balance(x) \in Int
    BY <2>1, BalanceTyped
  <2>9. Balance(x) = (owed[x] - N(q, A)) - N(w, S) - N(pending, S)
    BY <1>1, <2>1 DEF Balance, Due
  <2>10. Balance(x)' = (owed[x] - N(t, A)) - N(msgQ', S) - N(pending, S)
    BY <1>2, <2>1 DEF Balance, Due
  <2> QED
    BY <2>4, <2>6, <2>7, <2>8, <2>9, <2>10
<1> QED
  BY <1>6 DEF Balanced

LEMMA EngineEventBalance ==
    ASSUME TypedInv, EngineDown \/ handleEngineDownEvent \/ EngineUp \/ NHzRequirement
    PROVE  Balanced
<1>1. apiQ \in Seq(Command) /\ UNCHANGED <<pending, owed>>
  BY DEF EngineDown, handleEngineDownEvent, EngineUp, NHzRequirement, adapterVars, TypedInv, TypeOK
<1>2. PICK c, q : c = OpenMsg /\ q = apiQ
  OBVIOUS
<1>3. c \in Command /\ c.op = "open" /\ q \in Seq(Command)
  BY <1>1, <1>2 DEF OpenMsg, Command
<1>4. CASE EngineDown \/ handleEngineDownEvent
  <2>1. msgQ' = msgQ /\ (apiQ' = q \/ apiQ' = Append(q, c))
    BY <1>2, <1>4 DEF EngineDown, handleEngineDownEvent
  <2>2. ASSUME NEW x \in Sessions PROVE Balance(x)' = Balance(x) /\ Balance(x) \in Int
    <3>1. PICK A : A = Asking(x)
      OBVIOUS
    <3>2. c \notin A
      BY <1>3, <3>1 DEF Asking
    <3>3. N(Append(q, c), A) = N(q, A) + 0 /\ N(q, A) \in Nat
      BY <1>3, <3>2, NAppend, NTyped
    <3>4. N(apiQ', A) = N(q, A)
      <4>1. CASE apiQ' = q
        BY <4>1
      <4>2. CASE apiQ' = Append(q, c)
        BY <3>3, <4>2
      <4> QED
        BY <2>1, <4>1, <4>2
    <3> QED
      BY <1>1, <1>2, <2>1, <3>1, <3>4, BalanceTyped DEF Balance, Due
  <2> QED
    BY <2>2 DEF Balanced
<1>5. CASE EngineUp
  <2>1. PICK m : m = [m |-> "engineUp"]
    OBVIOUS
  <2>2. m \in Message /\ m.m = "engineUp" /\ Post(m)
    BY <1>5, <2>1 DEF Message, EngineUp
  <2>3. q # <<>> /\ apiQ' = Tail(q) /\ Head(q).op = "open"
    BY <1>2, <1>5 DEF EngineUp
  <2>4. ASSUME NEW x \in Sessions PROVE N(apiQ', Asking(x)) = N(apiQ, Asking(x))
    <3>1. Head(q) \notin Asking(x)
      BY <2>3 DEF Asking
    <3>2. Tail(q) \in Seq(Command)
      BY <1>3, <2>3, HeadTail
    <3>3. N(q, Asking(x)) = N(Tail(q), Asking(x)) + 0 /\ N(Tail(q), Asking(x)) \in Nat
      BY <1>3, <2>3, <3>1, <3>2, NTail, NTyped
    <3> QED
      BY <1>2, <2>3, <3>3
  <2> QED
    BY <1>1, <2>2, <2>4, SilentPostBalance
<1>6. CASE NHzRequirement
  <2>1. PICK m : m = [m |-> "nhz"]
    OBVIOUS
  <2>2. m \in Message /\ m.m = "nhz" /\ Post(m) /\ UNCHANGED apiQ
    BY <1>6, <2>1 DEF Message, NHzRequirement
  <2> QED
    BY <1>1, <2>2, SilentPostBalance
<1> QED
  BY <1>4, <1>5, <1>6

LEMMA StepBalance ==
    ASSUME TypedInv, [Next]_vars
    PROVE  Balanced
<1>1. CASE Proc
  BY <1>1, StartBalance, UpdateBalance, StopBalance, RemoveClientBalance,
     RemoveTimeBasedBalance, RemoveRestBalance, RespReportBalance, RespDistanceStopBalance,
     RespToTimeBasedBalance, RespRestartBalance, EngineUpBalance, NHzBalance
  DEF Proc
<1>2. CASE \/ \E s \in Sessions, o \in Options \cup {None} :
                 startTracking(s, o) \/ updateTrackingOptions(s, o)
           \/ \E s \in Sessions : stopTracking(s)
           \/ \E c \in Clients : removeClient(c)
  BY <1>2, ClientBalance
<1>3. CASE EngineDone \/ EngineRefuses
  BY <1>3, AnswerBalance DEF EngineDone, EngineRefuses, adapterVars
<1>4. CASE EngineDown \/ handleEngineDownEvent \/ EngineUp \/ NHzRequirement
  BY <1>4, EngineEventBalance
<1>5. CASE UNCHANGED vars
  BY <1>5, BalanceTyped DEF vars, Balance, Due, Balanced
<1> QED
  BY <1>1, <1>2, <1>3, <1>4, <1>5 DEF Next

-----------------------------------------------------------------------------
(* Clients only leave, and the engine is steady only if it was. *)

LEMMA ClientsLeave ==
    ASSUME TypedInv, [Next]_vars
    PROVE  clients' \subseteq clients /\ clients' \ removing' \subseteq clients \ removing
<1>1. CASE RemoveRest
  BY <1>1 DEF RemoveRest
<1>2. CASE ProcRemoveClient
  BY <1>2 DEF ProcRemoveClient, Arrived
<1>3. CASE UNCHANGED <<clients, removing>>
  BY <1>3
<1>4. CASE Proc /\ ~RemoveRest /\ ~ProcRemoveClient
  BY <1>3, <1>4 DEF Proc, ProcStart, ProcUpdate, ProcStop, RemoveTimeBased, RespStart,
     RespUpdate, RespStop, RespDistanceStop, RespToTimeBased, RespRestart, RespRestarted,
     ProcEngineUp, ProcNHz, Frame
<1>5. CASE \/ \E s \in Sessions, o \in Options \cup {None} :
                 startTracking(s, o) \/ updateTrackingOptions(s, o)
           \/ \E s \in Sessions : stopTracking(s)
           \/ \E c \in Clients : removeClient(c)
  BY <1>3, <1>5 DEF startTracking, updateTrackingOptions, stopTracking, removeClient, Sent,
     adapterVars
<1>6. CASE EngineDone \/ EngineRefuses \/ EngineDown \/ handleEngineDownEvent \/ EngineUp
           \/ NHzRequirement
  BY <1>3, <1>6 DEF EngineDone, EngineRefuses, EngineDown, handleEngineDownEvent, EngineUp,
     NHzRequirement, adapterVars
<1> QED
  BY <1>1, <1>2, <1>3, <1>4, <1>5, <1>6 DEF Next, vars

LEMMA SteadyBefore ==
    ASSUME TypedInv, [Next]_vars, Steady'
    PROVE  Steady
<1>1. ups \in Nat
  BY DEF TypedInv, TypeOK
<1>2. CASE UNCHANGED <<up, ups>>
  BY <1>2 DEF Steady
<1>3. CASE EngineDown
  BY <1>3 DEF EngineDown, Steady
<1>4. CASE EngineUp
  BY <1>1, <1>4 DEF EngineUp, Steady
<1>5. CASE Proc
  BY <1>2, <1>5 DEF Proc, ProcStart, ProcUpdate, ProcStop, ProcRemoveClient, RemoveTimeBased,
     RemoveRest, RespStart, RespUpdate, RespStop, RespDistanceStop, RespToTimeBased,
     RespRestart, RespRestarted, ProcEngineUp, ProcNHz, Frame, engineVars
<1>6. CASE \/ \E s \in Sessions, o \in Options \cup {None} :
                 startTracking(s, o) \/ updateTrackingOptions(s, o)
           \/ \E s \in Sessions : stopTracking(s)
           \/ \E c \in Clients : removeClient(c)
  BY <1>2, <1>6 DEF startTracking, updateTrackingOptions, stopTracking, removeClient, Sent,
     engineVars
<1>7. CASE EngineDone \/ EngineRefuses \/ handleEngineDownEvent \/ NHzRequirement
  BY <1>2, <1>7 DEF EngineDone, EngineRefuses, handleEngineDownEvent, NHzRequirement, engineVars
<1> QED
  BY <1>2, <1>3, <1>4, <1>5, <1>6, <1>7 DEF Next, vars

\* An answer that is under way is one the client waits for, ...
LEMMA NeverTwiceStep ==
    ASSUME TypedInv, NeverTwice, [Next]_vars
    PROVE  NeverTwice'
<1>1. Balanced /\ clients' \ removing' \subseteq clients \ removing
  BY StepBalance, ClientsLeave
<1>2. TypedInv'
  BY TypedStep
<1>3. ASSUME NEW x \in Sessions, ClientOf[x] \in clients' \ removing' PROVE Balance(x)' >= 0
  BY <1>1, <1>2, <1>3, BalanceTyped, BalanceStaysInt DEF Balanced, NeverTwice
<1> QED
  BY <1>3 DEF NeverTwice

\* ... and one that it waits for is under way.
LEMMA NoneLostStep ==
    ASSUME Thorough, TypedInv, AnswerInv, [Next]_vars
    PROVE  NoneLost'
<1>1. Balanced /\ clients' \subseteq clients
  BY StepBalance, ClientsLeave
<1>2. TypedInv'
  BY TypedStep
<1>3. ASSUME Steady', NEW x \in Sessions, Registered(x)' PROVE Balance(x)' <= 0
  <2>1. Steady /\ Registered(x)
    BY <1>1, <1>3, SteadyBefore DEF Registered
  <2>2. Balance(x)' <= Balance(x) /\ Balance(x) <= 0
    BY <1>1, <2>1 DEF Balanced, AnswerInv, NoneLost
  <2>3. Balance(x) \in Int
    BY BalanceTyped
  <2>4. Balance(x)' \in Int
    BY <1>2, BalanceStaysInt
  <2> QED
    BY <2>2, <2>3, <2>4
<1> QED
  BY <1>3 DEF NoneLost

-----------------------------------------------------------------------------
(* Where messages and commands come from. *)

\* The message has come already.
HasCome(m) == \/ \E i \in 1..Len(msgQ) : msgQ[i] = m
              \/ \E i \in 1..Len(pending) : pending[i] = m

LEMMA TakenHaveCome ==
    ASSUME TypedInv, msgQ # <<>>, Take
    PROVE  HasCome(Head(msgQ)) /\ \A i \in 1..Len(msgQ') : HasCome(msgQ'[i])
<1>1. PICK q, t : q = msgQ /\ t = Tail(msgQ)
  OBVIOUS
<1>2. q \in Seq(Message) /\ q # <<>> /\ msgQ' = t /\ t = Tail(q)
  BY <1>1 DEF TypedInv, TypeOK, Take
<1>3. /\ Head(q) = q[1] /\ 1 \in 1..Len(q)
      /\ \A i \in 1..Len(t) : i + 1 \in 1..Len(q) /\ t[i] = q[i + 1]
  BY <1>2, HeadTail
<1> QED
  BY <1>1, <1>2, <1>3 DEF HasCome

LEMMA DeferredHaveCome ==
    ASSUME TypedInv, msgQ # <<>>, Take, Defer
    PROVE  \A i \in 1..Len(pending') : HasCome(pending'[i])
<1>1. PICK p, h : p = pending /\ h = Head(msgQ)
  OBVIOUS
<1>2. p \in Seq(Message) /\ h \in Message /\ pending' = Append(p, h)
  BY <1>1, HeadTail DEF TypedInv, TypeOK, Defer
<1>3. HasCome(h)
  BY <1>1, TakenHaveCome
<1>4. \A i \in 1..Len(Append(p, h)) : i \in 1..Len(p) \/ Append(p, h)[i] = h
  BY <1>2, AppendFacts
<1>5. \A i \in 1..Len(p) : Append(p, h)[i] = p[i]
  BY <1>2, AppendFacts
<1> QED
  BY <1>1, <1>2, <1>3, <1>4, <1>5 DEF HasCome

LEMMA QueuedAgain ==
    ASSUME TypedInv, ProcEngineUp
    PROVE  \A i \in 1..Len(msgQ') : HasCome(msgQ'[i])
<1>1. PICK q, t, p, w : q = msgQ /\ t = Tail(msgQ) /\ p = pending /\ w = t \o p
  OBVIOUS
<1>2. /\ q \in Seq(Message) /\ q # <<>> /\ p \in Seq(Message) /\ t = Tail(q)
      /\ t \in Seq(Message) /\ msgQ' = w
  BY <1>1, HeadTyped, HeadTail DEF ProcEngineUp, TypedInv, TypeOK
<1>3. \A i \in 1..Len(t) : i + 1 \in 1..Len(q) /\ t[i] = q[i + 1]
  BY <1>2, HeadTail
<1>4. \A i \in 1..Len(t) : HasCome(t[i])
  BY <1>1, <1>3 DEF HasCome
<1>5. \A i \in 1..Len(p) : HasCome(p[i])
  BY <1>1 DEF HasCome
<1>6. \A i \in 1..Len(w) : \/ i \in 1..Len(t) /\ w[i] = t[i]
                           \/ i - Len(t) \in 1..Len(p) /\ w[i] = p[i - Len(t)]
  BY <1>1, <1>2
<1>7. \A i \in 1..Len(w) : HasCome(w[i])
  BY <1>4, <1>5, <1>6
<1> QED
  BY <1>2, <1>7

\* The handlers invent no message.
LEMMA HandlersSource ==
    ASSUME TypedInv, Proc
    PROVE  /\ \A i \in 1..Len(msgQ') : HasCome(msgQ'[i])
           /\ \A i \in 1..Len(pending') : HasCome(pending'[i])
           /\ UNCHANGED <<up, ups>>
           /\ capsKnown' = capsKnown \/ ProcEngineUp
<1> DEFINE Known == /\ \A i \in 1..Len(msgQ') : HasCome(msgQ'[i])
                   /\ \A i \in 1..Len(pending') : HasCome(pending'[i])
<1>1. ASSUME msgQ # <<>>, Take, UNCHANGED pending PROVE Known
  BY <1>1, TakenHaveCome DEF HasCome
<1>2. ASSUME msgQ # <<>>, Take, Defer PROVE Known
  BY <1>2, TakenHaveCome, DeferredHaveCome
<1>3. ASSUME UNCHANGED <<msgQ, pending>> PROVE Known
  BY <1>3 DEF HasCome
<1>4. ASSUME ProcEngineUp PROVE Known /\ UNCHANGED <<up, ups>>
  <2>1. pending' = <<>> /\ UNCHANGED <<up, ups>>
    BY <1>4 DEF ProcEngineUp, engineVars
  <2> QED
    BY <1>4, <2>1, QueuedAgain
<1>5. ~ProcEngineUp => UNCHANGED <<up, ups, capsKnown>>
  BY DEF Proc, ProcStart, ProcUpdate, ProcStop, ProcRemoveClient, RemoveTimeBased,
     RemoveRest, RespStart, RespUpdate, RespStop, RespDistanceStop, RespToTimeBased,
     RespRestart, RespRestarted, ProcNHz, Frame, engineVars
<1>6. \/ msgQ # <<>> /\ Take /\ (UNCHANGED pending \/ Defer)
      \/ UNCHANGED <<msgQ, pending>>
      \/ ProcEngineUp
  BY DEF Proc, ProcStart, ProcUpdate, ProcStop, ProcRemoveClient, RemoveTimeBased,
     RemoveRest, RespStart, RespUpdate, RespStop, RespDistanceStop, RespToTimeBased,
     RespRestart, RespRestarted, ProcNHz, Frame, Response, Arrived
<1> QED
  BY <1>1, <1>2, <1>3, <1>4, <1>5, <1>6

\* No command of q stops a distance based session to restart it.
Fresh(q) == \A i \in 1..Len(q) : q[i].op # "open" => q[i].cb # "restart"

LEMMA FreshConcat ==
    ASSUME NEW q \in Seq(Command), NEW r \in Seq(Command), Fresh(q), Fresh(r)
    PROVE  q \o r \in Seq(Command) /\ Fresh(q \o r)
<1>1. PICK w, n : w = q \o r /\ n = Len(q)
  OBVIOUS
<1>2. /\ n \in Nat /\ w \in Seq(Command)
      /\ \A i \in 1..Len(w) : i \in 1..n \/ (i - n \in 1..Len(r) /\ w[i] = r[i - n])
      /\ \A i \in 1..n : w[i] = q[i]
  BY <1>1
<1>3. \A i \in 1..n : q[i].op # "open" => q[i].cb # "restart"
  BY <1>1 DEF Fresh
<1>4. \A i \in 1..Len(r) : r[i].op # "open" => r[i].cb # "restart"
  BY DEF Fresh
<1>5. \A i \in 1..Len(w) : w[i].op # "open" => w[i].cb # "restart"
  BY <1>2, <1>3, <1>4
<1> QED
  BY <1>1, <1>2, <1>5 DEF Fresh

LEMMA FreshSent ==
    ASSUME TypedInv, Fresh(apiQ), NEW r \in Seq(Command), Fresh(r), apiQ' = apiQ \o r
    PROVE  Fresh(apiQ')
<1>1. PICK q : q = apiQ
  OBVIOUS
<1>2. q \in Seq(Command) /\ Fresh(q) /\ apiQ' = q \o r
  BY <1>1 DEF TypedInv, TypeOK
<1> QED
  BY <1>2, FreshConcat

LEMMA PlainIsFresh == \A q : AllPlain(q) => Fresh(q)
  BY DEF AllPlain, PlainCommand, Fresh

LEMMA SendFresh ==
    ASSUME TypedInv, Fresh(apiQ), NEW op \in {"startDB", "stopDB"}, NEW o \in OptionType,
           NEW cb \in Callback, cb # "restart", NEW s \in Sessions, NEW co \in OptionType,
           Send(Cmd(op, o, cb, s, co))
    PROVE  Fresh(apiQ')
<1>1. PICK c, r : c = Cmd(op, o, cb, s, co) /\ r = <<c>>
  OBVIOUS
<1>2. c \in Command /\ c.cb = cb /\ r \in Seq(Command) /\ apiQ \in Seq(Command)
  BY <1>1, CmdTyped DEF TypedInv, TypeOK, Cmd
<1>3. Fresh(r)
  BY <1>1, <1>2 DEF Fresh
<1>4. apiQ' = apiQ \o r
  BY <1>1, <1>2 DEF Send
<1> QED
  BY <1>2, <1>3, <1>4, FreshSent

LEMMA ApplyFresh ==
    ASSUME TypedInv, Fresh(apiQ), NEW e, EffectTyped(e), AllPlain(e.cmds), NEW s, Apply(e, s)
    PROVE  Fresh(apiQ')
  BY PlainIsFresh, FreshSent DEF Apply, EffectTyped

LEMMA DistanceFresh ==
    ASSUME TypedInv, NEW S \in SUBSET DOMAIN db, IsFiniteSet(S),
           NEW op \in {"startDB", "stopDB"}, NEW cb \in {"none", "clean"},
           NEW q \in DistanceCmds(S, op, cb)
    PROVE  q \in Seq(Command) /\ Fresh(q)
<1>1. cb \in Callback
  BY DEF Callback
<1>2. q \in Seq(Command) /\ \A i \in 1..Len(q) : q[i] = Cmd(op, db[q[i].s], cb, q[i].s, None)
  BY <1>1, MapsPair, DistanceCmdsFacts
<1>3. ASSUME NEW i \in 1..Len(q) PROVE q[i].cb = cb
  <2>1. PICK d, s : d = db[q[i].s] /\ s = q[i].s
    OBVIOUS
  <2>2. q[i] = Cmd(op, d, cb, s, None)
    BY <1>2, <2>1
  <2> QED
    BY <2>2 DEF Cmd
<1> QED
  BY <1>2, <1>3 DEF Fresh

LEMMA RestartFresh ==
    ASSUME TypedInv, Fresh(apiQ), NEW hz \in BOOLEAN, RestartSPE(hz)
    PROVE  Fresh(apiQ')
<1>1. PICK e \in RestartTimeBased(hz), q \in DistanceCmds(DOMAIN db, "startDB", "none") :
         apiQ' = apiQ \o e.cmds \o q
  BY DEF RestartSPE
<1>2. q \in Seq(Command) /\ Fresh(q)
  BY OwnedDistance, DistanceFresh
<1>3. Restarts(e, hz) /\ e.cmds \in Seq(Command)
  BY MapsPair, RestartFacts, RestartsTyped DEF EffectTyped
<1>4. Fresh(e.cmds)
  BY <1>3, EffectsArePlain, PlainIsFresh
<1>5. PICK w : w = apiQ \o e.cmds
  OBVIOUS
<1>6. apiQ \in Seq(Command)
  BY DEF TypedInv, TypeOK
<1>7. w \in Seq(Command) /\ Fresh(w)
  BY <1>3, <1>4, <1>5, <1>6, FreshConcat
<1> QED
  BY <1>1, <1>2, <1>5, <1>7, FreshConcat

LEMMA FreedFresh ==
    ASSUME TypedInv, Fresh(apiQ), NEW s \in DOMAIN tb, NEW e \in stopMultiplex(s)
    PROVE  /\ Apply(e, s) => Fresh(apiQ')
           /\ Apply(Quietly(e), s) => Fresh(apiQ')
           /\ \A o \in OptionType :
                 Apply([e EXCEPT !.cmds = Append(@, Cmd("startDB", o, "none", s, None))], s)
                    => Fresh(apiQ')
<1>1. Frees(e, s) /\ s \in Sessions
  BY MapsPair, stopMultiplexFacts DEF TypedInv, TypeOK
<1>2. EffectTyped(e) /\ Fresh(e.cmds) /\ e.cmds \in Seq(Command) /\ IsEffect(e)
  BY <1>1, FlagsAreTyped, FreesTyped, EffectsArePlain, PlainIsFresh, FreesAsks
     DEF FlagsTyped, EffectTyped, Asks
<1>3. Apply(e, s) => Fresh(apiQ')
  BY <1>2, FreshSent DEF Apply
<1>4. ASSUME Apply(Quietly(e), s) PROVE Fresh(apiQ')
  <2>1. PICK f : f = Quietly(e)
    OBVIOUS
  <2>2. f.cmds = e.cmds
    BY <1>2, <2>1 DEF Quietly, IsEffect
  <2> QED
    BY <1>2, <1>4, <2>1, <2>2, FreshSent DEF Apply
<1>5. ASSUME NEW o \in OptionType,
             Apply([e EXCEPT !.cmds = Append(@, Cmd("startDB", o, "none", s, None))], s)
      PROVE  Fresh(apiQ')
  <2>1. PICK c, r, f : /\ c = Cmd("startDB", o, "none", s, None) /\ r = <<c>>
                       /\ f = [e EXCEPT !.cmds = Append(@, c)]
    OBVIOUS
  <2>2. c \in Command /\ c.cb = "none" /\ r \in Seq(Command)
    BY <1>1, <2>1, CmdTyped, NoneTyped DEF Cmd, Callback
  <2>3. Fresh(r)
    BY <2>1, <2>2 DEF Fresh
  <2>4. f.cmds = Append(e.cmds, c)
    BY <1>2, <2>1 DEF IsEffect
  <2>5. f.cmds = e.cmds \o r
    BY <1>2, <2>1, <2>2, <2>4
  <2>6. f.cmds \in Seq(Command) /\ Fresh(f.cmds)
    BY <1>2, <2>2, <2>3, <2>5, FreshConcat
  <2>7. Apply(f, s)
    BY <1>5, <2>1
  <2> QED
    BY <2>6, <2>7, FreshSent DEF Apply
<1> QED
  BY <1>3, <1>4, <1>5

LEMMA CoveredFresh ==
    ASSUME TypedInv, Fresh(apiQ), NEW cb \in {"start", "update"}, NEW s \in Sessions,
           NEW co \in OptionType, NEW o, NEW e, Covers(e, cb, s, co, o), Apply(e, s)
    PROVE  Fresh(apiQ')
<1>1. EffectTyped(e) /\ AllPlain(e.cmds)
  BY FlagsAreTyped, CoversTyped, EffectsArePlain DEF FlagsTyped, Callback
<1> QED
  BY <1>1, ApplyFresh

\* A distance based session is restarted only once the capabilities are known.
LEMMA UpdateFresh ==
    ASSUME TypedInv, Fresh(apiQ), ~capsKnown, ProcUpdate
    PROVE  Fresh(apiQ')
<1> DEFINE s == Head(msgQ).s
           o == Raise(Head(msgQ).o)
<1>1. Arrived("update")
  BY DEF ProcUpdate
<1>2. s \in Sessions /\ o \in OptionType /\ o.dist = Head(msgQ).o.dist
  BY <1>1, HeadTyped, RaiseTyped
<1>3. CASE apiQ' = apiQ
  BY <1>3
<1>4. CASE ~Deferred /\ Update(s, o)
  <2>1. ~o.dist
    BY <1>2, <1>4 DEF Deferred
  <2>2. CASE Send(Cmd("stopDB", None, "toTimeBased", s, o))
    BY <1>2, <2>2, NoneTyped, SendFresh DEF Callback
  <2>3. ASSUME s \in DOMAIN tb, NEW e \in updateMultiplex(s, o), Apply(e, s)
        PROVE  Fresh(apiQ')
    <3>1. PICK co : co = tb[s]
      OBVIOUS
    <3>2. co \in OptionType
      BY <2>3, <3>1, MapsPair DEF MapTyped
    <3>3. Covers(e, "update", s, tb[s], o)
      BY <1>2, <2>3, MapsPair, updateMultiplexFacts DEF TypedInv, TypeOK
    <3> QED
      BY <1>2, <2>3, <3>1, <3>2, <3>3, CoveredFresh
  <2> QED
    BY <1>4, <2>1, <2>2, <2>3 DEF Update
<1>5. apiQ' = apiQ \/ (~Deferred /\ Update(s, o))
  BY DEF ProcUpdate, Defer, Idle
<1> QED
  BY <1>3, <1>4, <1>5

LEMMA HandlersFresh ==
    ASSUME TypedInv, Fresh(apiQ), ~capsKnown, Proc
    PROVE  Fresh(apiQ')
<1>1. CASE apiQ' = apiQ
  BY <1>1
<1>2. CASE ProcStart
  <2> DEFINE s == Head(msgQ).s
             o == Raise(Head(msgQ).o)
  <2>1. s \in Sessions /\ o \in OptionType
    BY <1>2, HeadTyped, RaiseTyped DEF ProcStart
  <2>2. CASE Send(Cmd("startDB", o, "dstart", s, None))
    BY <2>1, <2>2, NoneTyped, SendFresh DEF Callback
  <2>3. ASSUME NEW e \in startMultiplex(s, o), Apply(e, s) PROVE Fresh(apiQ')
    BY <2>1, <2>3, MapsPair, startMultiplexFacts, NoneTyped, CoveredFresh
    DEF TypedInv, TypeOK
  <2> QED
    BY <1>1, <1>2, <2>2, <2>3 DEF ProcStart, Defer, Idle
<1>3. CASE ProcUpdate
  BY <1>3, UpdateFresh
<1>4. CASE ProcStop
  <2>1. Head(msgQ).s \in Sessions
    BY <1>4, HeadTyped DEF ProcStop
  <2>2. CASE Send(Cmd("stopDB", None, "dstop", Head(msgQ).s, None))
    BY <2>1, <2>2, NoneTyped, SendFresh DEF Callback
  <2> QED
    BY <1>1, <1>4, <2>2, FreedFresh DEF ProcStop, Idle
<1>5. CASE RemoveTimeBased
  <2>1. PICK s \in Owned(tb) : \E e \in stopMultiplex(s) : Apply(Quietly(e), s)
    BY <1>5 DEF RemoveTimeBased, Quietly
  <2>2. s \in DOMAIN tb
    BY DEF Owned
  <2> QED
    BY <2>1, <2>2, FreedFresh
<1>6. CASE RemoveRest
  <2>1. PICK q \in DistanceCmds(Owned(db), "stopDB", "clean") : apiQ' = apiQ \o q
    BY <1>6 DEF RemoveRest
  <2> QED
    BY <2>1, OwnedDistance, DistanceFresh, FreshSent
<1>7. CASE RespToTimeBased
  <2>1. PICK r, s, o : r = Head(msgQ) /\ s = r.s /\ o = r.co
    OBVIOUS
  <2>2. s \in Sessions /\ o \in OptionType
    BY <1>7, <2>1, HeadTyped DEF RespToTimeBased, Response
  <2>3. PICK e \in startMultiplex(s, o) : Apply(e, s)
    BY <1>7, <2>1 DEF RespToTimeBased
  <2>4. Covers(e, "start", s, None, o)
    BY <2>2, <2>3, MapsPair, startMultiplexFacts DEF TypedInv, TypeOK
  <2> QED
    BY <2>2, <2>3, <2>4, NoneTyped, CoveredFresh
<1>8. CASE RespRestart
  <2>1. PICK r, s, o : r = Head(msgQ) /\ s = r.s /\ o = r.co
    OBVIOUS
  <2>2. s \in Sessions /\ o \in OptionType
    BY <1>8, <2>1, HeadTyped DEF RespRestart, Response
  <2>3. Send(Cmd("startDB", o, "restarted", s, o)) \/ apiQ' = apiQ
    BY <1>8, <2>1 DEF RespRestart, Idle
  <2> QED
    BY <1>1, <2>2, <2>3, SendFresh DEF Callback
<1>9. CASE ProcEngineUp \/ ProcNHz
  BY <1>9, FlagsAreTyped, RestartFresh DEF FlagsTyped, ProcEngineUp, ProcNHz
<1>10. CASE ProcRemoveClient \/ RespStart \/ RespUpdate \/ RespStop \/ RespDistanceStop
            \/ RespRestarted
  BY <1>1, <1>10 DEF ProcRemoveClient, RespStart, RespUpdate, RespStop, RespDistanceStop,
     RespRestarted, Idle
<1> QED
  BY <1>2, <1>3, <1>4, <1>5, <1>6, <1>7, <1>8, <1>9, <1>10 DEF Proc

-----------------------------------------------------------------------------
(* The rest of AnswerInv. *)

\* What a message that has come newly is.
NewMessage(m) ==
    \/ m.m \in {"stop", "remove", "nhz", "update"}
    \/ m.m = "start" /\ (m.o # None \/ BadOptions)
    \/ m.m = "engineUp" /\ ups' = ups + 1
    \/ /\ m.m = "resp" /\ (m.ok \/ EngineErrors \/ ~up)
       /\ \E i \in 1..Len(apiQ) : apiQ[i].op # "open" /\ apiQ[i].cb = m.cb

LEMMA PostedSource ==
    ASSUME TypedInv, NEW m \in Message, Post(m)
    PROVE  \A i \in 1..Len(msgQ') : HasCome(msgQ'[i]) \/ msgQ'[i] = m
<1>1. PICK q, t : q = msgQ /\ t = Append(msgQ, m)
  OBVIOUS
<1>2. q \in Seq(Message) /\ msgQ' = t
  BY <1>1 DEF TypedInv, TypeOK, Post
<1>3. \A i \in 1..Len(t) : (i \in 1..Len(q) /\ t[i] = q[i]) \/ t[i] = m
  BY <1>1, <1>2, AppendFacts
<1> QED
  BY <1>1, <1>2, <1>3 DEF HasCome

LEMMA ClientSource ==
    ASSUME TypedInv,
           \/ \E s \in Sessions, o \in Options \cup {None} :
                 /\ o # None \/ BadOptions
                 /\ startTracking(s, o) \/ updateTrackingOptions(s, o)
           \/ \E s \in Sessions : stopTracking(s)
           \/ \E c \in Clients : removeClient(c)
    PROVE  /\ \A i \in 1..Len(msgQ') : HasCome(msgQ'[i]) \/ NewMessage(msgQ'[i])
           /\ UNCHANGED <<pending, capsKnown, up, ups, apiQ>>
<1>1. ASSUME NEW m \in Message, Post(m), NewMessage(m)
      PROVE  \A i \in 1..Len(msgQ') : HasCome(msgQ'[i]) \/ NewMessage(msgQ'[i])
  BY <1>1, PostedSource
<1>2. UNCHANGED <<pending, capsKnown, up, ups, apiQ>>
  BY DEF startTracking, updateTrackingOptions, stopTracking, removeClient, Sent, adapterVars,
     engineVars
<1>3. ASSUME NEW s \in Sessions, NEW o \in Options \cup {None}, o # None \/ BadOptions,
             startTracking(s, o)
      PROVE  \E m \in Message : Post(m) /\ NewMessage(m)
  <2>1. PICK m : m = [m |-> "start", s |-> s, o |-> o]
    OBVIOUS
  <2>2. m \in Message /\ m.m = "start" /\ m.o = o /\ Post(m)
    BY <1>3, <2>1 DEF Message, startTracking
  <2> QED
    BY <1>3, <2>2 DEF NewMessage
<1>4. ASSUME NEW s \in Sessions, NEW o \in Options \cup {None}, updateTrackingOptions(s, o)
      PROVE  \E m \in Message : Post(m) /\ NewMessage(m)
  <2>1. PICK m : m = [m |-> "update", s |-> s, o |-> o]
    OBVIOUS
  <2>2. m \in Message /\ m.m = "update" /\ Post(m)
    BY <1>4, <2>1 DEF Message, updateTrackingOptions
  <2> QED
    BY <2>2 DEF NewMessage
<1>5. ASSUME NEW s \in Sessions, stopTracking(s)
      PROVE  \E m \in Message : Post(m) /\ NewMessage(m)
  <2>1. PICK m : m = [m |-> "stop", s |-> s]
    OBVIOUS
  <2>2. m \in Message /\ m.m = "stop" /\ Post(m)
    BY <1>5, <2>1 DEF Message, stopTracking
  <2> QED
    BY <2>2 DEF NewMessage
<1>6. ASSUME NEW c \in Clients, removeClient(c)
      PROVE  \E m \in Message : Post(m) /\ NewMessage(m)
  <2>1. PICK m : m = [m |-> "remove", c |-> c]
    OBVIOUS
  <2>2. m \in Message /\ m.m = "remove" /\ Post(m)
    BY <1>6, <2>1 DEF Message, removeClient
  <2> QED
    BY <2>2 DEF NewMessage
<1>7. \E m \in Message : Post(m) /\ NewMessage(m)
  BY <1>3, <1>4, <1>5, <1>6
<1> QED
  BY <1>1, <1>2, <1>7

LEMMA AnswerSource ==
    ASSUME TypedInv, EngineDone \/ EngineRefuses
    PROVE  /\ \A i \in 1..Len(msgQ') : HasCome(msgQ'[i]) \/ NewMessage(msgQ'[i])
           /\ UNCHANGED <<pending, capsKnown, up, ups>>
           /\ Fresh(apiQ) => Fresh(apiQ')
<1>1. Serve /\ UNCHANGED <<pending, capsKnown, up, ups>>
  BY DEF EngineDone, EngineRefuses, adapterVars, engineVars
<1>2. PICK ok \in BOOLEAN : Answer(Head(apiQ), ok) /\ (ok \/ EngineErrors \/ ~up)
  BY DEF EngineDone, EngineRefuses
<1>3. PICK q, c, t : q = apiQ /\ c = Head(apiQ) /\ t = Tail(apiQ)
  OBVIOUS
<1>4. /\ q \in Seq(Command) /\ q # <<>> /\ apiQ' = t /\ t = Tail(q) /\ c = q[1] /\ 1 \in 1..Len(q)
      /\ c.op # "open" /\ c.cb \in Callback /\ c.s \in Sessions /\ c.co \in OptionType
  BY <1>1, <1>3, ServeTyped, HeadTail
<1>5. \A i \in 1..Len(t) : i + 1 \in 1..Len(q) /\ t[i] = q[i + 1]
  BY <1>4, HeadTail
<1>6. Fresh(apiQ) => Fresh(apiQ')
  BY <1>3, <1>4, <1>5 DEF Fresh
<1>7. PICK m : m = Answers(c, ok)
  OBVIOUS
<1>8. m \in Message /\ m.m = "resp" /\ m.cb = c.cb /\ m.ok = ok
  BY <1>4, <1>7 DEF Answers, Message
<1>9. NewMessage(m)
  BY <1>2, <1>3, <1>4, <1>8 DEF NewMessage
<1>10. msgQ' = msgQ \/ Post(m)
  BY <1>2, <1>3, <1>7 DEF Answer, Answers
<1>11. \A i \in 1..Len(msgQ') : HasCome(msgQ'[i]) \/ NewMessage(msgQ'[i])
  <2>1. CASE msgQ' = msgQ
    BY <2>1 DEF HasCome
  <2>2. CASE Post(m)
    BY <1>8, <1>9, <2>2, PostedSource
  <2> QED
    BY <1>10, <2>1, <2>2
<1> QED
  BY <1>1, <1>6, <1>11

LEMMA EventSource ==
    ASSUME TypedInv, EngineDown \/ handleEngineDownEvent \/ EngineUp \/ NHzRequirement
    PROVE  /\ \A i \in 1..Len(msgQ') : HasCome(msgQ'[i]) \/ NewMessage(msgQ'[i])
           /\ UNCHANGED <<pending, capsKnown>>
           /\ (UNCHANGED ups /\ (up' => up)) \/ ups' = ups + 1
           /\ Fresh(apiQ) => Fresh(apiQ')
<1>1. UNCHANGED <<pending, capsKnown>> /\ apiQ \in Seq(Command)
  BY DEF EngineDown, handleEngineDownEvent, EngineUp, NHzRequirement, adapterVars, TypedInv, TypeOK
<1>2. (UNCHANGED ups /\ (up' => up)) \/ ups' = ups + 1
  BY DEF EngineDown, handleEngineDownEvent, EngineUp, NHzRequirement, engineVars
<1>3. ASSUME NEW m \in Message, Post(m), NewMessage(m)
      PROVE  \A i \in 1..Len(msgQ') : HasCome(msgQ'[i]) \/ NewMessage(msgQ'[i])
  BY <1>3, PostedSource
<1>4. CASE EngineDown \/ handleEngineDownEvent
  <2>1. msgQ' = msgQ
    BY <1>4 DEF EngineDown, handleEngineDownEvent
  <2>2. \A i \in 1..Len(msgQ') : HasCome(msgQ'[i])
    BY <2>1 DEF HasCome
  <2>3. PICK c, r : c = OpenMsg /\ r = <<c>>
    OBVIOUS
  <2>4. c \in Command /\ c.op = "open" /\ r \in Seq(Command)
    BY <2>3 DEF OpenMsg, Command
  <2>5. Fresh(r)
    BY <2>3, <2>4 DEF Fresh
  <2>6. apiQ' = apiQ \/ apiQ' = apiQ \o r
    BY <1>1, <1>4, <2>3, <2>4 DEF EngineDown, handleEngineDownEvent
  <2>7. Fresh(apiQ) => Fresh(apiQ')
    BY <2>4, <2>5, <2>6, FreshSent
  <2> QED
    BY <1>1, <1>2, <2>2, <2>7
<1>5. CASE EngineUp
  <2>1. PICK m : m = [m |-> "engineUp"]
    OBVIOUS
  <2>2. m \in Message /\ m.m = "engineUp" /\ Post(m) /\ ups' = ups + 1
    BY <1>5, <2>1 DEF Message, EngineUp
  <2>3. \A i \in 1..Len(msgQ') : HasCome(msgQ'[i]) \/ NewMessage(msgQ'[i])
    BY <1>3, <2>2 DEF NewMessage
  <2>4. PICK q, t : q = apiQ /\ t = Tail(apiQ)
    OBVIOUS
  <2>5. q \in Seq(Command) /\ q # <<>> /\ t = Tail(q) /\ apiQ' = t
    BY <1>1, <1>5, <2>4 DEF EngineUp
  <2>6. \A i \in 1..Len(t) : i + 1 \in 1..Len(q) /\ t[i] = q[i + 1]
    BY <2>5, HeadTail
  <2>7. Fresh(apiQ) => Fresh(apiQ')
    BY <2>4, <2>5, <2>6 DEF Fresh
  <2> QED
    BY <1>1, <1>2, <2>3, <2>7
<1>6. CASE NHzRequirement
  <2>1. PICK m : m = [m |-> "nhz"]
    OBVIOUS
  <2>2. m \in Message /\ m.m = "nhz" /\ Post(m) /\ apiQ' = apiQ
    BY <1>6, <2>1 DEF Message, NHzRequirement
  <2>3. \A i \in 1..Len(msgQ') : HasCome(msgQ'[i]) \/ NewMessage(msgQ'[i])
    BY <1>3, <2>2 DEF NewMessage
  <2> QED
    BY <1>1, <1>2, <2>2, <2>3
<1> QED
  BY <1>4, <1>5, <1>6

\* Where the messages come from, the engine's state and the commands.
LEMMA StepSource ==
    ASSUME TypedInv, [Next]_vars
    PROVE  /\ \A i \in 1..Len(msgQ') : HasCome(msgQ'[i]) \/ NewMessage(msgQ'[i])
           /\ \A i \in 1..Len(pending') : HasCome(pending'[i])
           /\ (UNCHANGED ups /\ (up' => up)) \/ ups' = ups + 1
           /\ capsKnown' = capsKnown \/ ProcEngineUp
           /\ Fresh(apiQ) /\ ~capsKnown => Fresh(apiQ')
<1>1. UNCHANGED pending => \A i \in 1..Len(pending') : HasCome(pending'[i])
  BY DEF HasCome
<1>2. CASE Proc
  BY <1>2, HandlersSource, HandlersFresh
<1>3. CASE \/ \E s \in Sessions, o \in Options \cup {None} :
                 /\ o # None \/ BadOptions
                 /\ startTracking(s, o) \/ updateTrackingOptions(s, o)
           \/ \E s \in Sessions : stopTracking(s)
           \/ \E c \in Clients : removeClient(c)
  BY <1>1, <1>3, ClientSource
<1>4. CASE EngineDone \/ EngineRefuses
  BY <1>1, <1>4, AnswerSource
<1>5. CASE EngineDown \/ handleEngineDownEvent \/ EngineUp \/ NHzRequirement
  BY <1>1, <1>5, EventSource
<1>6. CASE UNCHANGED vars
  BY <1>1, <1>6 DEF vars, HasCome
<1> QED
  BY <1>2, <1>3, <1>4, <1>5, <1>6 DEF Next

LEMMA GoodStartsStep ==
    ASSUME ~BadOptions, TypedInv, GoodStarts, [Next]_vars
    PROVE  GoodStarts'
<1>1. \A m : HasCome(m) /\ m.m = "start" => m.o # None
  BY DEF HasCome, GoodStarts
<1>2. \A m : NewMessage(m) /\ m.m = "start" => m.o # None
  BY DEF NewMessage
<1>3. /\ \A i \in 1..Len(msgQ') : HasCome(msgQ'[i]) \/ NewMessage(msgQ'[i])
      /\ \A i \in 1..Len(pending') : HasCome(pending'[i])
  BY StepSource
<1> QED
  BY <1>1, <1>2, <1>3 DEF GoodStarts

LEMMA NotYetUpStep ==
    ASSUME TypedInv, NotYetUp, [Next]_vars
    PROVE  NotYetUp'
<1> SUFFICES ASSUME ups' = 0
             PROVE  /\ ~up' /\ ~capsKnown' /\ Fresh(apiQ')
                    /\ \A i \in 1..Len(msgQ') : msgQ'[i].m # "engineUp"
  BY DEF NotYetUp, Fresh
<1>1. ups \in Nat
  BY DEF TypedInv, TypeOK
<1>2. ups = 0 /\ (up' => up)
  BY <1>1, StepSource
<1>3. ~up /\ ~capsKnown /\ Fresh(apiQ) /\ \A i \in 1..Len(msgQ) : msgQ[i].m # "engineUp"
  BY <1>2 DEF NotYetUp, Fresh
<1>4. \A i \in 1..Len(pending) : pending[i].m # "engineUp"
  BY DEF TypedInv, DeferredOnes
<1>5. \A m : HasCome(m) => m.m # "engineUp"
  BY <1>3, <1>4 DEF HasCome
<1>6. \A m : NewMessage(m) => m.m # "engineUp"
  BY <1>2 DEF NewMessage
<1>7. ~ProcEngineUp
  <2>1. SUFFICES ASSUME ProcEngineUp PROVE FALSE
    OBVIOUS
  <2>2. PICK q : q = msgQ
    OBVIOUS
  <2>3. q \in Seq(Message) /\ q # <<>> /\ Head(q).m = "engineUp"
    BY <2>1, <2>2 DEF ProcEngineUp, Arrived, TypedInv, TypeOK
  <2>4. Head(q) = q[1] /\ 1 \in 1..Len(q)
    BY <2>3, HeadTail
  <2> QED
    BY <1>3, <2>2, <2>3, <2>4
<1> QED
  BY <1>2, <1>3, <1>5, <1>6, <1>7, StepSource

LEMMA RestartedStep ==
    ASSUME ~EngineErrors, TypedInv, NotYetUp, Restarted, [Next]_vars
    PROVE  Restarted'
<1> SUFFICES ASSUME Steady', NEW i \in 1..Len(msgQ'), msgQ'[i].m = "resp", msgQ'[i].cb = "restart"
             PROVE  msgQ'[i].ok
  BY DEF Restarted
<1>1. PICK m : m = msgQ'[i]
  OBVIOUS
<1>2. Steady /\ ups \in Nat
  BY SteadyBefore DEF TypedInv, TypeOK
<1>3. CASE HasCome(m)
  BY <1>1, <1>2, <1>3 DEF TypedInv, DeferredOnes, HasCome, Restarted
<1>4. CASE NewMessage(m)
  BY <1>1, <1>2, <1>4 DEF NewMessage, Steady, NotYetUp
<1> QED
  BY <1>1, <1>3, <1>4, StepSource

LEMMA AnswerInit == Init => NeverTwice /\ AnswerInv
<1> SUFFICES ASSUME Init PROVE NeverTwice /\ AnswerInv
  OBVIOUS
<1>1. apiQ = <<>> /\ msgQ = <<>> /\ pending = <<>> /\ ~up /\ ~capsKnown
      /\ owed = [s \in Sessions |-> 0]
  BY DEF Init
<1>2. \A x \in Sessions : owed[x] = 0
  BY <1>1
<1>3. \A x \in Sessions : Balance(x) = 0
  BY <1>1, <1>2, EmptyAsks DEF Balance, Due
<1> QED
  BY <1>1, <1>3 DEF NeverTwice, AnswerInv, NoneLost, GoodStarts, NotYetUp, Restarted

LEMMA AnswerStep ==
    ASSUME Thorough, TypedInv, AnswerInv, [Next]_vars
    PROVE  AnswerInv'
<1>1. NoneLost'
  BY NoneLostStep
<1>2. GoodStarts' /\ NotYetUp' /\ Restarted'
  BY GoodStartsStep, NotYetUpStep, RestartedStep DEF Thorough, AnswerInv
<1> QED
  BY <1>1, <1>2 DEF AnswerInv

\* A client waits at least for what is under way.
NoneTooMany == \A s \in Sessions : ClientOf[s] \in clients \ removing => owed[s] >= 0

LEMMA NoneTooManyHolds ==
    ASSUME TypedInv, NeverTwice
    PROVE  NoneTooMany
<1> SUFFICES ASSUME NEW s \in Sessions, ClientOf[s] \in clients \ removing PROVE owed[s] >= 0
  BY DEF NoneTooMany
<1>1. Balance(s) >= 0
  BY DEF NeverTwice
<1>2. PICK a, b, c : a = N(apiQ, Asking(s)) /\ b = N(msgQ, Awaited(s)) /\ c = N(pending, Awaited(s))
  OBVIOUS
<1>3. a \in Nat /\ b \in Nat /\ c \in Nat /\ owed[s] \in Int
  BY <1>2, BalanceTyped
<1>4. Balance(s) = owed[s] - a - b - c
  BY <1>2 DEF Balance, Due
<1> QED
  BY <1>1, <1>3, <1>4

\* Nobody is told more often than it asked: the commands and answers under way for a
\* session of a registered client are at most those its client waits for, whatever
\* the engine refuses, however often it goes down, and whatever the sessions are
\* (startTimeBasedTrackingMultiplex and its like either report at once or leave it
\* to the callback).
THEOREM NeverTwiceAlways == Spec => [](NeverTwice /\ NoneTooMany)
<1>1. Init => TypedInv /\ NeverTwice
  BY TypedInit, AnswerInit
<1>2. TypedInv /\ NeverTwice /\ [Next]_vars => TypedInv' /\ NeverTwice'
  BY TypedStep, NeverTwiceStep
<1>3. TypedInv /\ NeverTwice => NeverTwice /\ NoneTooMany
  BY NoneTooManyHolds
<1> QED
  BY <1>1, <1>2, <1>3, PTL DEF Spec

LEMMA AnsweredHolds ==
    ASSUME TypedInv, NeverTwice, AnswerInv
    PROVE  AnsweredOnce
<1>1. NoneTooMany
  BY NoneTooManyHolds
<1>2. ASSUME Quiet, NoRestart, pending = <<>>, NEW s \in Sessions, Registered(s)
      PROVE  owed[s] = 0
  <2>1. Steady
    BY <1>2 DEF Quiet, NoRestart, Steady
  <2>2. Balance(s) <= 0
    BY <1>2, <2>1 DEF AnswerInv, NoneLost
  <2>3. msgQ = <<>> /\ apiQ = <<>> /\ removing = {}
    BY <1>2 DEF Quiet
  <2>4. Balance(s) = owed[s] - 0 - 0 - 0
    BY <1>2, <2>3, EmptyAsks DEF Balance, Due
  <2>5. owed[s] >= 0 /\ owed[s] \in Int
    BY <1>1, <1>2, <2>3 DEF NoneTooMany, Registered, TypedInv, TypeOK
  <2> QED
    BY <2>2, <2>4, <2>5
<1> QED
  BY <1>1, <1>2 DEF AnsweredOnce, NoneTooMany

\* Every command of a registered client is answered exactly once, whether it was started,
\* deferred, multiplexed, or sent to the engine and back, and whichever others were
\* under way: as long as the engine has not gone down since it came up, the client has
\* callbacks and passes options, and the engine refuses nothing while it is up
\* (reportResponse in the handlers of GnssAdapter and their callbacks).
THEOREM AnsweredOnceAlways ==
    ASSUME Thorough
    PROVE  Spec => []AnsweredOnce
<1>1. Init => TypedInv /\ NeverTwice /\ AnswerInv
  BY TypedInit, AnswerInit
<1>2. TypedInv /\ NeverTwice /\ AnswerInv /\ [Next]_vars
         => TypedInv' /\ NeverTwice' /\ AnswerInv'
  BY TypedStep, NeverTwiceStep, AnswerStep
<1>3. TypedInv /\ NeverTwice /\ AnswerInv => AnsweredOnce
  BY AnsweredHolds
<1> QED
  BY <1>1, <1>2, <1>3, PTL DEF Spec

-----------------------------------------------------------------------------
(* The sessions are those that the clients want. *)

\* The messages that say what becomes of session s, and what that is.
Concerns(m, s) == m.m \in {"start", "update", "stop"} /\ m.s = s

Deciding(m, s) == \/ Concerns(m, s) /\ (m.m = "update" => m.o # None)
                  \/ m.m = "remove" /\ m.c = ClientOf[s]

Outcome(m) == IF m.m \in {"start", "update"} THEN m.o ELSE None

\* Session map f has session s with what w says.
Agrees(f, s, w) == (s \in DOMAIN f <=> w # None) /\ (s \in DOMAIN f => f[s] = Raise(w))

\* The last message that decides about a session says what is wanted, ...
LastDecides == \A s \in Sessions, i \in 1..Len(msgQ) :
    /\ Deciding(msgQ[i], s)
    /\ \A j \in 1..Len(msgQ) : j > i => ~Deciding(msgQ[j], s)
    => want[s] = Outcome(msgQ[i])

\* ... and without one the map has it, or is going to drop it with its client.
MapDecides == \A s \in Sessions :
    (\A i \in 1..Len(msgQ) : ~Deciding(msgQ[i], s)) =>
        IF ClientOf[s] \in removing THEN want[s] = None ELSE Agrees(tb, s, want[s])

\* A session is started before it is updated, and nothing follows its stop.
InOrder(q, f) == \A i \in 1..Len(q), s \in Sessions : Concerns(q[i], s) =>
    /\ q[i].m = "start" => /\ s \notin DOMAIN f
                           /\ \A j \in 1..Len(q) : j < i => ~Concerns(q[j], s)
    /\ q[i].m = "update" => s \in DOMAIN f \/ \E j \in 1..Len(q) :
                               j < i /\ Concerns(q[j], s) /\ q[j].m = "start"
    /\ q[i].m = "stop" \/ (q[i].m = "start" /\ q[i].o = None) =>
          \A j \in 1..Len(q) : j > i => ~Concerns(q[j], s)

CommandsInOrder == InOrder(msgQ, tb)

\* A client sends its commands before it is removed.
BeforeRemoval(q, C) == \A i \in 1..Len(q), s \in Sessions : Concerns(q[i], s) =>
    /\ ClientOf[s] \in C
    /\ \A j \in 1..Len(q) : j < i => ~(q[j].m = "remove" /\ q[j].c = ClientOf[s])

ThenRemoved == BeforeRemoval(msgQ, clients \ removing)

\* No command is refused.
AllGranted == \A i \in 1..Len(msgQ) : msgQ[i].m = "resp" => msgQ[i].ok

WantInv == Steady => LastDecides /\ MapDecides /\ CommandsInOrder /\ ThenRemoved /\ AllGranted

\* Until the capabilities are known nothing has been asked for.
Unasked ==
    /\ DOMAIN tb = {} /\ \A s \in Sessions : want[s] = None
    /\ \A i \in 1..Len(msgQ) : msgQ[i].m \in {"engineUp", "remove", "nhz"}
    /\ \A i \in 1..Len(apiQ) : apiQ[i].op = "open"

AskedLater == ~capsKnown => Unasked

AlwaysWanted == Steady => SessionsAreWanted

WantParts == LastDecides /\ MapDecides /\ CommandsInOrder /\ ThenRemoved /\ AllGranted

\* The map has the same for session x before and after.
SameFor(x) == (x \in DOMAIN tb' <=> x \in DOMAIN tb) /\ (x \in DOMAIN tb => tb'[x] = tb[x])

\* A message, other than a removal, has been handled.
LEMMA HandledWant ==
    ASSUME TypedInv, WantParts, msgQ # <<>>, Take, Head(msgQ).m # "remove",
           removing = {}, UNCHANGED <<clients, removing, want>>,
           \A x \in Sessions : ~Deciding(Head(msgQ), x) => SameFor(x),
           \A x \in Sessions : Deciding(Head(msgQ), x) => Agrees(tb', x, Outcome(Head(msgQ)))
    PROVE  WantParts'
<1>1. PICK q, t, h : q = msgQ /\ t = Tail(msgQ) /\ h = Head(msgQ)
  OBVIOUS
<1>2. /\ q \in Seq(Message) /\ q # <<>> /\ t = Tail(q) /\ msgQ' = t /\ h = Head(q)
      /\ h.m # "remove"
  BY <1>1 DEF TypedInv, TypeOK, Take
<1>3. /\ h = q[1] /\ 1 \in 1..Len(q) /\ Len(t) \in Nat /\ Len(q) = Len(t) + 1
      /\ \A i \in 1..Len(t) : i + 1 \in 1..Len(q) /\ t[i] = q[i + 1]
      /\ \A i \in 1..Len(q) : i = 1 \/ (i - 1 \in 1..Len(t) /\ t[i - 1] = q[i])
  BY <1>2, HeadTail
<1>4. ASSUME NEW x \in Sessions, NEW i \in 1..Len(t), Deciding(t[i], x),
             \A j \in 1..Len(t) : j > i => ~Deciding(t[j], x)
      PROVE  want'[x] = Outcome(t[i])
  <2>1. i + 1 \in 1..Len(q) /\ Deciding(q[i + 1], x)
    BY <1>3, <1>4
  <2>2. ASSUME NEW j \in 1..Len(q), j > i + 1 PROVE ~Deciding(q[j], x)
    <3>1. j - 1 \in 1..Len(t) /\ t[j - 1] = q[j] /\ j - 1 > i
      BY <1>3, <2>2
    <3> QED
      BY <1>4, <3>1
  <2>3. want[x] = Outcome(q[i + 1])
    BY <1>1, <2>1, <2>2 DEF WantParts, LastDecides
  <2> QED
    BY <1>3, <2>3
<1>5. ASSUME NEW x \in Sessions, \A i \in 1..Len(t) : ~Deciding(t[i], x)
      PROVE  Agrees(tb', x, want'[x])
  <2>1. \A j \in 1..Len(q) : j > 1 => ~Deciding(q[j], x)
    <3> SUFFICES ASSUME NEW j \in 1..Len(q), j > 1 PROVE ~Deciding(q[j], x)
      OBVIOUS
    <3>1. j - 1 \in 1..Len(t) /\ t[j - 1] = q[j]
      BY <1>3
    <3> QED
      BY <1>5, <3>1
  <2>2. CASE Deciding(h, x)
    BY <1>1, <1>3, <2>1, <2>2 DEF WantParts, LastDecides
  <2>3. CASE ~Deciding(h, x)
    BY <1>1, <1>3, <2>1, <2>3 DEF WantParts, MapDecides, Agrees, SameFor
  <2> QED
    BY <2>2, <2>3
<1>6. ASSUME NEW i \in 1..Len(t), NEW x \in Sessions, Concerns(t[i], x)
      PROVE  /\ t[i].m = "start" =>
                   x \notin DOMAIN tb' /\ \A j \in 1..Len(t) : j < i => ~Concerns(t[j], x)
             /\ t[i].m = "update" =>
                   x \in DOMAIN tb' \/ \E j \in 1..Len(t) :
                                          j < i /\ Concerns(t[j], x) /\ t[j].m = "start"
             /\ t[i].m = "stop" \/ (t[i].m = "start" /\ t[i].o = None) =>
                   \A j \in 1..Len(t) : j > i => ~Concerns(t[j], x)
             /\ ClientOf[x] \in clients' \ removing'
             /\ \A j \in 1..Len(t) : j < i => ~(t[j].m = "remove" /\ t[j].c = ClientOf[x])
  <2>1. i + 1 \in 1..Len(q) /\ t[i] = q[i + 1] /\ Concerns(q[i + 1], x) /\ 1 < i + 1
    BY <1>3, <1>6
  <2>2. \A j \in 1..Len(t) : /\ j + 1 \in 1..Len(q) /\ t[j] = q[j + 1]
                             /\ (j < i => j + 1 < i + 1) /\ (j > i => j + 1 > i + 1)
    BY <1>3
  <2>3. ClientOf[x] \in clients' \ removing'
    BY <1>1, <2>1 DEF WantParts, ThenRemoved, BeforeRemoval
  <2>4. \A j \in 1..Len(t) : j < i => ~(t[j].m = "remove" /\ t[j].c = ClientOf[x])
    BY <1>1, <2>1, <2>2 DEF WantParts, ThenRemoved, BeforeRemoval
  <2>5. t[i].m = "stop" \/ (t[i].m = "start" /\ t[i].o = None) =>
           \A j \in 1..Len(t) : j > i => ~Concerns(t[j], x)
    BY <1>1, <2>1, <2>2 DEF WantParts, CommandsInOrder, InOrder
  <2>6. ASSUME t[i].m = "start"
        PROVE  x \notin DOMAIN tb' /\ \A j \in 1..Len(t) : j < i => ~Concerns(t[j], x)
    <3>1. x \notin DOMAIN tb /\ \A j \in 1..Len(q) : j < i + 1 => ~Concerns(q[j], x)
      BY <1>1, <2>1, <2>6 DEF WantParts, CommandsInOrder, InOrder
    <3>2. ~Concerns(h, x)
      BY <1>3, <2>1, <3>1
    <3>3. ~Deciding(h, x)
      BY <1>2, <3>2 DEF Deciding
    <3>4. SameFor(x)
      BY <1>1, <3>3
    <3> QED
      BY <2>2, <3>1, <3>4 DEF SameFor
  <2>7. Concerns(h, x) /\ Deciding(h, x) => x \in DOMAIN tb'
    <3> SUFFICES ASSUME Concerns(h, x), Deciding(h, x) PROVE x \in DOMAIN tb'
      OBVIOUS
    <3>1. ~(h.m = "stop" \/ (h.m = "start" /\ h.o = None))
      BY <1>1, <1>3, <2>1 DEF WantParts, CommandsInOrder, InOrder
    <3>2. Outcome(h) # None
      BY <1>2, <3>1 DEF Outcome, Deciding, Concerns
    <3> QED
      BY <1>1, <3>2 DEF Agrees
  <2>8. ASSUME t[i].m = "update"
        PROVE  x \in DOMAIN tb' \/ \E j \in 1..Len(t) :
                                       j < i /\ Concerns(t[j], x) /\ t[j].m = "start"
    <3>1. x \in DOMAIN tb \/ \E j \in 1..Len(q) :
                                j < i + 1 /\ Concerns(q[j], x) /\ q[j].m = "start"
      BY <1>1, <2>1, <2>8 DEF WantParts, CommandsInOrder, InOrder
    <3>2. CASE x \in DOMAIN tb
      <4>1. CASE Deciding(h, x)
        BY <1>2, <2>7, <4>1 DEF Deciding
      <4>2. CASE ~Deciding(h, x)
        BY <1>1, <3>2, <4>2 DEF SameFor
      <4> QED
        BY <4>1, <4>2
    <3>3. ASSUME NEW j \in 1..Len(q), j < i + 1, Concerns(q[j], x), q[j].m = "start"
          PROVE  x \in DOMAIN tb' \/ \E k \in 1..Len(t) :
                                        k < i /\ Concerns(t[k], x) /\ t[k].m = "start"
      <4>1. CASE j = 1
        BY <1>3, <2>7, <3>3, <4>1 DEF Deciding
      <4>2. CASE j # 1
        BY <1>3, <3>3, <4>2
      <4> QED
        BY <4>1, <4>2
    <3> QED
      BY <3>1, <3>2, <3>3
  <2> QED
    BY <2>3, <2>4, <2>5, <2>6, <2>8
<1>7. \A i \in 1..Len(t) : t[i].m = "resp" => t[i].ok
  BY <1>1, <1>3 DEF WantParts, AllGranted
<1>8. LastDecides'
  BY <1>2, <1>4 DEF LastDecides
<1>9. MapDecides'
  BY <1>2, <1>5 DEF MapDecides
<1>10. InOrder(t, tb')
  BY <1>6 DEF InOrder
<1>12. BeforeRemoval(t, clients' \ removing')
  BY <1>6 DEF BeforeRemoval
<1>13. CommandsInOrder' /\ ThenRemoved'
  BY <1>2, <1>10, <1>12 DEF CommandsInOrder, ThenRemoved
<1>11. AllGranted'
  BY <1>2, <1>7 DEF AllGranted
<1> QED
  BY <1>8, <1>9, <1>10, <1>11, <1>13 DEF WantParts

\* A message comes behind the others.
LEMMA PostedWant ==
    ASSUME TypedInv, WantParts, NEW m \in Message, Post(m), UNCHANGED <<tb, clients, removing>>,
           m.m = "resp" => m.ok,
           \A x \in Sessions : want'[x] = IF Deciding(m, x) THEN Outcome(m) ELSE want[x],
           \A x \in Sessions : Concerns(m, x) =>
              /\ m.m = "start" => /\ x \notin DOMAIN tb
                                  /\ \A j \in 1..Len(msgQ) : ~Concerns(msgQ[j], x)
              /\ m.m = "update" => x \in DOMAIN tb \/ \E j \in 1..Len(msgQ) :
                                      Concerns(msgQ[j], x) /\ msgQ[j].m = "start"
              /\ \A j \in 1..Len(msgQ) : Concerns(msgQ[j], x) =>
                    ~(msgQ[j].m = "stop" \/ (msgQ[j].m = "start" /\ msgQ[j].o = None))
              /\ ClientOf[x] \in clients \ removing
              /\ \A j \in 1..Len(msgQ) : ~(msgQ[j].m = "remove" /\ msgQ[j].c = ClientOf[x])
    PROVE  WantParts'
<1>1. PICK q, t, n : q = msgQ /\ t = Append(msgQ, m) /\ n = Len(msgQ) + 1
  OBVIOUS
<1>2. q \in Seq(Message) /\ msgQ' = t /\ t = Append(q, m)
  BY <1>1 DEF TypedInv, TypeOK, Post
<1>3. /\ Len(q) \in Nat /\ Len(t) = n /\ n = Len(q) + 1 /\ t[n] = m /\ n \in 1..Len(t)
      /\ \A i \in 1..Len(q) : i \in 1..Len(t) /\ t[i] = q[i] /\ i < n
      /\ \A i \in 1..Len(t) : i \in 1..Len(q) \/ i = n
  BY <1>1, <1>2, AppendFacts
<1>4. ASSUME NEW x \in Sessions, NEW i \in 1..Len(t), Deciding(t[i], x),
             \A j \in 1..Len(t) : j > i => ~Deciding(t[j], x)
      PROVE  want'[x] = Outcome(t[i])
  <2>1. CASE i = n
    BY <1>3, <1>4, <2>1
  <2>2. CASE i \in 1..Len(q)
    BY <1>1, <1>3, <1>4, <2>2 DEF WantParts, LastDecides
  <2> QED
    BY <1>3, <2>1, <2>2
<1>5. ASSUME NEW x \in Sessions, \A i \in 1..Len(t) : ~Deciding(t[i], x)
      PROVE  IF ClientOf[x] \in removing THEN want'[x] = None ELSE Agrees(tb, x, want'[x])
  BY <1>1, <1>3, <1>5 DEF WantParts, MapDecides
<1>6. ASSUME NEW i \in 1..Len(t), NEW x \in Sessions, Concerns(t[i], x)
      PROVE  /\ t[i].m = "start" =>
                   x \notin DOMAIN tb /\ \A j \in 1..Len(t) : j < i => ~Concerns(t[j], x)
             /\ t[i].m = "update" =>
                   x \in DOMAIN tb \/ \E j \in 1..Len(t) :
                                         j < i /\ Concerns(t[j], x) /\ t[j].m = "start"
             /\ t[i].m = "stop" \/ (t[i].m = "start" /\ t[i].o = None) =>
                   \A j \in 1..Len(t) : j > i => ~Concerns(t[j], x)
             /\ ClientOf[x] \in clients \ removing
             /\ \A j \in 1..Len(t) : j < i => ~(t[j].m = "remove" /\ t[j].c = ClientOf[x])
  <2>1. CASE i = n
    <3>1. t[i] = m /\ Concerns(m, x)
      BY <1>3, <1>6, <2>1
    <3>2. \A j \in 1..Len(t) : (j < i => j \in 1..Len(q) /\ t[j] = q[j]) /\ ~(j > i)
      BY <1>3, <2>1
    <3>3. ASSUME t[i].m = "update", x \notin DOMAIN tb
          PROVE  \E j \in 1..Len(t) : j < i /\ Concerns(t[j], x) /\ t[j].m = "start"
      <4>1. PICK j \in 1..Len(q) : Concerns(q[j], x) /\ q[j].m = "start"
        BY <1>1, <3>1, <3>3
      <4> QED
        BY <1>3, <2>1, <4>1
    <3> QED
      BY <1>1, <3>1, <3>2, <3>3
  <2>2. CASE i \in 1..Len(q)
    <3>1. t[i] = q[i] /\ Concerns(q[i], x) /\ i < n
      BY <1>3, <1>6, <2>2
    <3>2. \A j \in 1..Len(t) : j < i => j \in 1..Len(q) /\ t[j] = q[j]
      BY <1>3, <3>1
    <3>3. \A j \in 1..Len(t) : j > i => (j \in 1..Len(q) /\ t[j] = q[j]) \/ t[j] = m
      BY <1>3
    <3>4. ClientOf[x] \in clients \ removing
          /\ \A j \in 1..Len(q) : j < i => ~(q[j].m = "remove" /\ q[j].c = ClientOf[x])
      BY <1>1, <2>2, <3>1 DEF WantParts, ThenRemoved, BeforeRemoval
    <3>5. q[i].m = "start" =>
             x \notin DOMAIN tb /\ \A j \in 1..Len(q) : j < i => ~Concerns(q[j], x)
      BY <1>1, <2>2, <3>1 DEF WantParts, CommandsInOrder, InOrder
    <3>6. q[i].m = "update" =>
             x \in DOMAIN tb \/ \E j \in 1..Len(q) :
                                   j < i /\ Concerns(q[j], x) /\ q[j].m = "start"
      BY <1>1, <2>2, <3>1 DEF WantParts, CommandsInOrder, InOrder
    <3>7. \A j \in 1..Len(q) : j \in 1..Len(t) /\ t[j] = q[j]
      BY <1>3
    <3>8. ASSUME q[i].m = "stop" \/ (q[i].m = "start" /\ q[i].o = None)
          PROVE  \A j \in 1..Len(t) : j > i => ~Concerns(t[j], x)
      BY <1>1, <2>2, <3>1, <3>3, <3>8 DEF WantParts, CommandsInOrder, InOrder
    <3>9. q[i].m = "update" =>
             x \in DOMAIN tb \/ \E j \in 1..Len(t) :
                                   j < i /\ Concerns(t[j], x) /\ t[j].m = "start"
      BY <3>6, <3>7
    <3> QED
      BY <3>1, <3>2, <3>4, <3>5, <3>8, <3>9
  <2> QED
    BY <1>3, <2>1, <2>2
<1>7. \A i \in 1..Len(t) : t[i].m = "resp" => t[i].ok
  BY <1>1, <1>3 DEF WantParts, AllGranted
<1>8. LastDecides'
  BY <1>2, <1>4 DEF LastDecides
<1>9. MapDecides'
  BY <1>2, <1>5 DEF MapDecides
<1>10. InOrder(t, tb')
  BY <1>6 DEF InOrder
<1>12. BeforeRemoval(t, clients' \ removing')
  BY <1>6 DEF BeforeRemoval
<1>13. CommandsInOrder' /\ ThenRemoved'
  BY <1>2, <1>10, <1>12 DEF CommandsInOrder, ThenRemoved
<1>11. AllGranted'
  BY <1>2, <1>7 DEF AllGranted
<1> QED
  BY <1>8, <1>9, <1>10, <1>11, <1>13 DEF WantParts

\* A command at the head of the queue is a known client's; an update finds its session.
LEMMA HeadWant ==
    ASSUME TypedInv, WantParts, NEW kind, Arrived(kind)
    PROVE  /\ kind \in {"start", "update", "stop"} => Registered(Head(msgQ).s)
           /\ kind = "start" => Head(msgQ).s \notin DOMAIN tb
           /\ kind = "update" => Head(msgQ).s \in DOMAIN tb
           /\ kind = "resp" => Head(msgQ).ok
<1>1. PICK q, h : q = msgQ /\ h = Head(msgQ)
  OBVIOUS
<1>2. q \in Seq(Message) /\ q # <<>> /\ h.m = kind /\ h = Head(q)
      /\ (kind \in {"start", "update", "stop"} => h.s \in Sessions)
  BY <1>1, HeadTyped
<1>3. h = q[1] /\ 1 \in 1..Len(q) /\ \A j \in 1..Len(q) : ~(j < 1)
  BY <1>2, HeadTail
<1>4. kind \in {"start", "update", "stop"} => Concerns(q[1], h.s)
  BY <1>2, <1>3 DEF Concerns
<1>5. kind \in {"start", "update", "stop"} => Registered(h.s)
  BY <1>1, <1>2, <1>3, <1>4 DEF WantParts, ThenRemoved, BeforeRemoval, Registered
<1>6. /\ kind = "start" => h.s \notin DOMAIN tb
      /\ kind = "update" => h.s \in DOMAIN tb
  BY <1>1, <1>2, <1>3, <1>4 DEF WantParts, CommandsInOrder, InOrder
<1>7. kind = "resp" => h.ok
  BY <1>1, <1>2, <1>3 DEF WantParts, AllGranted
<1> QED
  BY <1>1, <1>5, <1>6, <1>7

\* No message but a client's command or removal decides.
LEMMA IdleWant ==
    ASSUME TypedInv, WantParts, NEW kind \in {"resp", "engineUp", "nhz"}, Arrived(kind), Take,
           UNCHANGED <<tb, clients, removing, want>>
    PROVE  WantParts'
<1>1. msgQ # <<>> /\ Head(msgQ).m = kind /\ removing = {}
  BY HeadTyped
<1>2. \A x \in Sessions : ~Deciding(Head(msgQ), x)
  BY <1>1 DEF Deciding, Concerns
<1>3. \A x \in Sessions : SameFor(x)
  BY DEF SameFor
<1> QED
  BY <1>1, <1>2, <1>3, HandledWant

LEMMA StartWant ==
    ASSUME Orderly, Mute = {}, TypedInv, WantParts, ProcStart
    PROVE  WantParts'
<1>1. Arrived("start") /\ Take /\ UNCHANGED <<clients, removing, want>>
  BY DEF ProcStart
<1>2. PICK h, s, a, o : h = Head(msgQ) /\ s = h.s /\ a = h.o /\ o = Raise(a)
  OBVIOUS
<1>3. /\ h.m = "start" /\ s \in Sessions /\ a \in OptionType /\ a \in Options \cup {None}
      /\ msgQ # <<>> /\ removing = {}
  BY <1>1, <1>2, HeadTyped, MessageFields
<1>4. ~a.dist /\ o.dist = a.dist
  BY <1>2, <1>3, NoneTyped, RaiseTyped DEF Orderly
<1>5. Registered(s) /\ s \notin DOMAIN tb
  BY <1>1, <1>2, HeadWant
<1>6. \A x \in Sessions : Deciding(h, x) <=> x = s
  BY <1>2, <1>3 DEF Deciding, Concerns
<1>7. Outcome(h) = a
  BY <1>2, <1>3 DEF Outcome
<1>8. CASE a = None /\ UNCHANGED tb
  BY <1>1, <1>2, <1>3, <1>5, <1>6, <1>7, <1>8, HandledWant DEF SameFor, Agrees
<1>9. CASE a # None /\ SetMaps(save(Maps, s, o))
  <2>1. tb' = Put(tb, s, o)
    BY <1>4, <1>9, SaveSteps DEF IsDistance
  <2>2. \A x \in Sessions : x # s => SameFor(x)
    BY <2>1 DEF SameFor, Put
  <2>3. Agrees(tb', s, a)
    BY <1>2, <1>9, <2>1 DEF Agrees, Put
  <2> QED
    BY <1>1, <1>2, <1>3, <1>6, <1>7, <2>2, <2>3, HandledWant
<1>10. ~Deferred
  BY <1>2, <1>4 DEF Deferred
<1> QED
  BY <1>2, <1>5, <1>8, <1>9, <1>10 DEF ProcStart

LEMMA UpdateWant ==
    ASSUME Orderly, TypedInv, OnceInv, WantParts, ProcUpdate
    PROVE  WantParts'
<1>1. Arrived("update") /\ Take /\ UNCHANGED <<clients, removing, want>>
  BY DEF ProcUpdate
<1>2. PICK h, s, a, o : h = Head(msgQ) /\ s = h.s /\ a = h.o /\ o = Raise(a)
  OBVIOUS
<1>3. /\ h.m = "update" /\ s \in Sessions /\ a \in OptionType /\ a \in Options \cup {None}
      /\ msgQ # <<>> /\ removing = {}
  BY <1>1, <1>2, HeadTyped, MessageFields
<1>4. ~a.dist /\ ~o.dist
  BY <1>2, <1>3, NoneTyped, RaiseTyped DEF Orderly
<1>5. s \in DOMAIN tb /\ s \notin DOMAIN db
  BY <1>1, <1>2, HeadWant DEF OnceInv, TimeOnly
<1>6. \A x \in Sessions : Deciding(h, x) <=> x = s /\ a # None
  BY <1>2, <1>3 DEF Deciding, Concerns
<1>7. Outcome(h) = a
  BY <1>2, <1>3 DEF Outcome
<1>8. CASE a = None /\ UNCHANGED tb
  BY <1>1, <1>2, <1>3, <1>6, <1>8, HandledWant DEF SameFor
<1>9. CASE a # None /\ SetMaps(save(Maps, s, o))
  <2>1. tb' = Put(tb, s, o)
    BY <1>4, <1>9, SaveSteps DEF IsDistance
  <2>2. \A x \in Sessions : x # s => SameFor(x)
    BY <2>1 DEF SameFor, Put
  <2>3. Agrees(tb', s, a)
    BY <1>2, <1>9, <2>1 DEF Agrees, Put
  <2> QED
    BY <1>1, <1>2, <1>3, <1>6, <1>7, <1>9, <2>2, <2>3, HandledWant
<1>10. ~Deferred
  BY <1>2, <1>4 DEF Deferred
<1>11. Update(s, o) => SetMaps(save(Maps, s, o))
  BY <1>4, <1>5 DEF Update
<1> QED
  BY <1>2, <1>5, <1>8, <1>9, <1>10, <1>11 DEF ProcUpdate

LEMMA StopWant ==
    ASSUME TypedInv, OnceInv, WantParts, ProcStop
    PROVE  WantParts'
<1>1. Arrived("stop") /\ Take /\ UNCHANGED <<clients, removing, want>>
  BY DEF ProcStop
<1>2. PICK h, s : h = Head(msgQ) /\ s = h.s
  OBVIOUS
<1>3. h.m = "stop" /\ s \in Sessions /\ msgQ # <<>> /\ removing = {} /\ s \notin DOMAIN db
  BY <1>1, <1>2, HeadTyped DEF OnceInv, TimeOnly
<1>4. \A x \in Sessions : Deciding(h, x) <=> x = s
  BY <1>2, <1>3 DEF Deciding, Concerns
<1>5. Outcome(h) = None
  BY <1>3 DEF Outcome
<1>6. CASE s \in DOMAIN tb /\ SetMaps(erase(Maps, s))
  <2>1. tb' = Drop(tb, s)
    BY <1>6, EraseSteps
  <2>2. \A x \in Sessions : x # s => SameFor(x)
    BY <2>1 DEF SameFor, Drop
  <2>3. Agrees(tb', s, None)
    BY <2>1 DEF Agrees, Drop
  <2> QED
    BY <1>1, <1>2, <1>3, <1>4, <1>5, <2>2, <2>3, HandledWant
<1>7. CASE s \notin DOMAIN tb /\ UNCHANGED tb
  BY <1>1, <1>2, <1>3, <1>4, <1>5, <1>7, HandledWant DEF SameFor, Agrees
<1> QED
  BY <1>2, <1>3, <1>6, <1>7 DEF ProcStop

LEMMA ResponseWant ==
    ASSUME TypedInv, OnceInv, WantParts, RespStart \/ RespUpdate \/ RespStop
    PROVE  WantParts'
<1>1. Arrived("resp") /\ Take
  BY DEF RespStart, RespUpdate, RespStop, Response
<1>2. Head(msgQ).ok
  BY <1>1, HeadWant
<1>3. UNCHANGED <<tb, clients, removing, want>>
  BY <1>2, SameSteps DEF RespStart, RespUpdate, RespStop, Frame
<1> QED
  BY <1>1, <1>3, IdleWant

LEMMA EngineNewsWant ==
    ASSUME TypedInv, OnceInv, WantParts, ProcEngineUp \/ ProcNHz
    PROVE  WantParts'
<1>1. CASE ProcEngineUp
  <2>1. /\ Arrived("engineUp") /\ UNCHANGED <<tb, clients, removing, want>>
        /\ msgQ' = Tail(msgQ) \o pending /\ pending = <<>>
    BY <1>1 DEF ProcEngineUp, OnceInv, TimeOnly
  <2>2. PICK t : t = Tail(msgQ)
    OBVIOUS
  <2>3. t \in Seq(Message)
    BY <2>1, <2>2, HeadTyped, HeadTail
  <2>4. Take
    BY <2>1, <2>2, <2>3 DEF Take
  <2> QED
    BY <2>1, <2>4, IdleWant
<1>2. CASE ProcNHz
  BY <1>2, IdleWant DEF ProcNHz
<1> QED
  BY <1>1, <1>2

\* A client's sessions are dropped with it.
LEMMA RemoveClientWant ==
    ASSUME TypedInv, WantParts, ProcRemoveClient
    PROVE  WantParts'
<1>1. /\ Arrived("remove") /\ Take /\ removing' = {Head(msgQ).c}
      /\ UNCHANGED <<tb, clients, want>> /\ removing = {}
  BY DEF ProcRemoveClient, Arrived
<1>2. PICK q, t, h : q = msgQ /\ t = Tail(msgQ) /\ h = Head(msgQ)
  OBVIOUS
<1>3. /\ q \in Seq(Message) /\ q # <<>> /\ t = Tail(q) /\ msgQ' = t /\ h = Head(q)
      /\ h.m = "remove" /\ removing' = {h.c}
  BY <1>1, <1>2, HeadTyped DEF Take
<1>4. /\ h = q[1] /\ 1 \in 1..Len(q) /\ Len(t) \in Nat /\ Len(q) = Len(t) + 1
      /\ \A i \in 1..Len(t) : i + 1 \in 1..Len(q) /\ t[i] = q[i + 1]
      /\ \A i \in 1..Len(q) : i = 1 \/ (i - 1 \in 1..Len(t) /\ t[i - 1] = q[i])
  BY <1>3, HeadTail
<1>5. \A x : Deciding(h, x) <=> ClientOf[x] = h.c
  BY <1>3 DEF Deciding, Concerns
<1>6. ASSUME NEW x \in Sessions, NEW i \in 1..Len(t), Deciding(t[i], x),
             \A j \in 1..Len(t) : j > i => ~Deciding(t[j], x)
      PROVE  want'[x] = Outcome(t[i])
  <2>1. i + 1 \in 1..Len(q) /\ Deciding(q[i + 1], x)
    BY <1>4, <1>6
  <2>2. ASSUME NEW j \in 1..Len(q), j > i + 1 PROVE ~Deciding(q[j], x)
    <3>1. j - 1 \in 1..Len(t) /\ j - 1 > i /\ t[j - 1] = q[j]
      BY <1>4, <2>2
    <3> QED
      BY <1>6, <3>1
  <2>3. want[x] = Outcome(q[i + 1])
    BY <1>2, <2>1, <2>2 DEF WantParts, LastDecides
  <2> QED
    BY <1>1, <1>4, <2>3
<1>7. ASSUME NEW x \in Sessions, \A i \in 1..Len(t) : ~Deciding(t[i], x)
      PROVE  IF ClientOf[x] \in removing' THEN want'[x] = None ELSE Agrees(tb', x, want'[x])
  <2>1. \A j \in 1..Len(q) : j > 1 => ~Deciding(q[j], x)
    <3> SUFFICES ASSUME NEW j \in 1..Len(q), j > 1 PROVE ~Deciding(q[j], x)
      OBVIOUS
    <3>1. j - 1 \in 1..Len(t) /\ t[j - 1] = q[j]
      BY <1>4
    <3> QED
      BY <1>7, <3>1
  <2>2. CASE ClientOf[x] = h.c
    BY <1>1, <1>2, <1>3, <1>4, <1>5, <2>1, <2>2 DEF WantParts, LastDecides, Outcome
  <2>3. CASE ClientOf[x] # h.c
    BY <1>1, <1>2, <1>3, <1>4, <1>5, <2>1, <2>3 DEF WantParts, MapDecides
  <2> QED
    BY <2>2, <2>3
<1>8. ASSUME NEW i \in 1..Len(t), NEW x \in Sessions, Concerns(t[i], x)
      PROVE  /\ t[i].m = "start" =>
                   x \notin DOMAIN tb' /\ \A j \in 1..Len(t) : j < i => ~Concerns(t[j], x)
             /\ t[i].m = "update" =>
                   x \in DOMAIN tb' \/ \E j \in 1..Len(t) :
                                          j < i /\ Concerns(t[j], x) /\ t[j].m = "start"
             /\ t[i].m = "stop" \/ (t[i].m = "start" /\ t[i].o = None) =>
                   \A j \in 1..Len(t) : j > i => ~Concerns(t[j], x)
             /\ ClientOf[x] \in clients' \ removing'
             /\ \A j \in 1..Len(t) : j < i => ~(t[j].m = "remove" /\ t[j].c = ClientOf[x])
  <2>1. i + 1 \in 1..Len(q) /\ t[i] = q[i + 1] /\ Concerns(q[i + 1], x) /\ 1 < i + 1
    BY <1>4, <1>8
  <2>2. \A j \in 1..Len(t) : /\ j + 1 \in 1..Len(q) /\ t[j] = q[j + 1]
                             /\ (j < i => j + 1 < i + 1) /\ (j > i => j + 1 > i + 1)
    BY <1>4
  <2>3. /\ ClientOf[x] \in clients
        /\ \A j \in 1..Len(q) : j < i + 1 => ~(q[j].m = "remove" /\ q[j].c = ClientOf[x])
    BY <1>2, <2>1 DEF WantParts, ThenRemoved, BeforeRemoval
  <2>4. ClientOf[x] # h.c
    BY <1>3, <1>4, <2>1, <2>3
  <2>5. t[i].m = "stop" \/ (t[i].m = "start" /\ t[i].o = None) =>
           \A j \in 1..Len(t) : j > i => ~Concerns(t[j], x)
    BY <1>2, <2>1, <2>2 DEF WantParts, CommandsInOrder, InOrder
  <2>6. t[i].m = "start" =>
           x \notin DOMAIN tb' /\ \A j \in 1..Len(t) : j < i => ~Concerns(t[j], x)
    BY <1>1, <1>2, <2>1, <2>2 DEF WantParts, CommandsInOrder, InOrder
  <2>7. ASSUME t[i].m = "update", x \notin DOMAIN tb'
        PROVE  \E j \in 1..Len(t) : j < i /\ Concerns(t[j], x) /\ t[j].m = "start"
    <3>1. PICK j \in 1..Len(q) : j < i + 1 /\ Concerns(q[j], x) /\ q[j].m = "start"
      BY <1>1, <1>2, <2>1, <2>7 DEF WantParts, CommandsInOrder, InOrder
    <3>2. j # 1
      BY <1>3, <1>4, <3>1
    <3>3. j - 1 \in 1..Len(t) /\ t[j - 1] = q[j] /\ j - 1 < i
      BY <1>4, <3>1, <3>2
    <3> QED
      BY <3>1, <3>3
  <2>8. ClientOf[x] \in clients' \ removing'
    BY <1>1, <1>3, <2>3, <2>4
  <2>9. \A j \in 1..Len(t) : j < i => ~(t[j].m = "remove" /\ t[j].c = ClientOf[x])
    BY <2>2, <2>3
  <2> QED
    BY <2>5, <2>6, <2>7, <2>8, <2>9
<1>9. \A i \in 1..Len(t) : t[i].m = "resp" => t[i].ok
  BY <1>2, <1>4 DEF WantParts, AllGranted
<1>10. LastDecides'
  BY <1>3, <1>6 DEF LastDecides
<1>11. MapDecides'
  BY <1>3, <1>7 DEF MapDecides
<1>12. InOrder(t, tb')
  BY <1>8 DEF InOrder
<1>13. BeforeRemoval(t, clients' \ removing')
  BY <1>8 DEF BeforeRemoval
<1>14. CommandsInOrder' /\ ThenRemoved' /\ AllGranted'
  BY <1>3, <1>9, <1>12, <1>13 DEF CommandsInOrder, ThenRemoved, AllGranted
<1> QED
  BY <1>10, <1>11, <1>14 DEF WantParts

LEMMA RemovingWant ==
    ASSUME TypedInv, WantParts, RemoveTimeBased \/ RemoveRest
    PROVE  WantParts'
<1>1. UNCHANGED <<msgQ, want>> /\ clients' \ removing' = clients \ removing
  BY DEF RemoveTimeBased, RemoveRest
<1>2. \A x \in Sessions : ClientOf[x] \notin removing => SameFor(x)
  <2>1. CASE RemoveTimeBased
    <3>1. PICK s \in Owned(tb) : SetMaps(erase(Maps, s))
      BY <2>1 DEF RemoveTimeBased
    <3>2. s \in DOMAIN tb /\ ClientOf[s] \in removing
      BY DEF Owned
    <3>3. tb' = Drop(tb, s)
      BY <3>1, <3>2, EraseSteps
    <3> QED
      BY <3>2, <3>3 DEF SameFor, Drop
  <2>2. CASE RemoveRest
    BY <2>2 DEF RemoveRest, SameFor
  <2> QED
    BY <2>1, <2>2
<1>3. \A x \in Sessions : x \notin DOMAIN tb => x \notin DOMAIN tb'
  <2>1. CASE RemoveTimeBased
    <3>1. PICK s \in Owned(tb) : SetMaps(erase(Maps, s))
      BY <2>1 DEF RemoveTimeBased
    <3>2. s \in DOMAIN tb
      BY DEF Owned
    <3>3. tb' = Drop(tb, s)
      BY <3>1, <3>2, EraseSteps
    <3> QED
      BY <3>3 DEF Drop
  <2>2. CASE RemoveRest
    BY <2>2 DEF RemoveRest
  <2> QED
    BY <2>1, <2>2
<1>4. ASSUME NEW x \in Sessions, \A i \in 1..Len(msgQ) : ~Deciding(msgQ[i], x)
      PROVE  IF ClientOf[x] \in removing' THEN want'[x] = None ELSE Agrees(tb', x, want'[x])
  <2>1. IF ClientOf[x] \in removing THEN want[x] = None ELSE Agrees(tb, x, want[x])
    BY <1>4 DEF WantParts, MapDecides
  <2>2. CASE ClientOf[x] \notin removing
    BY <1>1, <1>2, <2>1, <2>2 DEF RemoveTimeBased, RemoveRest, SameFor, Agrees
  <2>3. CASE ClientOf[x] \in removing /\ RemoveTimeBased
    BY <1>1, <2>1, <2>3 DEF RemoveTimeBased
  <2>4. CASE ClientOf[x] \in removing /\ RemoveRest
    BY <1>1, <2>1, <2>4 DEF RemoveRest, Owned, Agrees
  <2> QED
    BY <2>2, <2>3, <2>4
<1>5. PICK q : q = msgQ
  OBVIOUS
<1>6. InOrder(q, tb')
  BY <1>2, <1>5 DEF WantParts, CommandsInOrder, ThenRemoved, BeforeRemoval, InOrder, SameFor
<1>7. CommandsInOrder' /\ ThenRemoved' /\ AllGranted' /\ LastDecides'
  BY <1>1, <1>5, <1>6 DEF WantParts, CommandsInOrder, ThenRemoved, AllGranted, LastDecides
<1>8. MapDecides'
  BY <1>1, <1>4 DEF MapDecides
<1> QED
  BY <1>7, <1>8 DEF WantParts

\* What its client wants is in the map or has been started, and not stopped since.
LEMMA WantedIsThere ==
    ASSUME TypedInv, WantParts, NEW s \in Sessions, want[s] # None, ~Leaving(ClientOf[s])
    PROVE  /\ \A j \in 1..Len(msgQ) : Concerns(msgQ[j], s) =>
                 ~(msgQ[j].m = "stop" \/ (msgQ[j].m = "start" /\ msgQ[j].o = None))
           /\ s \in DOMAIN tb \/ \E j \in 1..Len(msgQ) :
                                    Concerns(msgQ[j], s) /\ msgQ[j].m = "start"
<1>1. PICK q : q = msgQ
  OBVIOUS
<1>2. \A j \in 1..Len(q) : Deciding(q[j], s) => Concerns(q[j], s)
  BY <1>1 DEF Leaving, Deciding
<1>3. ClientOf[s] \notin removing
  BY DEF Leaving
<1>4. ASSUME NEW j \in 1..Len(q), Concerns(q[j], s),
             q[j].m = "stop" \/ (q[j].m = "start" /\ q[j].o = None)
      PROVE  FALSE
  BY <1>1, <1>2, <1>4
  DEF WantParts, CommandsInOrder, InOrder, Deciding, Outcome, LastDecides
<1>5. ASSUME s \notin DOMAIN tb
      PROVE  \E j \in 1..Len(q) : Concerns(q[j], s) /\ q[j].m = "start"
  <2>1. PICK i \in 1..Len(q) : Deciding(q[i], s)
    BY <1>1, <1>3, <1>5 DEF WantParts, MapDecides, Agrees
  <2>2. Concerns(q[i], s) /\ q[i].m \in {"start", "update"}
    BY <1>2, <1>4, <2>1 DEF Concerns
  <2> QED
    BY <1>1, <1>5, <2>2 DEF WantParts, CommandsInOrder, InOrder
<1> QED
  BY <1>1, <1>4, <1>5

\* A session whose client waits for nothing has no command under way.
LEMMA UnusedIsUnconcerned ==
    ASSUME TypedInv, NeverTwice, NEW s \in Sessions, owed[s] = 0,
           ClientOf[s] \in clients \ removing
    PROVE  \A j \in 1..Len(msgQ) : ~Concerns(msgQ[j], s)
<1>1. PICK q, A, a, b, c : /\ q = msgQ /\ A = Awaited(s) /\ a = N(apiQ, Asking(s))
                           /\ b = N(q, A) /\ c = N(pending, Awaited(s))
  OBVIOUS
<1>2. q \in Seq(Message) /\ a \in Nat /\ b \in Nat /\ c \in Nat
  BY <1>1, BalanceTyped DEF TypedInv, TypeOK
<1>3. Balance(s) = 0 - a - b - c /\ Balance(s) >= 0
  BY <1>1 DEF Balance, Due, NeverTwice
<1>4. b = 0
  BY <1>2, <1>3
<1>5. IsFiniteSet(Marked(q, A)) /\ Cardinality(Marked(q, A)) = 0
  BY <1>1, <1>2, <1>4, NTyped DEF N
<1>6. Marked(q, A) = {}
  BY <1>5, FS_EmptySet
<1>7. \A j \in 1..Len(q) : q[j] \in Message /\ (Concerns(q[j], s) => q[j] \in A)
  BY <1>1, <1>2 DEF Awaited, Concerns
<1> QED
  BY <1>1, <1>6, <1>7 DEF Marked

LEMMA MayKnow ==
    ASSUME NEW s \in Sessions, MaySend(s)
    PROVE  /\ ClientOf[s] \in clients \ removing /\ ~Leaving(ClientOf[s])
           /\ \A j \in 1..Len(msgQ) : ~(msgQ[j].m = "remove" /\ msgQ[j].c = ClientOf[s])
  BY DEF MaySend, Registered, Leaving

LEMMA startTrackingWant ==
    ASSUME TypedInv, NeverTwice, WantParts, NEW s \in Sessions, NEW o \in Options \cup {None},
           startTracking(s, o)
    PROVE  WantParts'
<1>1. PICK m : m = [m |-> "start", s |-> s, o |-> o]
  OBVIOUS
<1>2. m \in Message /\ m.m = "start" /\ m.s = s /\ m.o = o
  BY <1>1 DEF Message
<1>3. Post(m) /\ MaySend(s) /\ owed[s] = 0 /\ s \notin DOMAIN tb
  BY <1>1 DEF startTracking, Unused
<1>4. UNCHANGED <<tb, clients, removing>> /\ want' = [want EXCEPT ![s] = o]
  BY DEF startTracking, Sent, adapterVars
<1>5. \A j \in 1..Len(msgQ) : ~Concerns(msgQ[j], s)
  BY <1>3, MayKnow, UnusedIsUnconcerned
<1>6. \A x \in Sessions : (Concerns(m, x) <=> x = s) /\ (Deciding(m, x) <=> x = s)
  BY <1>2 DEF Concerns, Deciding
<1>7. Outcome(m) = o
  BY <1>2 DEF Outcome
<1>8. \A x \in Sessions : want'[x] = IF Deciding(m, x) THEN Outcome(m) ELSE want[x]
  BY <1>4, <1>6, <1>7 DEF TypedInv, TypeOK
<1> QED
  BY <1>2, <1>3, <1>4, <1>5, <1>6, <1>8, MayKnow, PostedWant

LEMMA updateTrackingOptionsWant ==
    ASSUME TypedInv, WantParts, NEW s \in Sessions, NEW o \in Options \cup {None},
           updateTrackingOptions(s, o)
    PROVE  WantParts'
<1>1. PICK m : m = [m |-> "update", s |-> s, o |-> o]
  OBVIOUS
<1>2. m \in Message /\ m.m = "update" /\ m.s = s /\ m.o = o
  BY <1>1 DEF Message
<1>3. Post(m) /\ MaySend(s) /\ want[s] # None
  BY <1>1 DEF updateTrackingOptions
<1>4. UNCHANGED <<tb, clients, removing>>
      /\ want' = [want EXCEPT ![s] = IF o = None THEN want[s] ELSE o]
  BY DEF updateTrackingOptions, Sent, adapterVars
<1>6. \A x \in Sessions : (Concerns(m, x) <=> x = s) /\ (Deciding(m, x) <=> x = s /\ o # None)
  BY <1>2 DEF Concerns, Deciding
<1>7. Outcome(m) = o
  BY <1>2 DEF Outcome
<1>8. \A x \in Sessions : want'[x] = IF Deciding(m, x) THEN Outcome(m) ELSE want[x]
  BY <1>4, <1>6, <1>7 DEF TypedInv, TypeOK
<1> QED
  BY <1>2, <1>3, <1>4, <1>6, <1>8, MayKnow, WantedIsThere, PostedWant

LEMMA stopTrackingWant ==
    ASSUME TypedInv, WantParts, NEW s \in Sessions, stopTracking(s)
    PROVE  WantParts'
<1>1. PICK m : m = [m |-> "stop", s |-> s]
  OBVIOUS
<1>2. m \in Message /\ m.m = "stop" /\ m.s = s
  BY <1>1 DEF Message
<1>3. Post(m) /\ MaySend(s) /\ want[s] # None
  BY <1>1 DEF stopTracking
<1>4. UNCHANGED <<tb, clients, removing>> /\ want' = [want EXCEPT ![s] = None]
  BY DEF stopTracking, Sent, adapterVars
<1>6. \A x \in Sessions : (Concerns(m, x) <=> x = s) /\ (Deciding(m, x) <=> x = s)
  BY <1>2 DEF Concerns, Deciding
<1>7. Outcome(m) = None
  BY <1>2 DEF Outcome
<1>8. \A x \in Sessions : want'[x] = IF Deciding(m, x) THEN Outcome(m) ELSE want[x]
  BY <1>4, <1>6, <1>7 DEF TypedInv, TypeOK
<1> QED
  BY <1>2, <1>3, <1>4, <1>6, <1>8, MayKnow, WantedIsThere, PostedWant

LEMMA removeClientWant ==
    ASSUME TypedInv, WantParts, NEW c \in Clients, removeClient(c)
    PROVE  WantParts'
<1>1. PICK m : m = [m |-> "remove", c |-> c]
  OBVIOUS
<1>2. m \in Message /\ m.m = "remove" /\ m.c = c
  BY <1>1 DEF Message
<1>3. Post(m) /\ UNCHANGED <<tb, clients, removing>>
  BY <1>1 DEF removeClient, adapterVars
<1>4. want' = [s \in Sessions |-> IF ClientOf[s] = c THEN None ELSE want[s]]
  BY DEF removeClient
<1>5. \A x \in Sessions : ~Concerns(m, x) /\ (Deciding(m, x) <=> ClientOf[x] = c)
  BY <1>2 DEF Concerns, Deciding
<1>6. Outcome(m) = None
  BY <1>2 DEF Outcome
<1>7. \A x \in Sessions : want'[x] = IF Deciding(m, x) THEN Outcome(m) ELSE want[x]
  BY <1>4, <1>5, <1>6
<1> QED
  BY <1>2, <1>3, <1>5, <1>7, PostedWant

\* News of the engine come behind the others, or nothing does.
LEMMA NewsWant ==
    ASSUME TypedInv, WantParts, UNCHANGED <<tb, clients, removing, want>>,
           \/ UNCHANGED msgQ
           \/ \E m \in Message : /\ Post(m) /\ m.m \in {"resp", "engineUp", "nhz"}
                                 /\ (m.m = "resp" => m.ok)
    PROVE  WantParts'
<1>1. CASE UNCHANGED msgQ
  BY <1>1 DEF WantParts, LastDecides, MapDecides, CommandsInOrder, ThenRemoved, AllGranted,
              InOrder, BeforeRemoval, Agrees
<1>2. ASSUME NEW m \in Message, Post(m), m.m \in {"resp", "engineUp", "nhz"}, m.m = "resp" => m.ok
      PROVE  WantParts'
  BY <1>2, PostedWant DEF Concerns, Deciding
<1> QED
  BY <1>1, <1>2

LEMMA AnswerWant ==
    ASSUME Orderly, TypedInv, NotYetUp, AskedLater, Steady, WantParts, EngineDone \/ EngineRefuses
    PROVE  WantParts'
<1>1. Serve /\ UNCHANGED <<tb, clients, removing, want>>
  BY DEF EngineDone, EngineRefuses, adapterVars
<1>2. PICK ok \in BOOLEAN : Answer(Head(apiQ), ok) /\ (ok \/ EngineErrors \/ ~up)
  BY DEF EngineDone, EngineRefuses
<1>3. PICK q, c : q = apiQ /\ c = Head(apiQ)
  OBVIOUS
<1>4. /\ q \in Seq(Command) /\ q # <<>> /\ c = q[1] /\ 1 \in 1..Len(q)
      /\ c.op # "open" /\ c.cb \in Callback /\ c.s \in Sessions /\ c.co \in OptionType
  BY <1>1, <1>3, ServeTyped, HeadTail
<1>5. capsKnown
  BY <1>3, <1>4 DEF AskedLater, Unasked
<1>6. up
  BY <1>5 DEF NotYetUp, TypedInv, TypeOK, Steady
<1>7. ok
  BY <1>2, <1>6 DEF Orderly
<1>8. PICK m : m = Answers(c, ok)
  OBVIOUS
<1>9. m \in Message /\ m.m = "resp" /\ m.ok = ok
  BY <1>4, <1>8 DEF Answers, Message
<1>10. msgQ' = msgQ \/ Post(m)
  BY <1>2, <1>3, <1>8 DEF Answer, Answers
<1> QED
  BY <1>1, <1>7, <1>9, <1>10, NewsWant

LEMMA EngineEventWant ==
    ASSUME TypedInv, WantParts, EngineDown \/ handleEngineDownEvent \/ EngineUp \/ NHzRequirement
    PROVE  WantParts'
<1>1. UNCHANGED <<tb, clients, removing, want>>
  BY DEF EngineDown, handleEngineDownEvent, EngineUp, NHzRequirement, adapterVars
<1>2. \A k : k \in {"engineUp", "nhz"} => [m |-> k] \in Message /\ [m |-> k].m = k
  BY DEF Message
<1>3. UNCHANGED msgQ \/ \E k \in {"engineUp", "nhz"} : Post([m |-> k])
  BY DEF EngineDown, handleEngineDownEvent, EngineUp, NHzRequirement
<1>4. CASE UNCHANGED msgQ
  BY <1>1, <1>4, NewsWant
<1>5. ASSUME NEW k \in {"engineUp", "nhz"}, Post([m |-> k]) PROVE WantParts'
  <2>1. PICK m : m = [m |-> k]
    OBVIOUS
  <2>2. m \in Message /\ m.m = k /\ Post(m)
    BY <1>2, <1>5, <2>1
  <2> QED
    BY <1>1, <2>2, NewsWant
<1> QED
  BY <1>3, <1>4, <1>5

-----------------------------------------------------------------------------
(* Nothing is asked for until the capabilities are known. *)

LEMMA UnaskedKept ==
    ASSUME TypedInv, Unasked, UNCHANGED <<tb, want>>,
           \/ UNCHANGED msgQ
           \/ msgQ # <<>> /\ Take
           \/ \E m \in Message : Post(m) /\ m.m \in {"engineUp", "remove", "nhz"},
           \/ UNCHANGED apiQ
           \/ apiQ # <<>> /\ apiQ' = Tail(apiQ)
           \/ apiQ' = Append(apiQ, OpenMsg)
    PROVE  Unasked'
<1>1. PICK q, a, f, c : q = msgQ /\ a = apiQ /\ f = msgQ' /\ c = apiQ'
  OBVIOUS
<1>2. /\ q \in Seq(Message) /\ a \in Seq(Command)
      /\ \A i \in 1..Len(q) : q[i].m \in {"engineUp", "remove", "nhz"}
      /\ \A i \in 1..Len(a) : a[i].op = "open"
  BY <1>1 DEF TypedInv, TypeOK, Unasked
<1>3. \A i \in 1..Len(f) : f[i].m \in {"engineUp", "remove", "nhz"}
  <2>1. CASE f = q
    BY <1>2, <2>1
  <2>2. CASE q # <<>> /\ f = Tail(q)
    BY <1>2, <2>2, HeadTail
  <2>3. ASSUME NEW m \in Message, f = Append(q, m), m.m \in {"engineUp", "remove", "nhz"}
        PROVE  \A i \in 1..Len(f) : f[i].m \in {"engineUp", "remove", "nhz"}
    BY <1>2, <2>3, AppendFacts
  <2> QED
    BY <1>1, <2>1, <2>2, <2>3 DEF Take, Post
<1>4. \A i \in 1..Len(c) : c[i].op = "open"
  <2>1. CASE c = a
    BY <1>2, <2>1
  <2>2. CASE a # <<>> /\ c = Tail(a)
    BY <1>2, <2>2, HeadTail
  <2>3. CASE c = Append(a, OpenMsg)
    <3>1. PICK m : m = OpenMsg
      OBVIOUS
    <3>2. m \in Command /\ m.op = "open"
      BY <3>1 DEF OpenMsg, Command
    <3> QED
      BY <1>2, <2>3, <3>1, <3>2, AppendFacts
  <2> QED
    BY <1>1, <2>1, <2>2, <2>3
<1> QED
  BY <1>1, <1>3, <1>4 DEF Unasked

LEMMA UnaskedHandler ==
    ASSUME TypedInv, DOMAIN db = {}, Unasked, Proc, ~capsKnown'
    PROVE  Unasked' /\ DOMAIN db' = {}
<1>1. ASSUME NEW kind, Arrived(kind) PROVE kind \in {"engineUp", "remove", "nhz"}
  <2>1. PICK q : q = msgQ
    OBVIOUS
  <2>2. q \in Seq(Message) /\ q # <<>> /\ Head(q).m = kind
    BY <1>1, <2>1, HeadTyped
  <2>3. Head(q) = q[1] /\ 1 \in 1..Len(q)
    BY <2>2, HeadTail
  <2> QED
    BY <2>1, <2>2, <2>3 DEF Unasked
<1>2. ProcRemoveClient \/ RemoveTimeBased \/ RemoveRest \/ ProcEngineUp \/ ProcNHz
  BY <1>1
  DEF Proc, ProcStart, ProcUpdate, ProcStop, RespStart, RespUpdate, RespStop,
       RespDistanceStop, RespToTimeBased, RespRestart, RespRestarted, Response
<1>3. CASE ProcRemoveClient
  BY <1>3, UnaskedKept DEF ProcRemoveClient, Arrived
<1>4. ~RemoveTimeBased
  BY DEF RemoveTimeBased, Owned, Unasked
<1>5. CASE RemoveRest
  <2>1. PICK q \in DistanceCmds(Owned(db), "stopDB", "clean") : apiQ' = apiQ \o q
    BY <1>5 DEF RemoveRest
  <2>2. q = <<>>
    BY MapsPair, OwnedDistance, NoDistanceCmds DEF Callback
  <2>3. apiQ' = apiQ
    BY <2>1, <2>2 DEF TypedInv, TypeOK
  <2> QED
    BY <1>5, <2>3, UnaskedKept DEF RemoveRest
<1>6. ~ProcEngineUp
  BY DEF ProcEngineUp
<1>7. CASE ProcNHz
  BY <1>7, RestartOnce, UnaskedKept DEF ProcNHz, Unasked, Arrived
<1> QED
  BY <1>2, <1>3, <1>4, <1>5, <1>6, <1>7

LEMMA UnaskedStep ==
    ASSUME AwaitEngine, TypedInv, DOMAIN db = {}, Unasked, [Next]_vars, ~capsKnown'
    PROVE  Unasked' /\ DOMAIN db' = {}
<1>1. ~capsKnown
  BY StepSource DEF ProcEngineUp
<1>2. Unasked
  OBVIOUS
<1>3. CASE Proc
  BY <1>2, <1>3, UnaskedHandler
<1>4. ASSUME NEW s \in Sessions, NEW o \in Options \cup {None},
             startTracking(s, o) \/ updateTrackingOptions(s, o)
      PROVE  Unasked' /\ DOMAIN db' = {}
  BY <1>1, <1>2, <1>4 DEF startTracking, updateTrackingOptions, Unasked
<1>10. ASSUME NEW s \in Sessions, stopTracking(s) PROVE Unasked' /\ DOMAIN db' = {}
  BY <1>2, <1>10 DEF stopTracking, Unasked
<1>5. ASSUME NEW c \in Clients, removeClient(c) PROVE Unasked' /\ DOMAIN db' = {}
  <2>1. PICK m : m = [m |-> "remove", c |-> c]
    OBVIOUS
  <2>2. m \in Message /\ m.m = "remove" /\ Post(m)
    BY <1>5, <2>1 DEF Message, removeClient
  <2>3. want' = [s \in Sessions |-> None]
    BY <1>2, <1>5 DEF removeClient, Unasked
  <2>4. want' = want /\ db' = db
    BY <1>2, <1>5, <2>3 DEF Unasked, TypedInv, TypeOK, removeClient, adapterVars
  <2> QED
    BY <1>2, <1>5, <2>2, <2>4, UnaskedKept DEF removeClient, adapterVars
<1>6. CASE EngineDone \/ EngineRefuses
  <2>1. Serve
    BY <1>6 DEF EngineDone, EngineRefuses
  <2>2. PICK q : q = apiQ
    OBVIOUS
  <2>3. q \in Seq(Command) /\ q # <<>> /\ Head(q).op # "open"
    BY <2>1, <2>2 DEF Serve, TypedInv, TypeOK
  <2>4. Head(q) = q[1] /\ 1 \in 1..Len(q)
    BY <2>3, HeadTail
  <2> QED
    BY <1>2, <2>2, <2>3, <2>4 DEF Unasked
<1>7. CASE EngineDown \/ handleEngineDownEvent
  BY <1>2, <1>7, UnaskedKept DEF EngineDown, handleEngineDownEvent, adapterVars
<1>8. CASE EngineUp \/ NHzRequirement
  <2>1. \A k : k \in {"engineUp", "nhz"} => [m |-> k] \in Message /\ [m |-> k].m = k
    BY DEF Message
  <2>2. PICK k \in {"engineUp", "nhz"} : Post([m |-> k])
    BY <1>8 DEF EngineUp, NHzRequirement
  <2>3. PICK m : m = [m |-> k]
    OBVIOUS
  <2>4. m \in Message /\ m.m \in {"engineUp", "remove", "nhz"} /\ Post(m)
    BY <2>1, <2>2, <2>3
  <2>5. /\ UNCHANGED <<tb, db, want>>
        /\ UNCHANGED apiQ \/ (apiQ # <<>> /\ apiQ' = Tail(apiQ))
    BY <1>8 DEF EngineUp, NHzRequirement, adapterVars
  <2> QED
    BY <1>2, <2>4, <2>5, UnaskedKept
<1>9. CASE UNCHANGED vars
  BY <1>2, <1>9, UnaskedKept DEF vars
<1> QED
  BY <1>3, <1>4, <1>5, <1>6, <1>7, <1>8, <1>9, <1>10 DEF Next

LEMMA AskedLaterStep ==
    ASSUME Orderly, TypedInv, OnceInv, AskedLater, [Next]_vars
    PROVE  AskedLater'
<1> SUFFICES ASSUME ~capsKnown' PROVE Unasked'
  BY DEF AskedLater
<1>1. ~capsKnown
  BY StepSource DEF ProcEngineUp
<1>2. Unasked /\ DOMAIN db = {} /\ AwaitEngine
  BY <1>1 DEF AskedLater, OnceInv, TimeOnly, Orderly
<1> QED
  BY <1>2, UnaskedStep

-----------------------------------------------------------------------------

LEMMA WantStep ==
    ASSUME Orderly, Mute = {}, TypedInv, OnceInv, NeverTwice, NotYetUp, AskedLater, WantInv,
           [Next]_vars
    PROVE  WantInv'
<1> SUFFICES ASSUME Steady' PROVE WantParts'
  BY DEF WantInv, WantParts
<1>1. Steady
  BY SteadyBefore
<1>2. WantParts
  BY <1>1 DEF WantInv, WantParts
<1>3. CASE Proc
  BY <1>2, <1>3, ResponseOnce, StartWant, UpdateWant, StopWant, RemoveClientWant,
     RemovingWant, ResponseWant, EngineNewsWant
  DEF RespDistanceStop, RespToTimeBased, RespRestart, RespRestarted, Proc
<1>4. CASE \/ \E s \in Sessions, o \in Options \cup {None} :
                 startTracking(s, o) \/ updateTrackingOptions(s, o)
           \/ \E s \in Sessions : stopTracking(s)
           \/ \E c \in Clients : removeClient(c)
  BY <1>2, <1>4, startTrackingWant, updateTrackingOptionsWant, stopTrackingWant, removeClientWant
<1>5. CASE EngineDone \/ EngineRefuses
  BY <1>1, <1>2, <1>5, AnswerWant
<1>6. CASE EngineDown \/ handleEngineDownEvent \/ EngineUp \/ NHzRequirement
  BY <1>2, <1>6, EngineEventWant
<1>7. CASE UNCHANGED vars
  BY <1>2, <1>7, NewsWant DEF vars
<1> QED
  BY <1>3, <1>4, <1>5, <1>6, <1>7 DEF Next

LEMMA WantInit == Init => AskedLater /\ WantInv
<1> SUFFICES ASSUME Init PROVE Unasked /\ WantParts
  BY DEF AskedLater, WantInv, WantParts
<1>1. msgQ = <<>> /\ apiQ = <<>> /\ removing = {} /\ DOMAIN tb = {}
      /\ \A s \in Sessions : want[s] = None
  BY DEF Init
<1>2. Unasked
  BY <1>1 DEF Unasked
<1>3. LastDecides /\ CommandsInOrder /\ ThenRemoved /\ AllGranted
  BY <1>1 DEF LastDecides, CommandsInOrder, InOrder, ThenRemoved, BeforeRemoval, AllGranted
<1>4. MapDecides
  BY <1>1 DEF MapDecides, Agrees
<1> QED
  BY <1>2, <1>3, <1>4 DEF WantParts

\* When all is quiet no message decides, so the map does.
LEMMA WantServes ==
    ASSUME TypedInv, OnceInv, WantInv
    PROVE  AlwaysWanted
<1> SUFFICES ASSUME Steady, Quiet
             PROVE  /\ DOMAIN tb \cup DOMAIN db = {s \in Sessions : want[s] # None}
                    /\ \A s \in DOMAIN tb : tb[s] = Raise(want[s])
  BY DEF AlwaysWanted, SessionsAreWanted
<1>1. msgQ = <<>> /\ removing = {}
  BY DEF Quiet
<1>2. \A s \in Sessions : Agrees(tb, s, want[s])
  BY <1>1 DEF WantInv, MapDecides
<1>3. DOMAIN db = {} /\ DOMAIN tb \subseteq Sessions
  BY DEF OnceInv, TimeOnly, TypedInv, TypeOK
<1> QED
  BY <1>2, <1>3 DEF Agrees

\* The adapter's sessions are those that its clients have started and not stopped, with
\* the options asked for last, and none of a client that has gone: whatever starts,
\* updates, stops and removals were under way at once, and in whatever order the
\* engine's answers came among them.  As long as the engine has not gone down since it
\* came up, there are no distance based sessions, clients have callbacks and wait for
\* the capabilities, and the engine refuses nothing while it is up
\* (saveTrackingSession, eraseTrackingSession and stopClientSessions).
THEOREM SessionsAreWantedAlways ==
    ASSUME Orderly, Mute = {}
    PROVE  Spec => [](Steady => SessionsAreWanted)
<1> DEFINE IInv == /\ TypedInv /\ RateInv /\ OnceInv /\ NeverTwice
                   /\ NotYetUp /\ AskedLater /\ WantInv
<1>1. Init => IInv
  BY TypedInit, RateInit, OnceInit, AnswerInit, WantInit DEF AnswerInv
<1>2. IInv /\ [Next]_vars => IInv'
  BY TypedStep, RateStepKept, OnceStep, OrderlyIsReliable, NeverTwiceStep, NotYetUpStep,
     AskedLaterStep, WantStep
<1>3. IInv => (Steady => SessionsAreWanted)
  BY WantServes DEF AlwaysWanted
<1> QED
  BY <1>1, <1>2, <1>3, PTL DEF Spec

-----------------------------------------------------------------------------
(* The distance based sessions. *)

\* An engine that refuses nothing while it is up to clients that wait for it, and for
\* the answer to one command before they send the next for the same session.
Patient == Reliable /\ AwaitEngine /\ MaxOwed = 1

\* The answer, or the command, is one of those C of session s.
IsAnswer(m, C, s) == m.m = "resp" /\ m.cb \in C /\ m.s = s
IsCommand(c, C, s) == c.op # "open" /\ c.cb \in C /\ c.s = s

Answering(q, C, s) == \E i \in 1..Len(q) : IsAnswer(q[i], C, s)
Commanding(a, C, s) == \E i \in 1..Len(a) : IsCommand(a[i], C, s)

Under(C, s) == Answering(msgQ, C, s) \/ Commanding(apiQ, C, s)

\* What will make the session time based, and what will make it distance based.
TimeWays == {"update", "toTimeBased"}
DistanceWays == {"restart", "restarted"}
Endings == {"dstop", "clean"}

\* A session is one or the other, and so it stays.
Apart == \A s \in Sessions :
    ~ /\ s \in DOMAIN tb \/ Under(TimeWays, s)
      /\ s \in DOMAIN db \/ Under(DistanceWays, s)

\* A session that is being started is new.
StartsAreNew == \A i \in 1..Len(msgQ) :
    msgQ[i].m = "start" => msgQ[i].s \notin DOMAIN tb \cup DOMAIN db

\* Only the sessions of clients that have gone are cleaned up.
CleansGone == \A s \in Sessions : Under({"clean"}, s) => ClientOf[s] \notin clients

OneOwed == \A s \in Sessions : owed[s] <= 1

\* Until the capabilities are known nothing has been asked for, so nothing is deferred.
NoneBefore == pending = <<>> /\ (~capsKnown => Unasked /\ DOMAIN db = {})

ApartInv == Apart /\ StartsAreNew /\ CleansGone /\ OneOwed /\ NoneBefore /\ ThenRemoved

\* The engine came up once and has not been asked for another rate.
Undisturbed == Steady /\ nhzs = 0

\* Will the engine run session s when the commands of a have been served, if those that
\* it runs are d.
Distance(c, s) == c.op \in {"startDB", "stopDB"} /\ c.s = s

Running(a, d, s) ==
    \/ s \in d /\ \A i \in 1..Len(a) : ~Distance(a[i], s)
    \/ \E i \in 1..Len(a) : /\ a[i].op = "startDB" /\ a[i].s = s
                            /\ \A j \in 1..Len(a) : j > i => ~Distance(a[j], s)

\* Each answer or command of C is followed by one of D.
Followed(q, a, C, D, s) ==
    /\ \A i \in 1..Len(q) : IsAnswer(q[i], C, s) =>
          \/ \E j \in 1..Len(q) : j > i /\ IsAnswer(q[j], D, s)
          \/ Commanding(a, D, s)
    /\ \A i \in 1..Len(a) : IsCommand(a[i], C, s) =>
          \E j \in 1..Len(a) : j > i /\ IsCommand(a[j], D, s)

\* What the engine will run and what the adapter has differ only while the callback that
\* makes them agree is under way, and it comes last.
Agreed(s) ==
    IF Running(apiQ, dfix, s)
    THEN /\ s \in DOMAIN db \/ Under({"restarted"}, s)
         /\ Followed(msgQ, apiQ, Endings, {"restarted"}, s)
    ELSE /\ s \in DOMAIN db => Under(Endings \cup {"restart"}, s)
         /\ Followed(msgQ, apiQ, {"restarted"}, Endings \cup {"restart"}, s)

RunInv == Undisturbed => AllGranted /\ UpOnce /\ \A s \in Sessions : Agreed(s)

\* Commands are sent behind those under way.
LEMMA CommandingConcat ==
    ASSUME NEW a \in Seq(Command), NEW r \in Seq(Command), NEW C, NEW s
    PROVE  Commanding(a \o r, C, s) <=> Commanding(a, C, s) \/ Commanding(r, C, s)
<1>1. PICK w, n : w = a \o r /\ n = Len(a)
  OBVIOUS
<1>2. /\ \A i \in 1..Len(a) : i \in 1..Len(w) /\ w[i] = a[i]
      /\ \A i \in 1..Len(r) : i + n \in 1..Len(w) /\ w[i + n] = r[i]
      /\ \A i \in 1..Len(w) : \/ i \in 1..Len(a) /\ w[i] = a[i]
                              \/ i - n \in 1..Len(r) /\ w[i] = r[i - n]
  BY <1>1, ConcatFacts
<1>3. Commanding(a, C, s) => Commanding(w, C, s)
  BY <1>2 DEF Commanding
<1>4. Commanding(r, C, s) => Commanding(w, C, s)
  BY <1>2 DEF Commanding
<1>5. Commanding(w, C, s) => Commanding(a, C, s) \/ Commanding(r, C, s)
  BY <1>2 DEF Commanding
<1> QED
  BY <1>1, <1>3, <1>4, <1>5

LEMMA FollowedConcat ==
    ASSUME NEW q, NEW a \in Seq(Command), NEW r \in Seq(Command), NEW C, NEW D, NEW s,
           \/ Followed(q, a, C, D, s) /\ ~Commanding(r, C, s)
           \/ \E k \in 1..Len(r) : /\ IsCommand(r[k], D, s)
                                   /\ \A i \in k..Len(r) : ~IsCommand(r[i], C, s)
    PROVE  Followed(q, a \o r, C, D, s)
<1>1. PICK w, n : w = a \o r /\ n = Len(a)
  OBVIOUS
<1>2. /\ n \in Nat /\ Len(r) \in Nat /\ Len(w) = n + Len(r)
      /\ \A i \in 1..n : i \in 1..Len(w) /\ w[i] = a[i]
      /\ \A i \in 1..Len(r) : i + n \in 1..Len(w) /\ w[i + n] = r[i]
      /\ \A i \in 1..Len(w) : \/ i \in 1..n
                              \/ i - n \in 1..Len(r) /\ w[i] = r[i - n]
  BY <1>1, ConcatFacts
<1>3. Commanding(a, D, s) \/ Commanding(r, D, s) => Commanding(w, D, s)
  BY <1>1, CommandingConcat
<1>4. CASE Followed(q, a, C, D, s) /\ ~Commanding(r, C, s)
  <2>1. ASSUME NEW i \in 1..Len(w), IsCommand(w[i], C, s)
        PROVE  \E j \in 1..Len(w) : j > i /\ IsCommand(w[j], D, s)
    <3>1. i \in 1..n /\ w[i] = a[i]
      BY <1>2, <1>4, <2>1 DEF Commanding
    <3>2. PICK j \in 1..n : j > i /\ IsCommand(a[j], D, s)
      BY <1>1, <1>4, <2>1, <3>1 DEF Followed
    <3> QED
      BY <1>2, <3>2
  <2>2. \A i \in 1..Len(q) : IsAnswer(q[i], C, s) =>
          \/ \E j \in 1..Len(q) : j > i /\ IsAnswer(q[j], D, s)
          \/ Commanding(w, D, s)
    BY <1>3, <1>4 DEF Followed
  <2> QED
    BY <1>1, <2>1, <2>2 DEF Followed
<1>5. ASSUME NEW k \in 1..Len(r), IsCommand(r[k], D, s),
             \A i \in k..Len(r) : ~IsCommand(r[i], C, s)
      PROVE  Followed(q, w, C, D, s)
  <2>1. Commanding(w, D, s)
    BY <1>3, <1>5 DEF Commanding
  <2>2. k + n \in 1..Len(w) /\ IsCommand(w[k + n], D, s)
    BY <1>2, <1>5
  <2>3. ASSUME NEW i \in 1..Len(w), IsCommand(w[i], C, s) PROVE k + n > i
    <3>1. CASE i \in 1..n
      BY <1>2, <3>1
    <3>2. CASE i - n \in 1..Len(r) /\ w[i] = r[i - n]
      <4>1. i - n \notin k..Len(r)
        BY <1>5, <2>3, <3>2
      <4> QED
        BY <1>2, <3>2, <4>1
    <3> QED
      BY <1>2, <3>1, <3>2
  <2> QED
    BY <2>1, <2>2, <2>3 DEF Followed
<1> QED
  BY <1>1, <1>4, <1>5

LEMMA RunningConcat ==
    ASSUME NEW a \in Seq(Command), NEW r \in Seq(Command), NEW d, NEW s
    PROVE  /\ (\A i \in 1..Len(r) : ~Distance(r[i], s)) =>
                  (Running(a \o r, d, s) <=> Running(a, d, s))
           /\ \A k \in 1..Len(r) :
                 Distance(r[k], s) /\ (\A i \in 1..Len(r) : i # k => ~Distance(r[i], s)) =>
                     (Running(a \o r, d, s) <=> r[k].op = "startDB")
<1>1. PICK w, n : w = a \o r /\ n = Len(a)
  OBVIOUS
<1>2. /\ n \in Nat /\ Len(r) \in Nat /\ Len(w) = n + Len(r)
      /\ \A i \in 1..n : i \in 1..Len(w) /\ w[i] = a[i]
      /\ \A i \in 1..Len(r) : i + n \in 1..Len(w) /\ w[i + n] = r[i]
      /\ \A i \in 1..Len(w) : \/ i \in 1..n
                              \/ i - n \in 1..Len(r) /\ w[i] = r[i - n]
  BY <1>1, ConcatFacts
<1>3. ASSUME \A i \in 1..Len(r) : ~Distance(r[i], s)
      PROVE  Running(w, d, s) <=> Running(a, d, s)
  <2>1. \A i \in 1..Len(w) : Distance(w[i], s) => i \in 1..n
    BY <1>2, <1>3
  <2>2. (\A i \in 1..Len(w) : ~Distance(w[i], s)) <=> (\A i \in 1..n : ~Distance(a[i], s))
    BY <1>2, <2>1
  <2>3. ASSUME NEW i \in 1..n, \A j \in 1..n : j > i => ~Distance(a[j], s)
        PROVE  \A j \in 1..Len(w) : j > i => ~Distance(w[j], s)
    BY <1>2, <2>1, <2>3
  <2>4. ASSUME NEW i \in 1..Len(w), w[i].op = "startDB", w[i].s = s PROVE i \in 1..n
    BY <2>1, <2>4 DEF Distance
  <2>5. ASSUME NEW i \in 1..n, \A j \in 1..Len(w) : j > i => ~Distance(w[j], s)
        PROVE  \A j \in 1..n : j > i => ~Distance(a[j], s)
    BY <1>2, <2>5
  <2>6. (\E i \in 1..Len(w) : /\ w[i].op = "startDB" /\ w[i].s = s
                              /\ \A j \in 1..Len(w) : j > i => ~Distance(w[j], s))
        => \E i \in 1..n : /\ a[i].op = "startDB" /\ a[i].s = s
                           /\ \A j \in 1..n : j > i => ~Distance(a[j], s)
    BY <1>2, <2>4, <2>5
  <2>7. (\E i \in 1..n : /\ a[i].op = "startDB" /\ a[i].s = s
                         /\ \A j \in 1..n : j > i => ~Distance(a[j], s))
        => \E i \in 1..Len(w) : /\ w[i].op = "startDB" /\ w[i].s = s
                                /\ \A j \in 1..Len(w) : j > i => ~Distance(w[j], s)
    BY <1>2, <2>3
  <2> QED
    BY <1>1, <2>2, <2>6, <2>7 DEF Running
<1>4. ASSUME NEW k \in 1..Len(r), Distance(r[k], s),
             \A i \in 1..Len(r) : i # k => ~Distance(r[i], s)
      PROVE  Running(w, d, s) <=> r[k].op = "startDB"
  <2>1. PICK l : l = k + n
    OBVIOUS
  <2>2. l \in 1..Len(w) /\ w[l] = r[k] /\ Distance(w[l], s)
    BY <1>2, <1>4, <2>1
  <2>3. ASSUME NEW j \in 1..Len(w), j > l PROVE ~Distance(w[j], s)
    <3>1. j - n \in 1..Len(r) /\ j - n # k /\ w[j] = r[j - n]
      BY <1>2, <2>1, <2>3
    <3> QED
      BY <1>4, <3>1
  <2>4. ASSUME NEW i \in 1..Len(w), w[i].op = "startDB", w[i].s = s,
               \A j \in 1..Len(w) : j > i => ~Distance(w[j], s)
        PROVE  i = l
    BY <2>2, <2>3, <2>4 DEF Distance
  <2> QED
    BY <2>2, <2>3, <2>4 DEF Running, Distance
<1> QED
  BY <1>1, <1>3, <1>4

\* The engine takes the first command.
LEMMA RunningTail ==
    ASSUME NEW a \in Seq(Command), a # <<>>, NEW d, NEW e, NEW s,
           s \in e <=> IF Distance(a[1], s) THEN a[1].op = "startDB" ELSE s \in d
    PROVE  Running(Tail(a), e, s) <=> Running(a, d, s)
<1>1. PICK t : t = Tail(a)
  OBVIOUS
<1>2. /\ 1 \in 1..Len(a) /\ Len(a) = Len(t) + 1 /\ Len(t) \in Nat
      /\ \A i \in 1..Len(t) : i + 1 \in 1..Len(a) /\ t[i] = a[i + 1]
      /\ \A i \in 1..Len(a) : i = 1 \/ (i - 1 \in 1..Len(t) /\ t[i - 1] = a[i])
  BY <1>1, HeadTail
<1>3. (\A i \in 1..Len(a) : ~Distance(a[i], s)) <=>
         ~Distance(a[1], s) /\ \A i \in 1..Len(t) : ~Distance(t[i], s)
  BY <1>2
<1>4. (\A j \in 1..Len(a) : j > 1 => ~Distance(a[j], s)) <=>
         \A i \in 1..Len(t) : ~Distance(t[i], s)
  <2>1. ASSUME \A j \in 1..Len(a) : j > 1 => ~Distance(a[j], s), NEW i \in 1..Len(t)
        PROVE  ~Distance(t[i], s)
    BY <1>2, <2>1
  <2>2. ASSUME \A i \in 1..Len(t) : ~Distance(t[i], s), NEW j \in 1..Len(a), j > 1
        PROVE  ~Distance(a[j], s)
    BY <1>2, <2>2
  <2> QED
    BY <2>1, <2>2
<1>5. ASSUME NEW i \in 1..Len(t), \A j \in 1..Len(t) : j > i => ~Distance(t[j], s)
      PROVE  \A j \in 1..Len(a) : j > i + 1 => ~Distance(a[j], s)
  <2>1. ASSUME NEW j \in 1..Len(a), j > i + 1
        PROVE  ~Distance(a[j], s)
    <3>1. j - 1 \in 1..Len(t) /\ j - 1 > i /\ t[j - 1] = a[j]
      BY <1>2, <2>1
    <3> QED
      BY <1>5, <3>1
  <2> QED
    BY <2>1
<1>6. ASSUME NEW i \in 1..Len(a), i # 1, \A j \in 1..Len(a) : j > i => ~Distance(a[j], s)
      PROVE  \A j \in 1..Len(t) : j > i - 1 => ~Distance(t[j], s)
  <2>1. ASSUME NEW j \in 1..Len(t), j > i - 1
        PROVE  ~Distance(t[j], s)
    BY <1>2, <1>6, <2>1
  <2> QED
    BY <2>1
<1> DEFINE Starts(q, i) == /\ q[i].op = "startDB" /\ q[i].s = s
                           /\ \A j \in 1..Len(q) : j > i => ~Distance(q[j], s)
<1>7. \A i \in 1..Len(t) : Starts(t, i) => Starts(a, i + 1)
  BY <1>2, <1>5
<1>8. \A i \in 1..Len(a) : i # 1 /\ Starts(a, i) => Starts(t, i - 1)
  BY <1>2, <1>6
<1>9. Starts(a, 1) <=> a[1].op = "startDB" /\ a[1].s = s /\ \A i \in 1..Len(t) : ~Distance(t[i], s)
  BY <1>4
<1>10. Running(a, d, s) <=> (s \in d /\ \A i \in 1..Len(a) : ~Distance(a[i], s))
                            \/ \E i \in 1..Len(a) : Starts(a, i)
  BY DEF Running
<1>11. Running(t, e, s) <=> (s \in e /\ \A i \in 1..Len(t) : ~Distance(t[i], s))
                            \/ \E i \in 1..Len(t) : Starts(t, i)
  BY DEF Running
<1> HIDE DEF Starts
<1>12. (\E i \in 1..Len(a) : Starts(a, i)) <=> Starts(a, 1) \/ \E i \in 1..Len(t) : Starts(t, i)
  BY <1>2, <1>7, <1>8
<1> QED
  BY <1>1, <1>3, <1>9, <1>10, <1>11, <1>12 DEF Distance

\* The first message is taken.
LEMMA AnsweringTail ==
    ASSUME NEW q \in Seq(Message), q # <<>>, NEW C, NEW s
    PROVE  Answering(q, C, s) <=> IsAnswer(q[1], C, s) \/ Answering(Tail(q), C, s)
<1>1. PICK t : t = Tail(q)
  OBVIOUS
<1>2. /\ 1 \in 1..Len(q)
      /\ \A i \in 1..Len(t) : i + 1 \in 1..Len(q) /\ t[i] = q[i + 1]
      /\ \A i \in 1..Len(q) : i = 1 \/ (i - 1 \in 1..Len(t) /\ t[i - 1] = q[i])
  BY <1>1, HeadTail
<1>3. Answering(t, C, s) => Answering(q, C, s)
  BY <1>2 DEF Answering
<1>4. Answering(q, C, s) => IsAnswer(q[1], C, s) \/ Answering(t, C, s)
  BY <1>2 DEF Answering
<1> QED
  BY <1>1, <1>2, <1>3, <1>4 DEF Answering

LEMMA CommandingTail ==
    ASSUME NEW a \in Seq(Command), a # <<>>, NEW C, NEW s
    PROVE  Commanding(a, C, s) <=> IsCommand(a[1], C, s) \/ Commanding(Tail(a), C, s)
<1>1. PICK t : t = Tail(a)
  OBVIOUS
<1>2. /\ 1 \in 1..Len(a)
      /\ \A i \in 1..Len(t) : i + 1 \in 1..Len(a) /\ t[i] = a[i + 1]
      /\ \A i \in 1..Len(a) : i = 1 \/ (i - 1 \in 1..Len(t) /\ t[i - 1] = a[i])
  BY <1>1, HeadTail
<1>3. Commanding(t, C, s) => Commanding(a, C, s)
  BY <1>2 DEF Commanding
<1>4. Commanding(a, C, s) => IsCommand(a[1], C, s) \/ Commanding(t, C, s)
  BY <1>2 DEF Commanding
<1> QED
  BY <1>1, <1>2, <1>3, <1>4 DEF Commanding

LEMMA AnsweringPost ==
    ASSUME NEW q \in Seq(Message), NEW m \in Message, NEW C, NEW s
    PROVE  Answering(Append(q, m), C, s) <=> Answering(q, C, s) \/ IsAnswer(m, C, s)
<1>1. PICK t, n : t = Append(q, m) /\ n = Len(q)
  OBVIOUS
<1>2. /\ n + 1 \in 1..Len(t) /\ t[n + 1] = m
      /\ \A i \in 1..Len(q) : i \in 1..Len(t) /\ t[i] = q[i]
      /\ \A i \in 1..Len(t) : i \in 1..Len(q) \/ i = n + 1
  BY <1>1, AppendFacts
<1>3. Answering(q, C, s) \/ IsAnswer(m, C, s) => Answering(t, C, s)
  BY <1>2 DEF Answering
<1>4. Answering(t, C, s) => Answering(q, C, s) \/ IsAnswer(m, C, s)
  BY <1>2 DEF Answering
<1> QED
  BY <1>1, <1>3, <1>4

LEMMA FollowedTail ==
    ASSUME NEW q \in Seq(Message), q # <<>>, NEW a, NEW C, NEW D, NEW s,
           Followed(q, a, C, D, s)
    PROVE  /\ Followed(Tail(q), a, C, D, s)
           /\ IsAnswer(q[1], C, s) => Answering(Tail(q), D, s) \/ Commanding(a, D, s)
<1>1. PICK t : t = Tail(q)
  OBVIOUS
<1>2. /\ 1 \in 1..Len(q) /\ Len(t) \in Nat
      /\ \A i \in 1..Len(t) : i + 1 \in 1..Len(q) /\ t[i] = q[i + 1]
      /\ \A i \in 1..Len(q) : i = 1 \/ (i - 1 \in 1..Len(t) /\ t[i - 1] = q[i])
  BY <1>1, HeadTail
<1>3. \A i \in 1..Len(q) : IsAnswer(q[i], C, s) =>
          \/ \E j \in 1..Len(q) : j > i /\ IsAnswer(q[j], D, s)
          \/ Commanding(a, D, s)
  BY DEF Followed
<1>4. ASSUME NEW i \in 1..Len(t), IsAnswer(t[i], C, s), ~Commanding(a, D, s)
      PROVE  \E j \in 1..Len(t) : j > i /\ IsAnswer(t[j], D, s)
  <2>1. i + 1 \in 1..Len(q) /\ IsAnswer(q[i + 1], C, s)
    BY <1>2, <1>4
  <2>2. PICK j \in 1..Len(q) : j > i + 1 /\ IsAnswer(q[j], D, s)
    BY <1>3, <1>4, <2>1
  <2>3. j - 1 \in 1..Len(t) /\ t[j - 1] = q[j] /\ j - 1 > i
    BY <1>2, <2>2
  <2> QED
    BY <2>2, <2>3
<1>5. ASSUME IsAnswer(q[1], C, s), ~Commanding(a, D, s) PROVE Answering(t, D, s)
  <2>1. PICK j \in 1..Len(q) : j > 1 /\ IsAnswer(q[j], D, s)
    BY <1>2, <1>3, <1>5
  <2>2. j - 1 \in 1..Len(t) /\ t[j - 1] = q[j]
    BY <1>2, <2>1
  <2> QED
    BY <2>1, <2>2 DEF Answering
<1>6. \A i \in 1..Len(a) : IsCommand(a[i], C, s) =>
          \E j \in 1..Len(a) : j > i /\ IsCommand(a[j], D, s)
  BY DEF Followed
<1> QED
  BY <1>1, <1>4, <1>5, <1>6 DEF Followed

LEMMA FollowedPost ==
    ASSUME NEW q \in Seq(Message), NEW m \in Message, NEW a, NEW C, NEW D, NEW s,
           Followed(q, a, C, D, s), ~IsAnswer(m, C, s)
    PROVE  Followed(Append(q, m), a, C, D, s)
<1>1. PICK t, n : t = Append(q, m) /\ n = Len(q)
  OBVIOUS
<1>2. /\ t[n + 1] = m
      /\ \A i \in 1..Len(q) : i \in 1..Len(t) /\ t[i] = q[i]
      /\ \A i \in 1..Len(t) : i \in 1..Len(q) \/ i = n + 1
  BY <1>1, AppendFacts
<1>3. ASSUME NEW i \in 1..Len(t), IsAnswer(t[i], C, s)
      PROVE  \/ \E j \in 1..Len(t) : j > i /\ IsAnswer(t[j], D, s)
             \/ Commanding(a, D, s)
  BY <1>2, <1>3 DEF Followed
<1>6. \A i \in 1..Len(a) : IsCommand(a[i], C, s) =>
          \E j \in 1..Len(a) : j > i /\ IsCommand(a[j], D, s)
  BY DEF Followed
<1> QED
  BY <1>1, <1>3, <1>6 DEF Followed

\* The engine answers the first command, ...
LEMMA FollowedServed ==
    ASSUME NEW q \in Seq(Message), NEW m \in Message, NEW a \in Seq(Command), a # <<>>,
           NEW C, NEW D, NEW s, Followed(q, a, C, D, s),
           IsAnswer(m, C, s) <=> IsCommand(a[1], C, s),
           IsAnswer(m, D, s) <=> IsCommand(a[1], D, s)
    PROVE  Followed(Append(q, m), Tail(a), C, D, s)
<1>1. PICK t, n, b : t = Append(q, m) /\ n = Len(q) /\ b = Tail(a)
  OBVIOUS
<1>2. /\ n \in Nat /\ t[n + 1] = m /\ n + 1 \in 1..Len(t)
      /\ \A i \in 1..n : i \in 1..Len(t) /\ t[i] = q[i]
      /\ \A i \in 1..Len(t) : i \in 1..n \/ i = n + 1
  BY <1>1, AppendFacts
<1>3. /\ 1 \in 1..Len(a) /\ Len(b) \in Nat
      /\ \A i \in 1..Len(b) : i + 1 \in 1..Len(a) /\ b[i] = a[i + 1]
      /\ \A i \in 1..Len(a) : i = 1 \/ (i - 1 \in 1..Len(b) /\ b[i - 1] = a[i])
  BY <1>1, HeadTail
<1>4. /\ \A i \in 1..n : IsAnswer(q[i], C, s) =>
            \/ \E j \in 1..n : j > i /\ IsAnswer(q[j], D, s)
            \/ Commanding(a, D, s)
      /\ \A i \in 1..Len(a) : IsCommand(a[i], C, s) =>
            \E j \in 1..Len(a) : j > i /\ IsCommand(a[j], D, s)
  BY <1>1 DEF Followed
<1>5. Commanding(a, D, s) <=> IsCommand(a[1], D, s) \/ Commanding(b, D, s)
  BY <1>1, CommandingTail
<1>6. ASSUME NEW i \in 1..Len(t), IsAnswer(t[i], C, s), ~Commanding(b, D, s)
      PROVE  \E j \in 1..Len(t) : j > i /\ IsAnswer(t[j], D, s)
  <2>1. CASE i \in 1..n
    <3>1. CASE \E j \in 1..n : j > i /\ IsAnswer(q[j], D, s)
      BY <1>2, <3>1
    <3>2. CASE Commanding(a, D, s)
      BY <1>2, <1>5, <1>6, <2>1, <3>2
    <3>3. IsAnswer(q[i], C, s)
      BY <1>2, <1>6, <2>1
    <3> QED
      BY <1>4, <2>1, <3>1, <3>2, <3>3
  <2>2. CASE i = n + 1
    <3>1. IsCommand(a[1], C, s)
      BY <1>2, <1>6, <2>2
    <3>2. PICK j \in 1..Len(a) : j > 1 /\ IsCommand(a[j], D, s)
      BY <1>3, <1>4, <3>1
    <3>3. Commanding(b, D, s)
      BY <1>3, <3>2 DEF Commanding
    <3> QED
      BY <1>6, <3>3
  <2> QED
    BY <1>2, <2>1, <2>2
<1>7. ASSUME NEW i \in 1..Len(b), IsCommand(b[i], C, s)
      PROVE  \E j \in 1..Len(b) : j > i /\ IsCommand(b[j], D, s)
  <2>1. i + 1 \in 1..Len(a) /\ IsCommand(a[i + 1], C, s)
    BY <1>3, <1>7
  <2>2. PICK j \in 1..Len(a) : j > i + 1 /\ IsCommand(a[j], D, s)
    BY <1>4, <2>1
  <2>3. j - 1 \in 1..Len(b) /\ b[j - 1] = a[j] /\ j - 1 > i
    BY <1>3, <2>2
  <2> QED
    BY <2>2, <2>3
<1> QED
  BY <1>1, <1>6, <1>7 DEF Followed

\* ... or does not.
LEMMA FollowedDropped ==
    ASSUME NEW q, NEW a \in Seq(Command), a # <<>>, NEW C, NEW D, NEW s,
           Followed(q, a, C, D, s), ~IsCommand(a[1], D, s)
    PROVE  Followed(q, Tail(a), C, D, s)
<1>1. PICK b : b = Tail(a)
  OBVIOUS
<1>2. /\ 1 \in 1..Len(a) /\ Len(b) \in Nat
      /\ \A i \in 1..Len(b) : i + 1 \in 1..Len(a) /\ b[i] = a[i + 1]
      /\ \A i \in 1..Len(a) : i = 1 \/ (i - 1 \in 1..Len(b) /\ b[i - 1] = a[i])
  BY <1>1, HeadTail
<1>3. Commanding(a, D, s) => Commanding(b, D, s)
  BY <1>1, CommandingTail
<1>4. \A i \in 1..Len(a) : IsCommand(a[i], C, s) =>
          \E j \in 1..Len(a) : j > i /\ IsCommand(a[j], D, s)
  BY DEF Followed
<1>5. ASSUME NEW i \in 1..Len(b), IsCommand(b[i], C, s)
      PROVE  \E j \in 1..Len(b) : j > i /\ IsCommand(b[j], D, s)
  <2>1. i + 1 \in 1..Len(a) /\ IsCommand(a[i + 1], C, s)
    BY <1>2, <1>5
  <2>2. PICK j \in 1..Len(a) : j > i + 1 /\ IsCommand(a[j], D, s)
    BY <1>4, <2>1
  <2>3. j - 1 \in 1..Len(b) /\ b[j - 1] = a[j] /\ j - 1 > i
    BY <1>2, <2>2
  <2> QED
    BY <2>2, <2>3
<1>6. \A i \in 1..Len(q) : IsAnswer(q[i], C, s) =>
          \/ \E j \in 1..Len(q) : j > i /\ IsAnswer(q[j], D, s)
          \/ Commanding(b, D, s)
  BY <1>3 DEF Followed
<1> QED
  BY <1>1, <1>5, <1>6 DEF Followed

-----------------------------------------------------------------------------
(* A client that waits for one answer at a time. *)

LEMMA NZero ==
    ASSUME NEW X, NEW q \in Seq(X), NEW S, N(q, S) = 0
    PROVE  \A i \in 1..Len(q) : q[i] \notin S
<1>1. IsFiniteSet(Marked(q, S)) /\ Cardinality(Marked(q, S)) = 0
  BY NTyped DEF N
<1>2. Marked(q, S) = {}
  BY <1>1, FS_EmptySet
<1> QED
  BY <1>2 DEF Marked

\* Nothing under way in the queues q and a is for the client of session s.
Unawaited(q, a, s) ==
    /\ \A i \in 1..Len(q) : q[i] \notin Awaited(s)
    /\ \A i \in 1..Len(a) : a[i] \notin Asking(s)

LEMMA UnawaitedFacts ==
    ASSUME NEW q \in Seq(Message), NEW a \in Seq(Command), NEW s, Unawaited(q, a, s)
    PROVE  /\ \A i \in 1..Len(q) : ~Concerns(q[i], s)
           /\ \A C : "none" \notin C /\ "clean" \notin C =>
                        ~Answering(q, C, s) /\ ~Commanding(a, C, s)
<1>1. \A i \in 1..Len(q) : q[i] \in Message /\ q[i] \notin Awaited(s)
  BY DEF Unawaited
<1>2. \A i \in 1..Len(a) : a[i] \in Command /\ a[i] \notin Asking(s)
  BY DEF Unawaited
<1>3. \A i \in 1..Len(q) : ~Concerns(q[i], s)
  BY <1>1 DEF Concerns, Awaited
<1>4. ASSUME NEW C, "none" \notin C, "clean" \notin C
      PROVE  ~Answering(q, C, s) /\ ~Commanding(a, C, s)
  BY <1>1, <1>2, <1>4 DEF Answering, IsAnswer, Awaited, Commanding, IsCommand, Asking
<1> QED
  BY <1>3, <1>4

\* The message that is handled is the only one for its session, ...
LEMMA AloneTaken ==
    ASSUME TypedInv, NeverTwice, OneOwed, NEW s \in Sessions, ClientOf[s] \in clients \ removing,
           msgQ # <<>>, Head(msgQ) \in Awaited(s)
    PROVE  Unawaited(Tail(msgQ), apiQ, s)
<1>1. PICK q, t, p, a, b, c : /\ q = msgQ /\ t = Tail(msgQ) /\ p = apiQ
                              /\ a = N(p, Asking(s)) /\ b = N(t, Awaited(s))
                              /\ c = N(pending, Awaited(s))
  OBVIOUS
<1>2. q \in Seq(Message) /\ q # <<>> /\ t \in Seq(Message) /\ p \in Seq(Command)
  BY <1>1, HeadTail DEF TypedInv, TypeOK
<1>3. N(q, Awaited(s)) = b + 1
  BY <1>1, <1>2, NTail
<1>4. a \in Nat /\ b \in Nat /\ c \in Nat /\ owed[s] \in Int
  BY <1>1, <1>2, NTyped, BalanceTyped
<1>5. Balance(s) = owed[s] - a - (b + 1) - c /\ Balance(s) >= 0 /\ owed[s] <= 1
  BY <1>1, <1>3 DEF Balance, Due, NeverTwice, OneOwed
<1>6. a = 0 /\ b = 0
  BY <1>4, <1>5
<1> QED
  BY <1>1, <1>2, <1>6, NZero DEF Unawaited

-----------------------------------------------------------------------------
(* What a step of the adapter does to each session. *)

\* The command does not touch session x in the engine's distance based sessions.
Harmless(c, x) ==
    c.op # "open" /\ c.s = x => c.op \in {"startTB", "stopFix"} /\ c.cb \in {"none", "start", "stop"}

Others(r, x) == \A i \in 1..Len(r) : Harmless(r[i], x)

Timed(r, x) == \A i \in 1..Len(r) : r[i].op # "open" /\ r[i].s = x =>
    r[i].op \in {"startTB", "stopFix"} /\ r[i].cb \in {"none", "start", "stop", "update"}

Sends(r, op, cb, x) ==
    \E k \in 1..Len(r) : /\ r[k].op = op /\ r[k].cb = cb /\ r[k].s = x
                         /\ \A i \in 1..Len(r) : i # k => Harmless(r[i], x)

Loses(x) == (x \in DOMAIN tb' => x \in DOMAIN tb) /\ (x \in DOMAIN db' => x \in DOMAIN db)
SameDistance(x) == x \in DOMAIN db' <=> x \in DOMAIN db
SameSession(x) == Loses(x) /\ SameDistance(x)

From(kind, x) == Arrived(kind) /\ Head(msgQ).s = x
Came(C, x, ok) == Arrived("resp") /\ IsAnswer(Head(msgQ), C, x) /\ Head(msgQ).ok = ok

Turns == Endings \cup DistanceWays

LosesTime(x) == x \in DOMAIN tb' => x \in DOMAIN tb

\* ... when its client asks for something, ...
Starts(r, x) ==
    /\ From("start", x) /\ Registered(x)
    /\ \/ Others(r, x) /\ SameDistance(x)
       \/ Sends(r, "startDB", "dstart", x) /\ x \in DOMAIN db' /\ LosesTime(x)

Updates(r, x) ==
    /\ From("update", x)
    /\ \/ Timed(r, x) /\ SameDistance(x) /\ x \in DOMAIN tb
       \/ /\ Sends(r, "startDB", "none", x)
          /\ x \in DOMAIN tb /\ x \notin DOMAIN tb' /\ x \in DOMAIN db'
       \/ /\ Sends(r, "stopDB", "toTimeBased", x)
          /\ x \in DOMAIN db /\ x \notin DOMAIN db' /\ LosesTime(x)
       \/ Sends(r, "stopDB", "restart", x) /\ x \in DOMAIN db /\ SameSession(x)

Stops(r, x) ==
    \/ From("stop", x) /\ Sends(r, "stopDB", "dstop", x) /\ x \in DOMAIN db /\ SameSession(x)
    \/ /\ RemoveRest /\ ClientOf[x] \in removing
       /\ Sends(r, "stopDB", "clean", x) /\ x \in DOMAIN db /\ SameSession(x)

\* ... when the engine has answered, ...
Goes(r, x) ==
    \/ Came({"restart"}, x, TRUE) /\ Sends(r, "startDB", "restarted", x) /\ SameSession(x)
    \/ Came({"restarted"}, x, TRUE) /\ Others(r, x) /\ x \in DOMAIN db' /\ LosesTime(x)
    \/ Came(Endings, x, TRUE) /\ Others(r, x) /\ x \notin DOMAIN db' /\ LosesTime(x)
    \/ Came(TimeWays, x, TRUE) /\ Others(r, x) /\ SameDistance(x)
    \/ Came(TimeWays, x, FALSE) /\ Others(r, x) /\ SameDistance(x)
    \/ Came(Callback, x, FALSE) /\ Others(r, x) /\ Loses(x)

\* ... when the sessions are restarted, and at other times.
Renews(r, x) ==
    /\ ProcEngineUp \/ ProcNHz
    /\ SameSession(x)
    /\ \A i \in 1..Len(r) : r[i].op # "open" /\ r[i].s = x => r[i].cb = "none"
    /\ DOMAIN db = {} => Others(r, x)

Rests(r, x) ==
    /\ Others(r, x) /\ SameSession(x)
    /\ Arrived("resp") => ~IsAnswer(Head(msgQ), Turns, x)

Moves(r, x) ==
    Starts(r, x) \/ Updates(r, x) \/ Stops(r, x) \/ Goes(r, x) \/ Renews(r, x) \/ Rests(r, x)

Moved == \E r \in Seq(Command) : apiQ' = apiQ \o r /\ \A x \in Sessions : Moves(r, x)

\* What is sent.
LEMMA OneSent ==
    ASSUME NEW c
    PROVE  /\ \A x : Others(<<c>>, x) <=> Harmless(c, x)
           /\ \A x : Sends(<<c>>, c.op, c.cb, x) <=> c.s = x
<1>1. PICK r : r = <<c>>
  OBVIOUS
<1>2. Len(r) = 1 /\ r[1] = c
  BY <1>1
<1>3. \A x : Others(r, x) <=> Harmless(c, x)
  BY <1>2 DEF Others
<1>4. \A x : Sends(r, c.op, c.cb, x) <=> c.s = x
  BY <1>2 DEF Sends
<1> QED
  BY <1>1, <1>3, <1>4

LEMMA NoneSent == \A x : Others(<<>>, x) /\ Timed(<<>>, x)
  BY DEF Others, Timed

LEMMA EffectsAreHarmless ==
    ASSUME NEW e, NEW s, NEW x
    PROVE  /\ Frees(e, s) => Others(e.cmds, x)
           /\ \A co, o : Covers(e, "start", s, co, o) => Others(e.cmds, x)
           /\ \A co, o : Covers(e, "update", s, co, o) =>
                 Timed(e.cmds, x) /\ (x # s => Others(e.cmds, x))
           /\ \A hz : Restarts(e, hz) => Others(e.cmds, x)
<1>1. Silent(e) => Others(e.cmds, x) /\ Timed(e.cmds, x)
  BY NoneSent DEF Silent
<1>2. \A cb \in {"none", "start", "stop"} : \A op \in {"startTB", "stopFix"} : \A p, t, co :
         Others(<<Cmd(op, p, cb, t, co)>>, x)
  <2> TAKE cb \in {"none", "start", "stop"}
  <2> TAKE op \in {"startTB", "stopFix"}
  <2> TAKE p, t, co
  <2>1. PICK c : c = Cmd(op, p, cb, t, co)
    OBVIOUS
  <2>2. Harmless(c, x)
    BY <2>1 DEF Cmd, Harmless
  <2>3. Others(<<c>>, x)
    BY <2>2, OneSent
  <2> QED
    BY <2>1, <2>3
<1>3. \A co, p : Runs(e, "start", s, co, p) => Others(e.cmds, x)
  BY <1>2 DEF Runs
<1>4. Ends(e, s) => Others(e.cmds, x)
  BY <1>2 DEF Ends
<1>5. ASSUME NEW co, NEW p, Runs(e, "update", s, co, p)
      PROVE  Timed(e.cmds, x) /\ (x # s => Others(e.cmds, x))
  <2>1. PICK c, r : c = Cmd("startTB", p, "update", s, co) /\ r = <<c>>
    OBVIOUS
  <2>2. c.op = "startTB" /\ c.cb = "update" /\ c.s = s
    BY <2>1 DEF Cmd
  <2>3. Len(r) = 1 /\ r[1] = c /\ e.cmds = r
    BY <1>5, <2>1 DEF Runs
  <2>4. Timed(r, x)
    BY <2>2, <2>3 DEF Timed
  <2>5. x # s => Others(r, x)
    BY <2>2, <2>3 DEF Others, Harmless
  <2> QED
    BY <2>3, <2>4, <2>5
<1>6. \A hz : Restarts(e, hz) => Others(e.cmds, x)
  BY <1>2, NoneSent DEF Restarts
<1> QED
  BY <1>1, <1>3, <1>4, <1>5, <1>6 DEF Frees, Covers, Fast

LEMMA AppendSends ==
    ASSUME NEW r \in Seq(Command), NEW c \in Command, NEW x, Others(r, x)
    PROVE  /\ Harmless(c, x) => Others(Append(r, c), x)
           /\ c.s = x => Sends(Append(r, c), c.op, c.cb, x)
<1>1. PICK w, n : w = Append(r, c) /\ n = Len(r)
  OBVIOUS
<1>2. /\ n + 1 \in 1..Len(w) /\ w[n + 1] = c
      /\ \A i \in 1..Len(w) : i = n + 1 \/ (i \in 1..n /\ w[i] = r[i])
  BY <1>1, AppendFacts
<1>3. \A i \in 1..n : Harmless(r[i], x)
  BY <1>1 DEF Others
<1>4. Harmless(c, x) => Others(w, x)
  BY <1>2, <1>3 DEF Others
<1>5. c.s = x => Sends(w, c.op, c.cb, x)
  BY <1>2, <1>3 DEF Sends
<1> QED
  BY <1>1, <1>4, <1>5

LEMMA DistanceCmdsSend ==
    ASSUME MapTyped(db), NEW S \in SUBSET DOMAIN db, IsFiniteSet(S),
           NEW op \in {"startDB", "stopDB"}, NEW cb \in Callback,
           NEW q \in DistanceCmds(S, op, cb), NEW x
    PROVE  /\ q \in Seq(Command)
           /\ Others(q, x) \/ (x \in S /\ Sends(q, op, cb, x))
           /\ \A i \in 1..Len(q) : q[i].cb = cb
<1>1. /\ q \in Seq(Command)
      /\ \A i \in 1..Len(q) : q[i].s \in S /\ q[i] = Cmd(op, db[q[i].s], cb, q[i].s, None)
  BY DistanceCmdsFacts
<1>2. ASSUME NEW i \in 1..Len(q) PROVE q[i].op = op /\ q[i].cb = cb
  <2>1. PICK c, o, t : c = q[i] /\ c = Cmd(op, o, cb, t, None)
    BY <1>1, <1>2
  <2>2. c.op = op /\ c.cb = cb
    BY <2>1 DEF Cmd
  <2> QED
    BY <2>1, <2>2
<1>3. \A i, j \in 1..Len(q) : q[i].s = q[j].s => i = j
  <2>1. PICK n \in Nat : n = Cardinality(S)
    BY FS_CardinalityType
  <2>2. PICK D : q \in [1..n -> D] /\ \A i, j \in 1..n : q[i].s = q[j].s => i = j
    BY <2>1 DEF DistanceCmds
  <2>3. Len(q) = n
    BY <1>1, <2>2
  <2> QED
    BY <2>2, <2>3
<1>4. ASSUME NEW k \in 1..Len(q), q[k].s = x PROVE x \in S /\ Sends(q, op, cb, x)
  BY <1>1, <1>2, <1>3, <1>4 DEF Harmless, Sends
<1>5. (\A i \in 1..Len(q) : q[i].s # x) => Others(q, x)
  BY DEF Others, Harmless
<1> QED
  BY <1>1, <1>2, <1>4, <1>5

-----------------------------------------------------------------------------

\* A step that concerns session s, with the commands r.
LEMMA MovedFor ==
    ASSUME NEW r \in Seq(Command), apiQ' = apiQ \o r, NEW s \in Sessions,
           \A x \in Sessions : x # s => Others(r, x) /\ SameSession(x),
           Arrived("resp") => Head(msgQ).s = s, Moves(r, s)
    PROVE  Moved
<1>1. ASSUME NEW x \in Sessions, x # s PROVE Moves(r, x)
  BY <1>1 DEF Rests, IsAnswer, Moves
<1> QED
  BY <1>1 DEF Moved

\* One that concerns none.
LEMMA MovedNone ==
    ASSUME TypedInv, ~Arrived("resp"), UNCHANGED <<apiQ, tb, db>>
    PROVE  Moved
<1>1. PICK r : r = <<>>
  OBVIOUS
<1>2. r \in Seq(Command) /\ apiQ' = apiQ \o r
  BY <1>1 DEF TypedInv, TypeOK
<1>3. \A x : Rests(r, x)
  BY <1>1, NoneSent DEF Rests, SameSession, SameDistance, Loses
<1> QED
  BY <1>2, <1>3 DEF Moved, Moves

LEMMA SendSent ==
    ASSUME TypedInv, NEW c \in Command, Send(c)
    PROVE  /\ <<c>> \in Seq(Command) /\ apiQ' = apiQ \o <<c>>
           /\ \A x : x # c.s => Others(<<c>>, x)
           /\ Sends(<<c>>, c.op, c.cb, c.s)
<1>1. apiQ \in Seq(Command)
  BY DEF TypedInv, TypeOK
<1>2. apiQ' = apiQ \o <<c>> /\ <<c>> \in Seq(Command)
  BY <1>1 DEF Send
<1>3. \A x : x # c.s => Harmless(c, x)
  BY DEF Harmless
<1> QED
  BY <1>2, <1>3, OneSent

LEMMA PutSame ==
    ASSUME NEW s, NEW o
    PROVE  /\ tb' = Put(tb, s, o) /\ db' = db =>
                 /\ \A x : SameDistance(x) /\ (x # s => SameSession(x))
           /\ tb' = tb /\ db' = Put(db, s, o) =>
                 /\ \A x : LosesTime(x) /\ (x # s => SameSession(x))
                 /\ s \in DOMAIN db'
           /\ tb' = Drop(tb, s) /\ db' = Put(db, s, o) =>
                 /\ \A x : x # s => SameSession(x)
                 /\ s \in DOMAIN db' /\ s \notin DOMAIN tb'
  BY DEF Put, Drop, SameDistance, SameSession, Loses, LosesTime

LEMMA DropSame ==
    ASSUME NEW s
    PROVE  /\ tb' = Drop(tb, s) /\ db' = db =>
                 /\ \A x : SameSession(x) /\ LosesTime(x) /\ Loses(x)
           /\ tb' = tb /\ db' = Drop(db, s) =>
                 /\ \A x : LosesTime(x) /\ Loses(x) /\ (x # s => SameSession(x))
                 /\ s \notin DOMAIN db'
           /\ UNCHANGED <<tb, db>> =>
                 \A x : SameSession(x) /\ LosesTime(x) /\ Loses(x) /\ SameDistance(x)
  BY DEF Drop, SameDistance, SameSession, Loses, LosesTime

LEMMA StartMoved ==
    ASSUME TypedInv, ProcStart
    PROVE  Moved
<1>1. PICK s, o : s = Head(msgQ).s /\ o = Raise(Head(msgQ).o)
  OBVIOUS
<1>2. Arrived("start") /\ ~Arrived("resp")
  BY DEF ProcStart, Arrived
<1>3. s \in Sessions /\ o \in OptionType /\ From("start", s)
  BY <1>1, <1>2, HeadTyped, RaiseTyped DEF From
<1>4. CASE UNCHANGED <<apiQ, tb, db>>
  BY <1>2, <1>4, MovedNone
<1>5. CASE /\ Registered(s) /\ SetMaps(save(Maps, s, o)) /\ IsDistance(o)
           /\ Send(Cmd("startDB", o, "dstart", s, None))
  <2>1. PICK c, r : c = Cmd("startDB", o, "dstart", s, None) /\ r = <<c>>
    OBVIOUS
  <2>2. c \in Command /\ c.op = "startDB" /\ c.cb = "dstart" /\ c.s = s
    BY <1>3, <2>1, CmdTyped, NoneTyped DEF Callback, Cmd
  <2>3. /\ r \in Seq(Command) /\ apiQ' = apiQ \o r
        /\ \A x : x # s => Others(r, x)
        /\ Sends(r, "startDB", "dstart", s)
    BY <1>5, <2>1, <2>2, SendSent
  <2>4. /\ \A x : LosesTime(x) /\ (x # s => SameSession(x))
        /\ s \in DOMAIN db'
    BY <1>5, SaveSteps, PutSame
  <2>5. Moves(r, s)
    BY <1>3, <1>5, <2>3, <2>4 DEF Moves, Starts
  <2> QED
    BY <1>2, <1>3, <2>3, <2>4, <2>5, MovedFor
<1>6. ASSUME Registered(s), SetMaps(save(Maps, s, o)), ~IsDistance(o),
             NEW e \in startMultiplex(s, o), Apply(e, s)
      PROVE  Moved
  <2>1. Covers(e, "start", s, None, o)
    BY <1>3, <1>6, FlagsAreTyped, MapsPair, startMultiplexFacts DEF FlagsTyped
  <2>2. PICK r : r = e.cmds
    OBVIOUS
  <2>3. r \in Seq(Command) /\ \A x : Others(r, x)
    BY <1>3, <2>1, <2>2, CoversTyped, FlagsAreTyped, NoneTyped, EffectsAreHarmless
    DEF FlagsTyped, Callback, EffectTyped
  <2>4. apiQ' = apiQ \o r
    BY <1>6, <2>2 DEF Apply
  <2>5. \A x : SameDistance(x) /\ (x # s => SameSession(x))
    BY <1>6, SaveSteps, PutSame
  <2>6. Moves(r, s)
    BY <1>3, <1>6, <2>3, <2>5 DEF Moves, Starts
  <2> QED
    BY <1>2, <1>3, <2>3, <2>4, <2>5, <2>6, MovedFor
<1> QED
  BY <1>1, <1>4, <1>5, <1>6 DEF ProcStart, Defer, Idle

\* A time based session is stopped, the command c sent behind those of the effect.
LEMMA FreesMoved ==
    ASSUME TypedInv, NEW s \in DOMAIN tb, NEW e \in stopMultiplex(s)
    PROVE  /\ e.cmds \in Seq(Command) /\ \A x : Others(e.cmds, x)
           /\ IsEffect(e)
<1>1. s \in Sessions
  BY MapsPair DEF MapTyped
<1>2. Frees(e, s)
  BY FlagsAreTyped, MapsPair, stopMultiplexFacts DEF FlagsTyped
<1> QED
  BY <1>1, <1>2, FreesTyped, FlagsAreTyped, EffectsAreHarmless, FreesAreEffects
  DEF FlagsTyped, EffectTyped

LEMMA UpdateMoved ==
    ASSUME Reliable, TypedInv, Apart, ProcUpdate
    PROVE  Moved
<1>1. PICK s, o : s = Head(msgQ).s /\ o = Raise(Head(msgQ).o)
  OBVIOUS
<1>2. Arrived("update") /\ ~Arrived("resp")
  BY DEF ProcUpdate, Arrived
<1>3. s \in Sessions /\ o \in OptionType /\ From("update", s)
  BY <1>1, <1>2, HeadTyped, RaiseTyped DEF From
<1>4. (o.dist => IsDistance(o)) /\ (~o.dist => ~IsDistance(o))
  BY <1>1, <1>2, AskedOption, TimeIsNotDistance
<1>5. CASE UNCHANGED <<apiQ, tb, db>>
  BY <1>2, <1>5, MovedNone
<1>6. ASSUME s \in DOMAIN tb, o.dist, SetMaps(save(erase(Maps, s), s, o)),
             NEW e \in stopMultiplex(s),
             Apply([e EXCEPT !.cmds = Append(@, Cmd("startDB", o, "none", s, None))], s)
      PROVE  Moved
  <2>1. PICK c, d, r : /\ c = Cmd("startDB", o, "none", s, None) /\ d = e.cmds
                       /\ r = Append(d, c)
    OBVIOUS
  <2>2. c \in Command /\ c.op = "startDB" /\ c.cb = "none" /\ c.s = s
    BY <1>3, <2>1, CmdTyped, NoneTyped DEF Callback, Cmd
  <2>3. d \in Seq(Command) /\ (\A x : Others(d, x)) /\ IsEffect(e)
    BY <1>6, <2>1, FreesMoved
  <2>4. apiQ' = apiQ \o r
    BY <1>6, <2>1, <2>3 DEF Apply, IsEffect
  <2>5. r \in Seq(Command)
    BY <2>1, <2>2, <2>3, AppendFacts
  <2>6. \A x : x # s => Harmless(c, x)
    BY <2>2 DEF Harmless
  <2>7. (\A x : x # s => Others(r, x)) /\ Sends(r, "startDB", "none", s)
    <3>1. r = Append(d, c)
      BY <2>1
    <3>2. \A x : x # s => Others(Append(d, c), x)
      BY <2>2, <2>3, <2>6, AppendSends
    <3>3. Sends(Append(d, c), c.op, c.cb, s)
      BY <2>2, <2>3, AppendSends
    <3> QED
      BY <2>2, <3>1, <3>2, <3>3
  <2>8. /\ \A x : x # s => SameSession(x)
        /\ s \in DOMAIN db' /\ s \notin DOMAIN tb'
    BY <1>4, <1>6, MoveSteps, PutSame
  <2>9. Moves(r, s)
    BY <1>3, <1>6, <2>7, <2>8 DEF Moves, Updates
  <2> QED
    BY <1>2, <1>3, <2>4, <2>5, <2>7, <2>8, <2>9, MovedFor
<1>7. ASSUME s \in DOMAIN db, SetMaps(erase(Maps, s)), Send(Cmd("stopDB", None, "toTimeBased", s, o))
      PROVE  Moved
  <2>1. PICK c, r : c = Cmd("stopDB", None, "toTimeBased", s, o) /\ r = <<c>>
    OBVIOUS
  <2>2. c \in Command /\ c.op = "stopDB" /\ c.cb = "toTimeBased" /\ c.s = s
    BY <1>3, <2>1, CmdTyped, NoneTyped DEF Callback, Cmd
  <2>3. /\ r \in Seq(Command) /\ apiQ' = apiQ \o r
        /\ \A x : x # s => Others(r, x)
        /\ Sends(r, "stopDB", "toTimeBased", s)
    BY <1>7, <2>1, <2>2, SendSent
  <2>4. s \notin DOMAIN tb
    BY <1>3, <1>7 DEF Apart
  <2>5. /\ \A x : LosesTime(x) /\ (x # s => SameSession(x))
        /\ s \notin DOMAIN db'
    BY <1>7, <2>4, EraseSteps, DropSame
  <2>6. Moves(r, s)
    BY <1>3, <1>7, <2>3, <2>5 DEF Moves, Updates
  <2> QED
    BY <1>2, <1>3, <2>3, <2>5, <2>6, MovedFor
<1>8. ASSUME s \in DOMAIN tb, ~o.dist, SetMaps(save(Maps, s, o)),
             NEW e \in updateMultiplex(s, o), Apply(e, s)
      PROVE  Moved
  <2>1. PICK old, r : old = tb[s] /\ r = e.cmds
    OBVIOUS
  <2>2. old \in OptionType
    BY <1>8, <2>1, MapsPair DEF MapTyped
  <2>3. Covers(e, "update", s, old, o)
    BY <1>3, <1>8, <2>1, FlagsAreTyped, MapsPair, updateMultiplexFacts DEF FlagsTyped
  <2>4. r \in Seq(Command) /\ \A x : Timed(r, x) /\ (x # s => Others(r, x))
    BY <1>3, <2>1, <2>2, <2>3, CoversTyped, FlagsAreTyped, EffectsAreHarmless
    DEF FlagsTyped, Callback, EffectTyped
  <2>5. apiQ' = apiQ \o r
    BY <1>8, <2>1 DEF Apply
  <2>6. \A x : SameDistance(x) /\ (x # s => SameSession(x))
    BY <1>4, <1>8, SaveSteps, PutSame
  <2>7. Moves(r, s)
    BY <1>3, <1>8, <2>4, <2>6 DEF Moves, Updates
  <2> QED
    BY <1>2, <1>3, <2>4, <2>5, <2>6, <2>7, MovedFor
<1>9. ASSUME s \in DOMAIN db, UNCHANGED <<tb, db>>, Send(Cmd("stopDB", None, "restart", s, o))
      PROVE  Moved
  <2>1. PICK c, r : c = Cmd("stopDB", None, "restart", s, o) /\ r = <<c>>
    OBVIOUS
  <2>2. c \in Command /\ c.op = "stopDB" /\ c.cb = "restart" /\ c.s = s
    BY <1>3, <2>1, CmdTyped, NoneTyped DEF Callback, Cmd
  <2>3. /\ r \in Seq(Command) /\ apiQ' = apiQ \o r
        /\ \A x : x # s => Others(r, x)
        /\ Sends(r, "stopDB", "restart", s)
    BY <1>9, <2>1, <2>2, SendSent
  <2>4. \A x : SameSession(x)
    BY <1>9, DropSame
  <2>5. Moves(r, s)
    BY <1>3, <1>9, <2>3, <2>4 DEF Moves, Updates
  <2> QED
    BY <1>2, <1>3, <2>3, <2>4, <2>5, MovedFor
<1>10. CASE Update(s, o)
  BY <1>6, <1>7, <1>8, <1>9, <1>10 DEF Update
<1> QED
  BY <1>1, <1>5, <1>10 DEF ProcUpdate, Defer, Idle

LEMMA StopMoved ==
    ASSUME TypedInv, Apart, ProcStop
    PROVE  Moved
<1>1. PICK s : s = Head(msgQ).s
  OBVIOUS
<1>2. Arrived("stop") /\ ~Arrived("resp")
  BY DEF ProcStop, Arrived
<1>3. s \in Sessions /\ From("stop", s)
  BY <1>1, <1>2, HeadTyped DEF From
<1>4. CASE UNCHANGED <<apiQ, tb, db>>
  BY <1>2, <1>4, MovedNone
<1>5. ASSUME s \in DOMAIN tb, SetMaps(erase(Maps, s)), NEW e \in stopMultiplex(s), Apply(e, s)
      PROVE  Moved
  <2>1. PICK r : r = e.cmds
    OBVIOUS
  <2>2. r \in Seq(Command) /\ \A x : Others(r, x)
    BY <1>5, <2>1, FreesMoved
  <2>3. apiQ' = apiQ \o r
    BY <1>5, <2>1 DEF Apply
  <2>4. \A x : SameSession(x)
    BY <1>5, EraseSteps, DropSame
  <2>5. \A x : Rests(r, x)
    BY <1>2, <2>2, <2>4 DEF Rests
  <2> QED
    BY <2>2, <2>3, <2>5 DEF Moved, Moves
<1>6. ASSUME s \in DOMAIN db, UNCHANGED <<tb, db>>, Send(Cmd("stopDB", None, "dstop", s, None))
      PROVE  Moved
  <2>1. PICK c, r : c = Cmd("stopDB", None, "dstop", s, None) /\ r = <<c>>
    OBVIOUS
  <2>2. c \in Command /\ c.op = "stopDB" /\ c.cb = "dstop" /\ c.s = s
    BY <1>3, <2>1, CmdTyped, NoneTyped DEF Callback, Cmd
  <2>3. /\ r \in Seq(Command) /\ apiQ' = apiQ \o r
        /\ \A x : x # s => Others(r, x)
        /\ Sends(r, "stopDB", "dstop", s)
    BY <1>6, <2>1, <2>2, SendSent
  <2>4. \A x : SameSession(x)
    BY <1>6, DropSame
  <2>5. Moves(r, s)
    BY <1>3, <1>6, <2>3, <2>4 DEF Moves, Stops
  <2> QED
    BY <1>2, <1>3, <2>3, <2>4, <2>5, MovedFor
<1> QED
  BY <1>1, <1>4, <1>5, <1>6 DEF ProcStop, Idle

LEMMA RemoveClientMoved ==
    ASSUME TypedInv, ProcRemoveClient
    PROVE  Moved
  BY MovedNone DEF ProcRemoveClient, Arrived

LEMMA RemoveTimeBasedMoved ==
    ASSUME TypedInv, RemoveTimeBased
    PROVE  Moved
<1>1. PICK s \in Owned(tb) : /\ SetMaps(erase(Maps, s))
                             /\ \E e \in stopMultiplex(s) : Apply(Quietly(e), s)
  BY DEF RemoveTimeBased, Quietly
<1>2. PICK e \in stopMultiplex(s) : Apply(Quietly(e), s)
  BY <1>1
<1>3. s \in DOMAIN tb /\ ~Arrived("resp")
  BY DEF Owned, Arrived
<1>4. PICK r : r = e.cmds
  OBVIOUS
<1>5. r \in Seq(Command) /\ (\A x : Others(r, x)) /\ IsEffect(e)
  BY <1>2, <1>3, <1>4, FreesMoved
<1>6. apiQ' = apiQ \o r
  BY <1>2, <1>4, <1>5, QuietlyFacts DEF Apply
<1>7. \A x : SameSession(x)
  BY <1>1, <1>3, EraseSteps, DropSame
<1>8. \A x : Rests(r, x)
  BY <1>3, <1>5, <1>7 DEF Rests
<1> QED
  BY <1>5, <1>6, <1>8 DEF Moved, Moves

LEMMA RemoveRestMoved ==
    ASSUME TypedInv, RemoveRest
    PROVE  Moved
<1>1. PICK r \in DistanceCmds(Owned(db), "stopDB", "clean") : apiQ' = apiQ \o r
  BY DEF RemoveRest
<1>2. r \in Seq(Command) /\ \A x : Others(r, x) \/ (x \in Owned(db) /\ Sends(r, "stopDB", "clean", x))
  BY MapsPair, OwnedDistance, DistanceCmdsSend DEF Callback
<1>3. UNCHANGED <<tb, db>> /\ ~Arrived("resp")
  BY DEF RemoveRest, Arrived
<1>4. \A x : SameSession(x)
  BY <1>3, DropSame
<1>5. ASSUME NEW x \in Sessions PROVE Moves(r, x)
  <2>1. CASE Others(r, x)
    BY <1>3, <1>4, <2>1 DEF Moves, Rests
  <2>2. CASE x \in Owned(db) /\ Sends(r, "stopDB", "clean", x)
    BY <1>4, <2>2 DEF Moves, Stops, Owned
  <2> QED
    BY <1>2, <2>1, <2>2
<1> QED
  BY <1>1, <1>2, <1>5 DEF Moved

\* The engine has answered.
LEMMA CameFrom ==
    ASSUME TypedInv, NEW cb, Response(cb)
    PROVE  /\ Arrived("resp") /\ Head(msgQ).s \in Sessions /\ Head(msgQ).ok \in BOOLEAN
           /\ \A C : cb \in C => Came(C, Head(msgQ).s, Head(msgQ).ok)
           /\ \A x : IsAnswer(Head(msgQ), Turns, x) <=> cb \in Turns /\ x = Head(msgQ).s
           /\ cb \in Callback
<1>1. Arrived("resp") /\ Head(msgQ).cb = cb /\ Head(msgQ).m = "resp"
  BY DEF Response, Arrived
<1> QED
  BY <1>1, HeadTyped DEF Came, IsAnswer

\* ... and nothing is sent, ...
LEMMA MovedIdle ==
    ASSUME TypedInv, Arrived("resp"), UNCHANGED apiQ, NEW s \in Sessions, Head(msgQ).s = s,
           \A x : x # s => SameSession(x), Moves(<<>>, s)
    PROVE  Moved
<1>1. PICK r : r = <<>>
  OBVIOUS
<1>2. r \in Seq(Command) /\ apiQ' = apiQ \o r /\ Moves(r, s)
  BY <1>1 DEF TypedInv, TypeOK
<1>3. \A x : Others(r, x)
  BY <1>1, NoneSent
<1> QED
  BY <1>2, <1>3, MovedFor

LEMMA RespStartMoved ==
    ASSUME TypedInv, RespStart
    PROVE  Moved
<1>1. PICK cb \in {"start", "dstart"} : Response(cb)
  BY DEF RespStart
<1>2. PICK s, ok : s = Head(msgQ).s /\ ok = Head(msgQ).ok
  OBVIOUS
<1>3. Arrived("resp") /\ s \in Sessions /\ ok \in BOOLEAN /\ cb \in Callback
      /\ Came(Callback, s, ok) /\ \A x : ~IsAnswer(Head(msgQ), Turns, x)
  BY <1>1, <1>2, CameFrom DEF Turns, Endings, DistanceWays
<1>4. UNCHANGED apiQ /\ SetMaps(IF ok THEN Maps ELSE erase(Maps, s))
  BY <1>2 DEF RespStart, Idle
<1>5. CASE ok
  BY <1>2, <1>3, <1>4, <1>5, SameSteps, DropSame, NoneSent, MovedIdle DEF Moves, Rests
<1>6. CASE ~ok
  <2>1. \A x : Loses(x) /\ (x # s => SameSession(x))
    BY <1>4, <1>6, EraseSteps, DropSame
  <2>2. ok = FALSE
    BY <1>3, <1>6
  <2>3. Moves(<<>>, s)
    BY <1>3, <2>1, <2>2, NoneSent DEF Moves, Goes
  <2> QED
    BY <1>2, <1>3, <1>4, <2>1, <2>3, MovedIdle
<1> QED
  BY <1>5, <1>6

LEMMA RespUpdateMoved ==
    ASSUME TypedInv, RateInv, RespUpdate
    PROVE  Moved
<1>1. Response("update")
  BY DEF RespUpdate
<1>2. PICK s, ok, co : s = Head(msgQ).s /\ ok = Head(msgQ).ok /\ co = Head(msgQ).co
  OBVIOUS
<1>3. Arrived("resp") /\ s \in Sessions /\ ok \in BOOLEAN
      /\ Came(TimeWays, s, ok) /\ \A x : ~IsAnswer(Head(msgQ), Turns, x)
  BY <1>1, <1>2, CameFrom DEF Turns, Endings, DistanceWays, TimeWays
<1>4. UNCHANGED apiQ /\ SetMaps(IF ok THEN Maps ELSE save(Maps, s, co))
  BY <1>2 DEF RespUpdate, Idle
<1>5. ~IsDistance(co)
  BY <1>1, <1>2, ResponseRate, TimeIsNotDistance DEF Captured
<1>6. \A x : SameDistance(x) /\ (x # s => SameSession(x))
  BY <1>4, <1>5, SameSteps, DropSame, SaveSteps, PutSame
<1>7. Moves(<<>>, s)
  BY <1>3, <1>6, NoneSent DEF Moves, Goes
<1> QED
  BY <1>2, <1>3, <1>4, <1>6, <1>7, MovedIdle

LEMMA RespStopMoved ==
    ASSUME TypedInv, RespStop
    PROVE  Moved
<1>1. Response("stop") /\ UNCHANGED <<apiQ, tb, db>>
  BY DEF RespStop, Idle
<1>2. PICK s : s = Head(msgQ).s
  OBVIOUS
<1>3. Arrived("resp") /\ s \in Sessions /\ \A x : ~IsAnswer(Head(msgQ), Turns, x)
  BY <1>1, <1>2, CameFrom DEF Turns, Endings, DistanceWays
<1>4. \A x : SameSession(x)
  BY <1>1, DropSame
<1>5. Moves(<<>>, s)
  BY <1>3, <1>4, NoneSent DEF Moves, Rests
<1> QED
  BY <1>1, <1>2, <1>3, <1>4, <1>5, MovedIdle

LEMMA RespDistanceStopMoved ==
    ASSUME TypedInv, Apart, RespDistanceStop
    PROVE  Moved
<1>1. PICK cb \in {"dstop", "clean"} : Response(cb)
  BY DEF RespDistanceStop
<1>2. PICK s, ok : s = Head(msgQ).s /\ ok = Head(msgQ).ok
  OBVIOUS
<1>3. Arrived("resp") /\ s \in Sessions /\ ok \in BOOLEAN /\ cb \in Callback
      /\ Came(Callback, s, ok) /\ Came(Endings, s, ok)
  BY <1>1, <1>2, CameFrom DEF Endings
<1>4. UNCHANGED apiQ /\ SetMaps(IF ok THEN erase(Maps, s) ELSE Maps)
  BY <1>2 DEF RespDistanceStop, Idle
<1>5. CASE ok
  <2>1. s \in DOMAIN tb => s \notin DOMAIN db
    BY <1>3 DEF Apart
  <2>2. \A x : LosesTime(x) /\ (x # s => SameSession(x))
    BY <1>4, <1>5, EraseSteps, DropSame
  <2>3. s \notin DOMAIN db'
    BY <1>4, <1>5, <2>1, EraseSteps, DropSame
  <2>4. ok = TRUE
    BY <1>3, <1>5
  <2>5. Moves(<<>>, s)
    BY <1>3, <2>2, <2>3, <2>4, NoneSent DEF Moves, Goes
  <2> QED
    BY <1>2, <1>3, <1>4, <2>2, <2>5, MovedIdle
<1>6. CASE ~ok
  BY <1>2, <1>3, <1>4, <1>6, SameSteps, DropSame, NoneSent, MovedIdle DEF Moves, Goes
<1> QED
  BY <1>5, <1>6

LEMMA RespToTimeBasedMoved ==
    ASSUME TypedInv, RateInv, RespToTimeBased
    PROVE  Moved
<1>1. Response("toTimeBased")
  BY DEF RespToTimeBased
<1>2. PICK s, ok, co : s = Head(msgQ).s /\ ok = Head(msgQ).ok /\ co = Head(msgQ).co
  OBVIOUS
<1>3. Arrived("resp") /\ s \in Sessions /\ ok \in BOOLEAN /\ Came(TimeWays, s, ok)
  BY <1>1, <1>2, CameFrom DEF TimeWays
<1>4. PICK e \in startMultiplex(s, co) : Apply(e, s) /\ SetMaps(save(Maps, s, co))
  BY <1>2 DEF RespToTimeBased
<1>5. co \in OptionType /\ ~IsDistance(co)
  BY <1>1, <1>2, ResponseRate, TimeIsNotDistance DEF Captured
<1>6. Covers(e, "start", s, None, co)
  BY <1>4, <1>5, FlagsAreTyped, MapsPair, startMultiplexFacts DEF FlagsTyped
<1>7. PICK r : r = e.cmds
  OBVIOUS
<1>8. r \in Seq(Command) /\ \A x : Others(r, x)
  BY <1>3, <1>6, <1>7, CoversTyped, FlagsAreTyped, NoneTyped, EffectsAreHarmless
  DEF FlagsTyped, Callback, EffectTyped
<1>9. apiQ' = apiQ \o r
  BY <1>4, <1>7 DEF Apply
<1>10. \A x : SameDistance(x) /\ (x # s => SameSession(x))
  BY <1>4, <1>5, SaveSteps, PutSame
<1>11. Moves(r, s)
  BY <1>3, <1>8, <1>10 DEF Moves, Goes
<1> QED
  BY <1>2, <1>3, <1>8, <1>9, <1>10, <1>11, MovedFor

LEMMA RespRestartMoved ==
    ASSUME TypedInv, RespRestart
    PROVE  Moved
<1>1. Response("restart") /\ UNCHANGED <<tb, db>>
  BY DEF RespRestart
<1>2. PICK s, ok, co : s = Head(msgQ).s /\ ok = Head(msgQ).ok /\ co = Head(msgQ).co
  OBVIOUS
<1>3. Arrived("resp") /\ s \in Sessions /\ ok \in BOOLEAN /\ co \in OptionType
      /\ Came({"restart"}, s, ok) /\ Came(Callback, s, ok)
  BY <1>1, <1>2, CameFrom, HeadTyped
<1>4. \A x : SameSession(x) /\ Loses(x)
  BY <1>1, DropSame
<1>5. CASE ok
  <2>1. PICK c, r : c = Cmd("startDB", co, "restarted", s, co) /\ r = <<c>>
    OBVIOUS
  <2>2. c \in Command /\ c.op = "startDB" /\ c.cb = "restarted" /\ c.s = s
    BY <1>3, <2>1, CmdTyped DEF Callback, Cmd
  <2>3. Send(c)
    BY <1>2, <1>5, <2>1 DEF RespRestart
  <2>4. /\ r \in Seq(Command) /\ apiQ' = apiQ \o r
        /\ \A x : x # s => Others(r, x)
        /\ Sends(r, "startDB", "restarted", s)
    BY <2>1, <2>2, <2>3, SendSent
  <2>5. ok = TRUE
    BY <1>3, <1>5
  <2>6. Moves(r, s)
    BY <1>3, <1>4, <2>4, <2>5 DEF Moves, Goes
  <2> QED
    BY <1>2, <1>3, <1>4, <2>4, <2>6, MovedFor
<1>6. CASE ~ok
  BY <1>2, <1>3, <1>4, <1>6, NoneSent, MovedIdle DEF RespRestart, Idle, Moves, Goes
<1> QED
  BY <1>5, <1>6

LEMMA RespRestartedMoved ==
    ASSUME TypedInv, RateInv, RespRestarted
    PROVE  Moved
<1>1. Response("restarted")
  BY DEF RespRestarted
<1>2. PICK s, ok, co : s = Head(msgQ).s /\ ok = Head(msgQ).ok /\ co = Head(msgQ).co
  OBVIOUS
<1>3. Arrived("resp") /\ s \in Sessions /\ ok \in BOOLEAN
      /\ Came({"restarted"}, s, ok) /\ Came(Callback, s, ok)
  BY <1>1, <1>2, CameFrom
<1>4. UNCHANGED apiQ /\ SetMaps(IF ok THEN save(Maps, s, co) ELSE Maps)
  BY <1>2 DEF RespRestarted, Idle
<1>5. IsDistance(co)
  BY <1>1, <1>2, ResponseRate DEF Captured
<1>6. CASE ok
  BY <1>2, <1>3, <1>4, <1>5, <1>6, SaveSteps, PutSame, NoneSent, MovedIdle DEF Moves, Goes
<1>7. CASE ~ok
  BY <1>2, <1>3, <1>4, <1>7, SameSteps, DropSame, NoneSent, MovedIdle DEF Moves, Goes
<1> QED
  BY <1>6, <1>7

LEMMA ConcatAfter ==
    ASSUME NEW q \in Seq(Command), NEW r \in Seq(Command), NEW c \in Seq(Command)
    PROVE  q \o (r \o c) = (q \o r) \o c
  OBVIOUS

\* The sessions are restarted.
LEMMA RestartMoved ==
    ASSUME TypedInv, ProcEngineUp \/ ProcNHz
    PROVE  Moved
<1>1. PICK hz \in BOOLEAN : RestartSPE(hz)
  BY DEF TypedInv, TypeOK, ProcEngineUp, ProcNHz
<1>2. UNCHANGED <<tb, db>>
  BY DEF ProcEngineUp, ProcNHz
<1>3. PICK e \in RestartTimeBased(hz), q \in DistanceCmds(DOMAIN db, "startDB", "none") :
         apiQ' = apiQ \o e.cmds \o q
  BY <1>1 DEF RestartSPE
<1>4. Restarts(e, hz)
  BY MapsPair, RestartFacts
<1>5. PICK d, r : d = e.cmds /\ r = d \o q
  OBVIOUS
<1>6. d \in Seq(Command) /\ \A x : Others(d, x)
  BY <1>4, <1>5, RestartsTyped, EffectsAreHarmless DEF EffectTyped
<1>7. /\ q \in Seq(Command) /\ (\A i \in 1..Len(q) : q[i].cb = "none")
      /\ (DOMAIN db = {} => \A x : Others(q, x))
  BY MapsPair, OwnedDistance, DistanceCmdsSend DEF Callback
<1>8. \A i \in 1..Len(d) : d[i].op # "open" => d[i].cb = "none"
  <2>1. CASE d = <<>>
    BY <2>1
  <2>2. ASSUME NEW p, NEW s, d = <<Cmd("startTB", p, "none", s, None)>>
        PROVE  \A i \in 1..Len(d) : d[i].cb = "none"
    <3>1. PICK c : c = Cmd("startTB", p, "none", s, None)
      OBVIOUS
    <3>2. c.cb = "none" /\ Len(d) = 1 /\ d[1] = c
      BY <2>2, <3>1 DEF Cmd
    <3> QED
      BY <3>2
  <2> QED
    BY <1>4, <1>5, <2>1, <2>2 DEF Restarts
<1>9. apiQ \in Seq(Command)
  BY DEF TypedInv, TypeOK
<1>10. r \in Seq(Command) /\ apiQ' = apiQ \o r
  <2>1. r \in Seq(Command)
    BY <1>5, <1>6, <1>7, ConcatFacts
  <2>2. PICK p : p = apiQ /\ apiQ' = (p \o d) \o q
    BY <1>3, <1>5
  <2>3. p \o r = (p \o d) \o q
    BY <1>5, <1>6, <1>7, <1>9, <2>2, ConcatAfter
  <2> QED
    BY <2>1, <2>2, <2>3
<1>11. PICK n : n = Len(d)
  OBVIOUS
<1>12. \A i \in 1..Len(r) : \/ i \in 1..n /\ r[i] = d[i]
                            \/ i - n \in 1..Len(q) /\ r[i] = q[i - n]
  BY <1>5, <1>6, <1>7, <1>11, ConcatFacts
<1>13. \A i \in 1..Len(r) : r[i].op # "open" => r[i].cb = "none"
  BY <1>7, <1>8, <1>11, <1>12
<1>14. DOMAIN db = {} => \A x : Others(r, x)
  BY <1>6, <1>7, <1>11, <1>12 DEF Others
<1>15. \A x : SameSession(x)
  BY <1>2, DropSame
<1>16. \A x : Renews(r, x)
  BY <1>13, <1>14, <1>15 DEF Renews
<1> QED
  BY <1>10, <1>16 DEF Moved, Moves

LEMMA HandlersMove ==
    ASSUME Reliable, TypedInv, RateInv, Apart, Proc
    PROVE  Moved
  BY StartMoved, UpdateMoved, StopMoved, RemoveClientMoved, RemoveTimeBasedMoved,
     RemoveRestMoved, RespStartMoved, RespUpdateMoved, RespStopMoved, RespDistanceStopMoved,
     RespToTimeBasedMoved, RespRestartMoved, RespRestartedMoved, RestartMoved
  DEF Proc

-----------------------------------------------------------------------------
(* The steps of the clients and of the engine. *)

Asked == \/ \E s \in Sessions, o \in Options \cup {None} :
                 startTracking(s, o) \/ updateTrackingOptions(s, o)
         \/ \E s \in Sessions : stopTracking(s)
         \/ \E c \in Clients : removeClient(c)

Event == EngineDown \/ handleEngineDownEvent \/ EngineUp \/ NHzRequirement \/ UNCHANGED vars

LEMMA StepKinds ==
    ASSUME [Next]_vars
    PROVE  Proc \/ Asked \/ EngineDone \/ EngineRefuses \/ Event
  BY DEF Next, Asked, Event

\* A client posts a command for its session, or goes.
LEMMA AskedPosts ==
    ASSUME Asked
    PROVE  /\ UNCHANGED <<adapterVars, apiQ, engineVars>>
           /\ \E m \in Message :
                 /\ Post(m) /\ m.m \in {"start", "update", "stop", "remove"}
                 /\ \A s \in Sessions : Concerns(m, s) => MaySend(s)
                 /\ m.m = "start" => Unused(m.s) /\ m.s \notin DOMAIN tb \cup DOMAIN db
<1> DEFINE Posts(m) ==
        /\ Post(m) /\ m.m \in {"start", "update", "stop", "remove"}
        /\ \A s \in Sessions : Concerns(m, s) => MaySend(s)
        /\ m.m = "start" => Unused(m.s) /\ m.s \notin DOMAIN tb \cup DOMAIN db
<1>1. ASSUME NEW s \in Sessions, NEW o \in Options \cup {None}, startTracking(s, o)
      PROVE  \E m \in Message : Posts(m)
  <2>1. PICK m : m = [m |-> "start", s |-> s, o |-> o]
    OBVIOUS
  <2>2. m \in Message /\ m.m = "start" /\ m.s = s /\ Post(m)
    BY <1>1, <2>1 DEF Message, startTracking
  <2> QED
    BY <1>1, <2>2 DEF Concerns, startTracking
<1>2. ASSUME NEW s \in Sessions, NEW o \in Options \cup {None}, updateTrackingOptions(s, o)
      PROVE  \E m \in Message : Posts(m)
  <2>1. PICK m : m = [m |-> "update", s |-> s, o |-> o]
    OBVIOUS
  <2>2. m \in Message /\ m.m = "update" /\ m.s = s /\ Post(m)
    BY <1>2, <2>1 DEF Message, updateTrackingOptions
  <2> QED
    BY <1>2, <2>2 DEF Concerns, updateTrackingOptions
<1>3. ASSUME NEW s \in Sessions, stopTracking(s)
      PROVE  \E m \in Message : Posts(m)
  <2>1. PICK m : m = [m |-> "stop", s |-> s]
    OBVIOUS
  <2>2. m \in Message /\ m.m = "stop" /\ m.s = s /\ Post(m)
    BY <1>3, <2>1 DEF Message, stopTracking
  <2> QED
    BY <1>3, <2>2 DEF Concerns, stopTracking
<1>4. ASSUME NEW c \in Clients, removeClient(c)
      PROVE  \E m \in Message : Posts(m)
  <2>1. PICK m : m = [m |-> "remove", c |-> c]
    OBVIOUS
  <2>2. m \in Message /\ m.m = "remove" /\ Post(m)
    BY <1>4, <2>1 DEF Message, removeClient
  <2> QED
    BY <2>2 DEF Concerns
<1>5. UNCHANGED <<adapterVars, apiQ, engineVars>>
  BY DEF Asked, startTracking, updateTrackingOptions, stopTracking, removeClient, Sent
<1>6. \E m \in Message : Posts(m)
  BY <1>1, <1>2, <1>3, <1>4 DEF Asked
<1> QED
  BY <1>5, <1>6

\* The engine takes a command and answers it, unless nobody listens.
LEMMA AnswerPosts ==
    ASSUME TypedInv, EngineDone \/ EngineRefuses
    PROVE  /\ UNCHANGED <<adapterVars, want, owed, up, ups, nhzs>>
           /\ apiQ # <<>> /\ apiQ' = Tail(apiQ) /\ apiQ[1].op # "open"
           /\ \/ apiQ[1].cb = "none" /\ UNCHANGED msgQ
              \/ \E m \in Message :
                    /\ Post(m) /\ m.m = "resp" /\ m.cb = apiQ[1].cb /\ m.s = apiQ[1].s
                    /\ m.ok \/ EngineErrors \/ ~up
<1>1. Serve /\ UNCHANGED <<adapterVars, want, owed, up, ups, nhzs>>
  BY DEF EngineDone, EngineRefuses, engineVars
<1>2. PICK ok \in BOOLEAN : Answer(Head(apiQ), ok) /\ (ok \/ EngineErrors \/ ~up)
  BY DEF EngineDone, EngineRefuses
<1>3. PICK q, c : q = apiQ /\ c = Head(apiQ)
  OBVIOUS
<1>4. /\ q \in Seq(Command) /\ q # <<>> /\ c = q[1] /\ apiQ' = Tail(q)
      /\ c.op # "open" /\ c.cb \in Callback /\ c.s \in Sessions /\ c.co \in OptionType
  BY <1>1, <1>3, ServeTyped, HeadTail DEF Serve
<1>5. PICK m : m = Answers(c, ok)
  OBVIOUS
<1>6. m \in Message /\ m.m = "resp" /\ m.cb = c.cb /\ m.s = c.s /\ m.ok = ok
  BY <1>4, <1>5 DEF Answers, Message
<1>7. (c.cb = "none" /\ UNCHANGED msgQ) \/ Post(m)
  BY <1>2, <1>3, <1>5 DEF Answer, Answers
<1> QED
  BY <1>1, <1>2, <1>3, <1>4, <1>6, <1>7

LEMMA EventPosts ==
    ASSUME TypedInv, Event
    PROVE  /\ UNCHANGED <<adapterVars, want, owed>>
           /\ \/ UNCHANGED msgQ
              \/ \E m \in Message : Post(m) /\ m.m \in {"engineUp", "nhz"}
           /\ \/ UNCHANGED apiQ
              \/ apiQ # <<>> /\ apiQ' = Tail(apiQ) /\ apiQ[1].op = "open"
              \/ \E c \in Command : c.op = "open" /\ apiQ' = Append(apiQ, c)
<1>1. UNCHANGED <<adapterVars, want, owed>>
  BY DEF Event, EngineDown, handleEngineDownEvent, EngineUp, NHzRequirement, vars, adapterVars
<1>2. \A k : k \in {"engineUp", "nhz"} => [m |-> k] \in Message /\ [m |-> k].m = k
  BY DEF Message
<1>3. UNCHANGED msgQ \/ \E k \in {"engineUp", "nhz"} : Post([m |-> k])
  BY DEF Event, EngineDown, handleEngineDownEvent, EngineUp, NHzRequirement, vars
<1>4. ASSUME NEW k \in {"engineUp", "nhz"}, Post([m |-> k])
      PROVE  \E m \in Message : Post(m) /\ m.m \in {"engineUp", "nhz"}
  <2>1. PICK m : m = [m |-> k]
    OBVIOUS
  <2> QED
    BY <1>2, <1>4, <2>1
<1>5. PICK c, q : c = OpenMsg /\ q = apiQ
  OBVIOUS
<1>6. c \in Command /\ c.op = "open"
  BY <1>5 DEF OpenMsg, Command
<1>7. q \in Seq(Command) /\ (q # <<>> => Head(q) = q[1])
  BY <1>5, HeadTail DEF TypedInv, TypeOK
<1>8. \/ UNCHANGED apiQ
      \/ q # <<>> /\ apiQ' = Tail(q) /\ Head(q).op = "open"
      \/ apiQ' = Append(q, c)
  BY <1>5 DEF Event, EngineDown, handleEngineDownEvent, EngineUp, NHzRequirement, vars
<1>9. \/ UNCHANGED apiQ
      \/ apiQ # <<>> /\ apiQ' = Tail(apiQ) /\ apiQ[1].op = "open"
      \/ \E d \in Command : d.op = "open" /\ apiQ' = Append(apiQ, d)
  BY <1>5, <1>6, <1>7, <1>8
<1> QED
  BY <1>1, <1>3, <1>4, <1>9

\* The adapter takes a message, or is at work on a removal.
LEMMA HandlerTakes ==
    ASSUME TypedInv, pending = <<>>, Proc
    PROVE  /\ UNCHANGED engineVars
           /\ \/ UNCHANGED msgQ /\ removing # {}
              \/ msgQ # <<>> /\ msgQ' = Tail(msgQ) /\ removing = {}
<1>1. UNCHANGED engineVars
  BY DEF Proc, ProcStart, ProcUpdate, ProcStop, ProcRemoveClient, RemoveTimeBased,
     RemoveRest, RespStart, RespUpdate, RespStop, RespDistanceStop, RespToTimeBased,
     RespRestart, RespRestarted, ProcEngineUp, ProcNHz, Frame
<1>2. CASE RemoveTimeBased \/ RemoveRest
  BY <1>1, <1>2 DEF RemoveTimeBased, RemoveRest, Owned
<1>3. CASE ProcEngineUp
  <2>1. PICK t : t = Tail(msgQ)
    OBVIOUS
  <2>2. Arrived("engineUp") /\ msgQ' = t \o pending
    BY <1>3, <2>1 DEF ProcEngineUp
  <2>3. t \in Seq(Message)
    BY <2>1, <2>2, HeadTyped, HeadTail
  <2>4. msgQ' = t
    BY <2>2, <2>3
  <2> QED
    BY <1>1, <2>1, <2>2, <2>4 DEF Arrived
<1>4. CASE ~(RemoveTimeBased \/ RemoveRest \/ ProcEngineUp)
  BY <1>1, <1>4 DEF Proc, ProcStart, ProcUpdate, ProcStop, ProcRemoveClient,
     RespStart, RespUpdate, RespStop, RespDistanceStop, RespToTimeBased,
     RespRestart, RespRestarted, ProcNHz, Response, Arrived, Take
<1> QED
  BY <1>2, <1>3, <1>4

-----------------------------------------------------------------------------
(* Nothing is asked for, or deferred, before the capabilities are known. *)

LEMMA NoneBeforeStep ==
    ASSUME AwaitEngine, TypedInv, NoneBefore, [Next]_vars
    PROVE  NoneBefore'
<1>1. ASSUME Deferred, Arrived("start") \/ Arrived("update") PROVE FALSE
  <2>1. PICK q : q = msgQ
    OBVIOUS
  <2>2. q \in Seq(Message) /\ q # <<>> /\ Head(q).m \in {"start", "update"}
    BY <1>1, <2>1, HeadTyped
  <2>3. Head(q) = q[1] /\ 1 \in 1..Len(q)
    BY <2>2, HeadTail
  <2>4. Unasked
    BY <1>1 DEF Deferred, NoneBefore
  <2> QED
    BY <2>1, <2>2, <2>3, <2>4 DEF Unasked
<1>2. ASSUME Proc PROVE pending' = <<>>
  BY <1>1, <1>2
  DEF Proc, ProcStart, ProcUpdate, ProcStop, ProcRemoveClient, RemoveTimeBased, RemoveRest,
       RespStart, RespUpdate, RespStop, RespDistanceStop, RespToTimeBased, RespRestart,
       RespRestarted, ProcEngineUp, ProcNHz, Frame, NoneBefore
<1>3. ASSUME ~Proc PROVE pending' = <<>>
  BY <1>3, StepKinds, AskedPosts, AnswerPosts, EventPosts DEF NoneBefore, adapterVars
<1>4. pending' = <<>>
  BY <1>2, <1>3 DEF NoneBefore
<1>5. ASSUME ~capsKnown' PROVE Unasked' /\ DOMAIN db' = {}
  BY <1>5, StepSource, UnaskedStep DEF ProcEngineUp, NoneBefore
<1> QED
  BY <1>4, <1>5 DEF NoneBefore

-----------------------------------------------------------------------------
(* A client sends its commands before it is removed. *)

LEMMA BeforeRemovalTail ==
    ASSUME NEW q \in Seq(Message), q # <<>>, NEW C, NEW D, BeforeRemoval(q, C),
           \A c \in C : c \in D \/ (q[1].m = "remove" /\ q[1].c = c)
    PROVE  BeforeRemoval(Tail(q), D)
<1>1. PICK t : t = Tail(q)
  OBVIOUS
<1>2. /\ 1 \in 1..Len(q) /\ Len(t) \in Nat
      /\ \A i \in 1..Len(t) : i + 1 \in 1..Len(q) /\ t[i] = q[i + 1]
  BY <1>1, HeadTail
<1>3. ASSUME NEW i \in 1..Len(t), NEW s \in Sessions, Concerns(t[i], s)
      PROVE  /\ ClientOf[s] \in D
             /\ \A j \in 1..Len(t) : j < i => ~(t[j].m = "remove" /\ t[j].c = ClientOf[s])
  <2>1. i + 1 \in 1..Len(q) /\ Concerns(q[i + 1], s) /\ 1 < i + 1
    BY <1>2, <1>3
  <2>2. /\ ClientOf[s] \in C
        /\ \A j \in 1..Len(q) : j < i + 1 => ~(q[j].m = "remove" /\ q[j].c = ClientOf[s])
    BY <2>1 DEF BeforeRemoval
  <2>3. ClientOf[s] \in D
    BY <1>2, <2>1, <2>2
  <2>4. \A j \in 1..Len(t) : j + 1 \in 1..Len(q) /\ t[j] = q[j + 1] /\ (j < i => j + 1 < i + 1)
    BY <1>2
  <2> QED
    BY <2>2, <2>3, <2>4
<1>4. BeforeRemoval(t, D)
  BY <1>3 DEF BeforeRemoval
<1> QED
  BY <1>1, <1>4

LEMMA BeforeRemovalPost ==
    ASSUME NEW q \in Seq(Message), NEW m \in Message, NEW C, BeforeRemoval(q, C),
           \A s \in Sessions : Concerns(m, s) =>
               /\ ClientOf[s] \in C
               /\ \A j \in 1..Len(q) : ~(q[j].m = "remove" /\ q[j].c = ClientOf[s])
    PROVE  BeforeRemoval(Append(q, m), C)
<1>1. PICK t, n : t = Append(q, m) /\ n = Len(q)
  OBVIOUS
<1>2. /\ n \in Nat /\ t[n + 1] = m
      /\ \A i \in 1..n : t[i] = q[i]
      /\ \A i \in 1..Len(t) : i \in 1..n \/ i = n + 1
  BY <1>1, AppendFacts
<1>3. ASSUME NEW i \in 1..Len(t), NEW s \in Sessions, Concerns(t[i], s)
      PROVE  /\ ClientOf[s] \in C
             /\ \A j \in 1..Len(t) : j < i => ~(t[j].m = "remove" /\ t[j].c = ClientOf[s])
  <2>1. CASE i \in 1..n
    BY <1>1, <1>2, <1>3, <2>1 DEF BeforeRemoval
  <2>2. CASE i = n + 1
    BY <1>1, <1>2, <1>3, <2>2
  <2> QED
    BY <1>2, <2>1, <2>2
<1>4. BeforeRemoval(t, C)
  BY <1>3 DEF BeforeRemoval
<1> QED
  BY <1>1, <1>4

LEMMA ThenRemovedStep ==
    ASSUME TypedInv, pending = <<>>, ThenRemoved, [Next]_vars
    PROVE  ThenRemoved'
<1>1. PICK q, C : q = msgQ /\ C = clients \ removing
  OBVIOUS
<1>2. q \in Seq(Message) /\ BeforeRemoval(q, C)
  BY <1>1 DEF TypedInv, TypeOK, ThenRemoved
<1>3. ASSUME UNCHANGED msgQ, clients' \ removing' = C PROVE ThenRemoved'
  BY <1>1, <1>2, <1>3 DEF ThenRemoved
<1>4. ASSUME NEW m \in Message, Post(m), clients' \ removing' = C,
             \A s \in Sessions : Concerns(m, s) => MaySend(s)
      PROVE  ThenRemoved'
  <2>1. \A s \in Sessions : Concerns(m, s) =>
            /\ ClientOf[s] \in C
            /\ \A j \in 1..Len(q) : ~(q[j].m = "remove" /\ q[j].c = ClientOf[s])
    BY <1>1, <1>4, MayKnow
  <2>2. BeforeRemoval(Append(q, m), C)
    BY <1>2, <2>1, BeforeRemovalPost
  <2> QED
    BY <1>1, <1>4, <2>2 DEF ThenRemoved, Post
<1>5. ASSUME Proc PROVE ThenRemoved'
  <2>1. CASE UNCHANGED msgQ /\ removing # {}
    BY <1>1, <1>3, <1>5, <2>1
    DEF Proc, ProcStart, ProcUpdate, ProcStop, ProcRemoveClient, RespStart, RespUpdate,
         RespStop, RespDistanceStop, RespToTimeBased, RespRestart, RespRestarted,
         ProcEngineUp, ProcNHz, Response, Arrived, RemoveTimeBased, RemoveRest
  <2>2. CASE msgQ # <<>> /\ msgQ' = Tail(msgQ) /\ removing = {}
    <3>1. q # <<>> /\ Head(q) = q[1] /\ msgQ' = Tail(q)
      BY <1>1, <1>2, <2>2, HeadTail
    <3>2. CASE ProcRemoveClient
      BY <1>1, <1>2, <2>2, <3>1, <3>2, BeforeRemovalTail
      DEF ProcRemoveClient, Arrived, ThenRemoved
    <3>3. CASE ~ProcRemoveClient
      BY <1>1, <1>2, <1>5, <2>2, <3>1, <3>3, BeforeRemovalTail
      DEF Proc, ProcStart, ProcUpdate, ProcStop, RemoveTimeBased, RemoveRest, Owned,
           RespStart, RespUpdate, RespStop, RespDistanceStop, RespToTimeBased, RespRestart,
           RespRestarted, ProcEngineUp, ProcNHz, Frame, ThenRemoved
    <3> QED
      BY <3>2, <3>3
  <2> QED
    BY <1>5, <2>1, <2>2, HandlerTakes
<1>6. ASSUME Asked PROVE ThenRemoved'
  BY <1>1, <1>4, <1>6, AskedPosts DEF adapterVars
<1>7. ASSUME EngineDone \/ EngineRefuses \/ Event PROVE ThenRemoved'
  BY <1>1, <1>3, <1>4, <1>7, AnswerPosts, EventPosts DEF adapterVars, Concerns
<1> QED
  BY <1>5, <1>6, <1>7, StepKinds

-----------------------------------------------------------------------------
(* No client waits for more than one answer. *)

LEMMA ReportLess ==
    ASSUME TypedInv, NEW s, Report(s) \/ NoReport, NEW x \in Sessions
    PROVE  owed'[x] <= owed[x]
<1>1. owed \in [Sessions -> Int]
  BY DEF TypedInv, TypeOK
<1>2. owed' = owed \/ owed' = [owed EXCEPT ![s] = @ - 1]
  BY DEF Report, NoReport
<1> QED
  BY <1>1, <1>2

LEMMA OneOwedStep ==
    ASSUME MaxOwed = 1, TypedInv, OneOwed, [Next]_vars
    PROVE  OneOwed'
<1>1. owed \in [Sessions -> Int]
  BY DEF TypedInv, TypeOK
<1>2. CASE UNCHANGED owed
  BY <1>2 DEF OneOwed
<1>3. ASSUME NEW s, Report(s) \/ NoReport PROVE OneOwed'
  <2>1. \A x \in Sessions : owed'[x] <= owed[x]
    BY <1>3, ReportLess
  <2>2. \A x \in Sessions : owed[x] <= 1 /\ owed[x] \in Int
    BY <1>1 DEF OneOwed
  <2>3. \A x \in Sessions : owed'[x] \in Int
    BY TypedStep DEF TypedInv, TypeOK
  <2> QED
    BY <2>1, <2>2, <2>3 DEF OneOwed
<1>4. CASE Proc
  BY <1>2, <1>3, <1>4
  DEF Proc, ProcStart, ProcUpdate, ProcStop, ProcRemoveClient, RemoveTimeBased, RemoveRest,
       RespStart, RespUpdate, RespStop, RespDistanceStop, RespToTimeBased, RespRestart,
       RespRestarted, ProcEngineUp, ProcNHz, Apply, Update, Defer
<1>5. ASSUME NEW s \in Sessions, NEW o, MaySend(s), Sent(s, o) PROVE OneOwed'
  BY <1>1, <1>5 DEF Sent, MaySend, OneOwed
<1>6. CASE Asked
  BY <1>2, <1>5, <1>6
  DEF Asked, startTracking, updateTrackingOptions, stopTracking, removeClient
<1>7. CASE EngineDone \/ EngineRefuses \/ Event
  BY <1>2, <1>7, AnswerPosts, EventPosts
<1> QED
  BY <1>4, <1>6, <1>7, StepKinds

-----------------------------------------------------------------------------
(* What is under way after a step. *)

LEMMA NotSent ==
    ASSUME NEW r, NEW x, NEW C, C \cap {"none", "start", "stop"} = {}
    PROVE  /\ Others(r, x) => ~Commanding(r, C, x)
           /\ Timed(r, x) /\ "update" \notin C => ~Commanding(r, C, x)
           /\ \A op, cb : Sends(r, op, cb, x) /\ cb \notin C => ~Commanding(r, C, x)
<1>1. Others(r, x) => ~Commanding(r, C, x)
  BY DEF Others, Harmless, Commanding, IsCommand
<1>2. Timed(r, x) /\ "update" \notin C => ~Commanding(r, C, x)
  BY DEF Timed, Commanding, IsCommand
<1>3. \A op, cb : Sends(r, op, cb, x) /\ cb \notin C => ~Commanding(r, C, x)
  BY DEF Sends, Harmless, Commanding, IsCommand
<1> QED
  BY <1>1, <1>2, <1>3

\* The clients and the engine take a command for its answer.
LEMMA UnderKept ==
    ASSUME TypedInv, Asked \/ EngineDone \/ EngineRefuses \/ Event,
           NEW C, "none" \notin C, NEW x
    PROVE  Under(C, x)' <=> Under(C, x)
<1>1. PICK q, a : q = msgQ /\ a = apiQ
  OBVIOUS
<1>2. q \in Seq(Message) /\ a \in Seq(Command)
  BY <1>1 DEF TypedInv, TypeOK
<1>3. ASSUME NEW m \in Message, Post(m), m.m # "resp"
      PROVE  Answering(msgQ', C, x) <=> Answering(q, C, x)
  BY <1>1, <1>2, <1>3, AnsweringPost DEF IsAnswer, Post
<1>4. CASE Asked
  BY <1>1, <1>3, <1>4, AskedPosts DEF Under
<1>5. CASE EngineDone \/ EngineRefuses
  <2>1. a # <<>> /\ apiQ' = Tail(a) /\ a[1].op # "open"
    BY <1>1, <1>5, AnswerPosts
  <2>2. Commanding(a, C, x) <=> IsCommand(a[1], C, x) \/ Commanding(apiQ', C, x)
    BY <1>2, <2>1, CommandingTail
  <2>3. CASE a[1].cb = "none" /\ UNCHANGED msgQ
    BY <1>1, <2>2, <2>3 DEF Under, IsCommand
  <2>4. ASSUME NEW m \in Message, Post(m), m.m = "resp", m.cb = a[1].cb, m.s = a[1].s
        PROVE  Under(C, x)' <=> Under(C, x)
    BY <1>1, <1>2, <2>1, <2>2, <2>4, AnsweringPost DEF IsAnswer, IsCommand, Post, Under
  <2> QED
    BY <1>1, <1>5, <2>3, <2>4, AnswerPosts
<1>6. CASE Event
  <2>1. UNCHANGED msgQ \/ \E m \in Message : Post(m) /\ m.m # "resp"
    BY <1>6, EventPosts
  <2>2. Answering(msgQ', C, x) <=> Answering(q, C, x)
    BY <1>1, <1>3, <2>1
  <2>3. CASE UNCHANGED apiQ
    BY <1>1, <2>2, <2>3 DEF Under
  <2>4. CASE a # <<>> /\ apiQ' = Tail(a) /\ a[1].op = "open"
    BY <1>1, <1>2, <2>2, <2>4, CommandingTail DEF IsCommand, Under
  <2>5. ASSUME NEW c \in Command, c.op = "open", apiQ' = Append(a, c)
        PROVE  Under(C, x)' <=> Under(C, x)
    <3>1. PICK r : r = <<c>>
      OBVIOUS
    <3>2. r \in Seq(Command) /\ apiQ' = a \o r /\ Len(r) = 1 /\ r[1] = c
      BY <1>2, <2>5, <3>1
    <3>3. ~Commanding(r, C, x)
      BY <2>5, <3>2 DEF Commanding, IsCommand
    <3>4. Commanding(apiQ', C, x) <=> Commanding(a, C, x)
      BY <1>2, <3>2, <3>3, CommandingConcat
    <3> QED
      BY <1>1, <2>2, <3>4 DEF Under
  <2> QED
    BY <1>1, <1>6, <2>3, <2>4, <2>5, EventPosts
<1> QED
  BY <1>4, <1>5, <1>6

\* The adapter sends commands, and takes at most one message.
LEMMA UnderHandled ==
    ASSUME TypedInv, pending = <<>>, Proc, NEW r \in Seq(Command), apiQ' = apiQ \o r, NEW C, NEW x
    PROVE  /\ Under(C, x)' => Under(C, x) \/ Commanding(r, C, x)
           /\ Commanding(r, C, x) => Under(C, x)'
           /\ ~(Arrived("resp") /\ IsAnswer(Head(msgQ), C, x)) =>
                 (Under(C, x) => Under(C, x)')
<1>1. PICK q, a : q = msgQ /\ a = apiQ
  OBVIOUS
<1>2. q \in Seq(Message) /\ a \in Seq(Command)
  BY <1>1 DEF TypedInv, TypeOK
<1>3. Commanding(apiQ', C, x) <=> Commanding(a, C, x) \/ Commanding(r, C, x)
  BY <1>1, <1>2, CommandingConcat
<1>4. CASE UNCHANGED msgQ
  BY <1>1, <1>3, <1>4 DEF Under
<1>5. CASE q # <<>> /\ msgQ' = Tail(q) /\ removing = {}
  BY <1>1, <1>2, <1>3, <1>5, AnsweringTail, HeadTail DEF IsAnswer, Arrived, Under
<1> QED
  BY <1>1, <1>4, <1>5, HandlerTakes

\* The message that is handled is the only one for its session.
LEMMA AloneHandled ==
    ASSUME TypedInv, NeverTwice, ApartInv, Proc, NEW kind \in {"start", "update", "stop"},
           NEW x \in Sessions, From(kind, x), NEW r \in Seq(Command), apiQ' = apiQ \o r
    PROVE  /\ Registered(x)
           /\ Unawaited(msgQ', apiQ, x)
           /\ \A C : "none" \notin C /\ "clean" \notin C /\ ~Commanding(r, C, x) =>
                        ~Under(C, x)'
           /\ \A i \in 1..Len(msgQ') : ~Concerns(msgQ'[i], x)
<1>1. PICK q, h : q = msgQ /\ h = Head(msgQ)
  OBVIOUS
<1>2. removing = {} /\ q \in Seq(Message) /\ q # <<>> /\ h = Head(q) /\ h.m = kind /\ h.s = x
  BY <1>1, HeadTyped DEF From, Arrived
<1>3. h \in Message /\ h = q[1] /\ 1 \in 1..Len(q)
  BY <1>2, HeadTail
<1>4. Concerns(q[1], x)
  BY <1>2, <1>3 DEF Concerns
<1>5. ClientOf[x] \in clients \ removing
  BY <1>1, <1>3, <1>4 DEF ApartInv, ThenRemoved, BeforeRemoval
<1>6. h \in Awaited(x)
  BY <1>2, <1>3 DEF Awaited
<1>7. Unawaited(Tail(msgQ), apiQ, x)
  BY <1>1, <1>2, <1>5, <1>6, AloneTaken DEF ApartInv
<1>8. msgQ' = Tail(msgQ) /\ pending = <<>>
  BY <1>2, HandlerTakes DEF ApartInv, NoneBefore
<1>9. PICK t, a : t = msgQ' /\ a = apiQ
  OBVIOUS
<1>10. t \in Seq(Message) /\ a \in Seq(Command) /\ Unawaited(t, a, x) /\ apiQ' = a \o r
  BY <1>1, <1>2, <1>7, <1>8, <1>9, HeadTail DEF TypedInv, TypeOK
<1>11. /\ \A i \in 1..Len(t) : ~Concerns(t[i], x)
       /\ \A C : "none" \notin C /\ "clean" \notin C =>
                        ~Answering(t, C, x) /\ ~Commanding(a, C, x)
  BY <1>10, UnawaitedFacts
<1>12. ASSUME NEW C, "none" \notin C, "clean" \notin C, ~Commanding(r, C, x)
       PROVE  ~Under(C, x)'
  BY <1>9, <1>10, <1>11, <1>12, CommandingConcat DEF Under
<1> QED
  BY <1>5, <1>9, <1>10, <1>11, <1>12 DEF Registered

-----------------------------------------------------------------------------
(* A session is time based or distance based, and so it stays. *)

LEMMA ApartHandled ==
    ASSUME TypedInv, NeverTwice, ApartInv, Proc, NEW r \in Seq(Command), apiQ' = apiQ \o r,
           NEW x \in Sessions, Moves(r, x)
    PROVE  ~ /\ x \in DOMAIN tb' \/ Under(TimeWays, x)'
             /\ x \in DOMAIN db' \/ Under(DistanceWays, x)'
<1> DEFINE T == x \in DOMAIN tb \/ Under(TimeWays, x)
           D == x \in DOMAIN db \/ Under(DistanceWays, x)
           NT == x \in DOMAIN tb' \/ Under(TimeWays, x)'
           ND == x \in DOMAIN db' \/ Under(DistanceWays, x)'
<1>1. ~(T /\ D)
  BY DEF ApartInv, Apart
<1>2. /\ Under(TimeWays, x)' => Under(TimeWays, x) \/ Commanding(r, TimeWays, x)
      /\ Under(DistanceWays, x)' => Under(DistanceWays, x) \/ Commanding(r, DistanceWays, x)
  BY UnderHandled DEF ApartInv, NoneBefore
<1>3. /\ TimeWays \cap {"none", "start", "stop", "clean"} = {}
      /\ DistanceWays \cap {"none", "start", "stop", "clean", "update"} = {}
  BY DEF TimeWays, DistanceWays
<1>4. Others(r, x) => ~Commanding(r, TimeWays, x) /\ ~Commanding(r, DistanceWays, x)
  BY <1>3, NotSent
<1>5. \A op, cb : Sends(r, op, cb, x) =>
          /\ cb \notin TimeWays => ~Commanding(r, TimeWays, x)
          /\ cb \notin DistanceWays => ~Commanding(r, DistanceWays, x)
  BY <1>3, NotSent
<1>6. Timed(r, x) => ~Commanding(r, DistanceWays, x)
  BY <1>3, NotSent
<1>7. ASSUME NEW kind \in {"start", "update", "stop"}, From(kind, x)
      PROVE  /\ Registered(x)
             /\ ~Commanding(r, TimeWays, x) => ~Under(TimeWays, x)'
             /\ ~Commanding(r, DistanceWays, x) => ~Under(DistanceWays, x)'
  BY <1>3, <1>7, AloneHandled
<1>8. CASE Starts(r, x)
  <2>1. x \notin DOMAIN tb \cup DOMAIN db
    <3>1. PICK q : q = msgQ
      OBVIOUS
    <3>2. q \in Seq(Message) /\ q # <<>> /\ Head(q).m = "start" /\ Head(q).s = x
      BY <1>8, <3>1, HeadTyped DEF Starts, From, Arrived
    <3>3. Head(q) = q[1] /\ 1 \in 1..Len(q)
      BY <3>2, HeadTail
    <3> QED
      BY <3>1, <3>2, <3>3 DEF ApartInv, StartsAreNew
  <2>2. CASE Others(r, x) /\ SameDistance(x)
    BY <1>4, <1>7, <1>8, <2>1, <2>2 DEF Starts, SameDistance
  <2>3. CASE Sends(r, "startDB", "dstart", x) /\ x \in DOMAIN db' /\ LosesTime(x)
    BY <1>5, <1>7, <1>8, <2>1, <2>3 DEF Starts, LosesTime, TimeWays
  <2> QED
    BY <1>8, <2>2, <2>3 DEF Starts
<1>9. CASE Updates(r, x)
  <2>1. CASE Timed(r, x) /\ SameDistance(x) /\ x \in DOMAIN tb
    BY <1>1, <1>6, <1>7, <1>9, <2>1 DEF Updates, SameDistance
  <2>2. CASE /\ Sends(r, "startDB", "none", x)
             /\ x \in DOMAIN tb /\ x \notin DOMAIN tb' /\ x \in DOMAIN db'
    BY <1>5, <1>7, <1>9, <2>2 DEF Updates, TimeWays
  <2>3. CASE /\ Sends(r, "stopDB", "toTimeBased", x)
             /\ x \in DOMAIN db /\ x \notin DOMAIN db' /\ LosesTime(x)
    BY <1>5, <1>7, <1>9, <2>3 DEF Updates, DistanceWays
  <2>4. CASE Sends(r, "stopDB", "restart", x) /\ x \in DOMAIN db /\ SameSession(x)
    BY <1>1, <1>5, <1>7, <1>9, <2>4 DEF Updates, TimeWays, SameSession, Loses
  <2> QED
    BY <1>9, <2>1, <2>2, <2>3, <2>4 DEF Updates
<1>10. CASE Stops(r, x)
  BY <1>1, <1>2, <1>5, <1>10 DEF Stops, TimeWays, DistanceWays, SameSession, Loses
<1>11. CASE Goes(r, x)
  <2>1. ASSUME NEW C, NEW ok, Came(C, x, ok)
        PROVE  Under(C, x)
    <3>1. PICK q : q = msgQ
      OBVIOUS
    <3>2. q \in Seq(Message) /\ q # <<>> /\ IsAnswer(Head(q), C, x)
      BY <2>1, <3>1, HeadTyped DEF Came
    <3>3. Head(q) = q[1] /\ 1 \in 1..Len(q)
      BY <3>2, HeadTail
    <3> QED
      BY <3>1, <3>2, <3>3 DEF Under, Answering
  <2>2. \A C : C \subseteq DistanceWays /\ Under(C, x) => Under(DistanceWays, x)
    BY DEF Under, Answering, Commanding, IsAnswer, IsCommand
  <2>3. CASE Came({"restart"}, x, TRUE) /\ Sends(r, "startDB", "restarted", x) /\ SameSession(x)
    BY <1>1, <1>2, <1>5, <2>1, <2>2, <2>3 DEF DistanceWays, TimeWays, SameSession, Loses
  <2>4. CASE Came({"restarted"}, x, TRUE) /\ Others(r, x) /\ x \in DOMAIN db' /\ LosesTime(x)
    BY <1>1, <1>2, <1>4, <2>1, <2>2, <2>4 DEF DistanceWays, LosesTime
  <2>5. CASE Came(Endings, x, TRUE) /\ Others(r, x) /\ x \notin DOMAIN db' /\ LosesTime(x)
    BY <1>1, <1>2, <1>4, <2>5 DEF LosesTime
  <2>6. CASE \E ok : Came(TimeWays, x, ok) /\ Others(r, x) /\ SameDistance(x)
    BY <1>1, <1>2, <1>4, <2>1, <2>6 DEF SameDistance
  <2>7. CASE Came(Callback, x, FALSE) /\ Others(r, x) /\ Loses(x)
    BY <1>1, <1>2, <1>4, <2>7 DEF Loses
  <2> QED
    BY <1>11, <2>3, <2>4, <2>5, <2>6, <2>7 DEF Goes
<1>12. CASE Renews(r, x)
  BY <1>1, <1>2, <1>3, <1>12 DEF Renews, Commanding, IsCommand, SameSession, Loses
<1>13. CASE Rests(r, x)
  BY <1>1, <1>2, <1>4, <1>13 DEF Rests, SameSession, Loses
<1> QED
  BY <1>8, <1>9, <1>10, <1>11, <1>12, <1>13 DEF Moves

\* A session comes only with a message that its client waits for.
LEMMA ComesAwaited ==
    ASSUME TypedInv, ApartInv, NEW r, NEW x \in Sessions, Moves(r, x),
           x \in DOMAIN tb' \cup DOMAIN db', x \notin DOMAIN tb \cup DOMAIN db
    PROVE  msgQ # <<>> /\ Head(msgQ) \in Awaited(x)
<1>1. PICK q, h : q = msgQ /\ h = Head(msgQ)
  OBVIOUS
<1>2. ~Loses(x)
  BY DEF Loses
<1>3. \/ \E kind \in {"start", "update", "stop"} : From(kind, x)
      \/ \E ok : Came({"restarted"}, x, ok) \/ Came(TimeWays, x, ok)
  BY <1>2 DEF Moves, Starts, Updates, Stops, Goes, Renews, Rests, SameSession, LosesTime
<1>4. q \in Seq(Message) /\ q # <<>> /\ h = Head(q)
  BY <1>1, <1>3, HeadTyped DEF From, Came
<1>5. h \in Message
  BY <1>4, HeadTail
<1>6. \/ h.m \in {"start", "update", "stop"} /\ h.s = x
      \/ h.m = "resp" /\ h.cb \in {"restarted"} \cup TimeWays /\ h.s = x
  BY <1>1, <1>3 DEF From, Came, Arrived, IsAnswer
<1>7. h \in Awaited(x)
  BY <1>5, <1>6 DEF Awaited, TimeWays
<1> QED
  BY <1>1, <1>4, <1>7

LEMMA StartsAreNewStep ==
    ASSUME Reliable, TypedInv, RateInv, NeverTwice, ApartInv, [Next]_vars
    PROVE  StartsAreNew'
<1>1. PICK q : q = msgQ
  OBVIOUS
<1>2. q \in Seq(Message) /\ pending = <<>>
  BY <1>1 DEF TypedInv, TypeOK, ApartInv, NoneBefore
<1>3. \A i \in 1..Len(q) : q[i].m = "start" => q[i].s \notin DOMAIN tb \cup DOMAIN db
  BY <1>1 DEF ApartInv, StartsAreNew
<1>4. ASSUME UNCHANGED <<msgQ, tb, db>> PROVE StartsAreNew'
  BY <1>1, <1>3, <1>4 DEF StartsAreNew
<1>5. ASSUME UNCHANGED <<tb, db>>, NEW m \in Message, Post(m),
             m.m = "start" => m.s \notin DOMAIN tb \cup DOMAIN db
      PROVE  StartsAreNew'
  <2>1. PICK t : t = Append(q, m)
    OBVIOUS
  <2>2. \A i \in 1..Len(t) : (i \in 1..Len(q) /\ t[i] = q[i]) \/ t[i] = m
    BY <1>2, <2>1, AppendFacts
  <2>3. msgQ' = t
    BY <1>1, <1>5, <2>1 DEF Post
  <2> QED
    BY <1>3, <1>5, <2>2, <2>3 DEF StartsAreNew
<1>6. ASSUME Proc PROVE StartsAreNew'
  <2>1. PICK r \in Seq(Command) : apiQ' = apiQ \o r /\ \A x \in Sessions : Moves(r, x)
    BY <1>6, HandlersMove DEF ApartInv, Moved
  <2>2. PICK t : t = msgQ'
    OBVIOUS
  <2>3. ASSUME NEW i \in 1..Len(t), t[i].m = "start" PROVE t[i].s \notin DOMAIN tb' \cup DOMAIN db'
    <3>1. PICK x : x = t[i].s
      OBVIOUS
    <3>2. t \in Seq(Message)
      BY <2>2, TypedStep DEF TypedInv, TypeOK
    <3>3. x \in Sessions /\ Concerns(t[i], x)
      BY <2>3, <3>1, <3>2, MessageFields DEF Concerns
    <3>4. CASE t = q /\ removing # {}
      BY <1>3, <2>1, <2>3, <3>1, <3>3, <3>4
      DEF From, Arrived, Moves, Starts, Updates, Stops, Goes, Came, Renews, Rests,
           SameSession, Loses
    <3>5. CASE q # <<>> /\ t = Tail(q) /\ removing = {}
      <4>1. i + 1 \in 1..Len(q) /\ t[i] = q[i + 1]
        BY <1>2, <3>5, HeadTail
      <4>2. x \notin DOMAIN tb \cup DOMAIN db
        BY <1>3, <2>3, <3>1, <4>1
      <4>3. ClientOf[x] \in clients \ removing
        BY <1>1, <3>3, <4>1 DEF ApartInv, ThenRemoved, BeforeRemoval
      <4>4. SUFFICES ASSUME x \in DOMAIN tb' \cup DOMAIN db' PROVE FALSE
        BY <3>1
      <4>5. Head(msgQ) \in Awaited(x) /\ msgQ # <<>>
        BY <2>1, <3>3, <4>2, <4>4, ComesAwaited
      <4>6. Unawaited(Tail(msgQ), apiQ, x)
        BY <3>3, <4>3, <4>5, AloneTaken DEF ApartInv
      <4>7. PICK a : a = apiQ /\ a \in Seq(Command)
        BY DEF TypedInv, TypeOK
      <4>8. Unawaited(t, a, x)
        BY <1>1, <3>5, <4>6, <4>7
      <4> QED
        BY <3>2, <3>3, <4>7, <4>8, UnawaitedFacts
    <3> QED
      BY <1>1, <1>2, <1>6, <2>2, <3>1, <3>4, <3>5, HandlerTakes
  <2> QED
    BY <2>2, <2>3 DEF StartsAreNew
<1>7. ASSUME Asked PROVE StartsAreNew'
  BY <1>5, <1>7, AskedPosts DEF adapterVars
<1>8. ASSUME EngineDone \/ EngineRefuses \/ Event PROVE StartsAreNew'
  BY <1>4, <1>5, <1>8, AnswerPosts, EventPosts DEF adapterVars
<1> QED
  BY <1>6, <1>7, <1>8, StepKinds

LEMMA CleansGoneStep ==
    ASSUME Reliable, TypedInv, RateInv, ApartInv, [Next]_vars
    PROVE  CleansGone'
<1>1. clients' \subseteq clients
  BY ClientsLeave
<1>2. \A x \in Sessions : Under({"clean"}, x) => ClientOf[x] \notin clients
  BY DEF ApartInv, CleansGone
<1>3. ASSUME NEW x \in Sessions, Under({"clean"}, x)' PROVE ClientOf[x] \notin clients'
  <2>1. CASE Asked \/ EngineDone \/ EngineRefuses \/ Event
    BY <1>1, <1>2, <1>3, <2>1, UnderKept
  <2>2. CASE Proc
    <3>1. PICK r \in Seq(Command) : apiQ' = apiQ \o r /\ \A y \in Sessions : Moves(r, y)
      BY <2>2, HandlersMove DEF ApartInv, Moved
    <3>2. Under({"clean"}, x) \/ Commanding(r, {"clean"}, x)
      BY <1>3, <2>2, <3>1, UnderHandled DEF ApartInv, NoneBefore
    <3>3. ASSUME Commanding(r, {"clean"}, x) PROVE RemoveRest /\ ClientOf[x] \in removing
      <4>1. {"clean"} \cap {"none", "start", "stop"} = {} /\ "update" \notin {"clean"}
        OBVIOUS
      <4>2. ~Others(r, x) /\ ~Timed(r, x) /\ \A op, cb : Sends(r, op, cb, x) => cb = "clean"
        BY <3>3, <4>1, NotSent
      <4>3. ~Renews(r, x)
        BY <3>3 DEF Renews, Commanding, IsCommand
      <4>4. Moves(r, x)
        BY <3>1
      <4> QED
        BY <4>2, <4>3, <4>4 DEF Moves, Starts, Updates, Stops, Goes, Rests
    <3>4. CASE Commanding(r, {"clean"}, x)
      BY <3>3, <3>4 DEF RemoveRest
    <3> QED
      BY <1>1, <1>2, <3>2, <3>4
  <2> QED
    BY <2>1, <2>2, StepKinds
<1> QED
  BY <1>3 DEF CleansGone

LEMMA ApartStep ==
    ASSUME Patient, TypedInv, RateInv, NeverTwice, ApartInv, [Next]_vars
    PROVE  ApartInv'
<1>1. Reliable /\ AwaitEngine /\ MaxOwed = 1
  BY DEF Patient
<1>2. StartsAreNew' /\ CleansGone'
  BY <1>1, StartsAreNewStep, CleansGoneStep
<1>3. OneOwed' /\ NoneBefore' /\ ThenRemoved'
  BY <1>1, OneOwedStep, NoneBeforeStep, ThenRemovedStep DEF ApartInv, NoneBefore
<1>4. ASSUME NEW x \in Sessions
      PROVE  ~ /\ x \in DOMAIN tb' \/ Under(TimeWays, x)'
               /\ x \in DOMAIN db' \/ Under(DistanceWays, x)'
  <2>1. CASE Proc
    BY <1>1, <2>1, HandlersMove, ApartHandled DEF ApartInv, Moved
  <2>2. CASE Asked \/ EngineDone \/ EngineRefuses \/ Event
    BY <2>2, AskedPosts, AnswerPosts, EventPosts, UnderKept
    DEF adapterVars, TimeWays, DistanceWays, ApartInv, Apart
  <2> QED
    BY <2>1, <2>2, StepKinds
<1>5. Apart'
  BY <1>4 DEF Apart
<1> QED
  BY <1>2, <1>3, <1>5 DEF ApartInv

-----------------------------------------------------------------------------
(* Nothing disturbs the engine. *)

LEMMA UndisturbedBefore ==
    ASSUME TypedInv, [Next]_vars, Undisturbed'
    PROVE  Undisturbed
<1>1. Steady
  BY SteadyBefore DEF Undisturbed
<1>2. nhzs \in Nat /\ nhzs' = 0
  BY DEF TypedInv, TypeOK, Undisturbed
<1>3. UNCHANGED nhzs \/ nhzs' = nhzs + 1
  <2>1. CASE Proc
    BY <2>1 DEF Proc, ProcStart, ProcUpdate, ProcStop, ProcRemoveClient, RemoveTimeBased,
       RemoveRest, RespStart, RespUpdate, RespStop, RespDistanceStop, RespToTimeBased,
       RespRestart, RespRestarted, ProcEngineUp, ProcNHz, Frame, engineVars
  <2>2. CASE Asked
    BY <2>2, AskedPosts DEF engineVars
  <2>3. CASE EngineDone \/ EngineRefuses
    BY <2>3, AnswerPosts
  <2>4. CASE Event
    BY <2>4 DEF Event, EngineDown, handleEngineDownEvent, EngineUp, NHzRequirement, engineVars, vars
  <2> QED
    BY <2>1, <2>2, <2>3, <2>4, StepKinds
<1> QED
  BY <1>1, <1>2, <1>3 DEF Undisturbed

\* Commands reach an engine that is up.
LEMMA UpWhenServed ==
    ASSUME TypedInv, NotYetUp, NoneBefore, Undisturbed, EngineDone \/ EngineRefuses
    PROVE  up
<1>1. PICK a : a = apiQ
  OBVIOUS
<1>2. a \in Seq(Command) /\ a # <<>> /\ a[1].op # "open"
  BY <1>1, AnswerPosts DEF TypedInv, TypeOK
<1>3. 1 \in 1..Len(a)
  BY <1>2, HeadTail
<1>4. capsKnown
  BY <1>1, <1>2, <1>3 DEF NoneBefore, Unasked
<1>5. ups \in Nat /\ ups # 0
  BY <1>4 DEF NotYetUp, TypedInv, TypeOK
<1> QED
  BY <1>5 DEF Undisturbed, Steady

LEMMA NeverDown ==
    ASSUME TypedInv, NotYetUp, Undisturbed, Undisturbed'
    PROVE  ~EngineDown
<1> SUFFICES ASSUME EngineDown PROVE FALSE
  OBVIOUS
<1>1. up /\ ~up' /\ ups' = ups
  BY DEF EngineDown
<1>2. ups # 0 /\ ups \in Nat
  BY <1>1 DEF NotYetUp, TypedInv, TypeOK
<1> QED
  BY <1>1, <1>2 DEF Undisturbed, Steady

LEMMA UpOnceTail ==
    ASSUME TypedInv, UpOnce, msgQ # <<>>, msgQ' = Tail(msgQ), UNCHANGED <<up, ups>>
    PROVE  /\ UNCHANGED capsKnown => UpOnce'
           /\ Head(msgQ).m = "engineUp" => UpOnce'
<1>1. PICK q, t : q = msgQ /\ t = msgQ'
  OBVIOUS
<1>2. /\ q \in Seq(Message) /\ Head(q) = q[1] /\ 1 \in 1..Len(q)
      /\ \A i \in 1..Len(t) : i + 1 \in 1..Len(q) /\ t[i] = q[i + 1] /\ i + 1 # 1
  BY <1>1, HeadTail DEF TypedInv, TypeOK
<1>3. \A i \in 1..Len(t) : t[i].m # "nhz"
  BY <1>1, <1>2 DEF UpOnce
<1>4. ASSUME UNCHANGED capsKnown PROVE UpOnce'
  <2>1. up' \/ capsKnown' => ups' = 1
    BY <1>4 DEF UpOnce
  <2>2. ASSUME NEW i \in 1..Len(t), t[i].m = "engineUp"
        PROVE  ups' = 1 /\ ~capsKnown' /\ \A j \in 1..Len(t) : t[j].m = "engineUp" => j = i
    <3>1. i + 1 \in 1..Len(q) /\ q[i + 1].m = "engineUp"
      BY <1>2, <2>2
    <3>2. ups = 1 /\ ~capsKnown /\ \A j \in 1..Len(q) : q[j].m = "engineUp" => j = i + 1
      BY <1>1, <3>1 DEF UpOnce
    <3>3. ASSUME NEW j \in 1..Len(t), t[j].m = "engineUp" PROVE j = i
      BY <1>2, <3>2, <3>3
    <3> QED
      BY <1>4, <3>2, <3>3
  <2> QED
    BY <1>1, <1>3, <2>1, <2>2 DEF UpOnce
<1>5. ASSUME Head(msgQ).m = "engineUp" PROVE UpOnce'
  BY <1>1, <1>2, <1>3, <1>5 DEF UpOnce
<1> QED
  BY <1>4, <1>5

LEMMA UpOncePost ==
    ASSUME TypedInv, NotYetUp, UpOnce, NEW m \in Message, Post(m), m.m # "nhz", UNCHANGED capsKnown,
           \/ UNCHANGED <<up, ups>> /\ m.m # "engineUp"
           \/ ups = 0 /\ ups' = 1 /\ m.m = "engineUp"
    PROVE  UpOnce'
<1>1. PICK q, t, n : q = msgQ /\ t = Append(q, m) /\ n = Len(q)
  OBVIOUS
<1>2. /\ q \in Seq(Message) /\ t[n + 1] = m /\ msgQ' = t
      /\ \A i \in 1..n : i \in 1..Len(t) /\ t[i] = q[i]
      /\ \A i \in 1..Len(t) : i \in 1..n \/ i = n + 1
  BY <1>1, AppendFacts DEF TypedInv, TypeOK, Post
<1>3. \A i \in 1..Len(t) : t[i].m # "nhz"
  BY <1>1, <1>2 DEF UpOnce
<1>4. CASE UNCHANGED <<up, ups>> /\ m.m # "engineUp"
  <2>1. \A i \in 1..Len(t) : t[i].m = "engineUp" => i \in 1..n /\ q[i].m = "engineUp"
    BY <1>2, <1>4
  <2>2. \A i \in 1..n : q[i].m = "engineUp" =>
           ups = 1 /\ ~capsKnown /\ \A j \in 1..n : q[j].m = "engineUp" => j = i
    BY <1>1 DEF UpOnce
  <2>3. up' \/ capsKnown' => ups' = 1
    BY <1>4 DEF UpOnce
  <2>4. \A i \in 1..Len(t) : t[i].m = "engineUp" =>
           ups' = 1 /\ ~capsKnown' /\ \A j \in 1..Len(t) : t[j].m = "engineUp" => j = i
    BY <1>4, <2>1, <2>2
  <2> QED
    BY <1>2, <1>3, <2>3, <2>4 DEF UpOnce
<1>5. CASE ups = 0 /\ ups' = 1 /\ m.m = "engineUp"
  BY <1>1, <1>2, <1>3, <1>5 DEF NotYetUp, UpOnce
<1> QED
  BY <1>4, <1>5

LEMMA UpOnceStep ==
    ASSUME TypedInv, NotYetUp, NoneBefore, Undisturbed, Undisturbed', UpOnce, [Next]_vars
    PROVE  UpOnce'
<1>1. ASSUME UNCHANGED <<msgQ, up, ups, capsKnown>> PROVE UpOnce'
  BY <1>1 DEF UpOnce
<1>2. CASE Proc
  <2>1. UNCHANGED <<up, ups>>
    BY <1>2, HandlerTakes DEF NoneBefore, engineVars
  <2>2. CASE UNCHANGED msgQ /\ removing # {}
    BY <1>1, <1>2, <2>1, <2>2, HandlersSource DEF ProcEngineUp, Arrived
  <2>3. CASE msgQ # <<>> /\ msgQ' = Tail(msgQ)
    BY <1>2, <2>1, <2>3, HandlersSource, UpOnceTail DEF ProcEngineUp, Arrived
  <2> QED
    BY <1>2, <2>2, <2>3, HandlerTakes DEF NoneBefore
<1>3. CASE Asked
  <2>1. UNCHANGED <<up, ups, capsKnown>>
    BY <1>3, AskedPosts DEF engineVars, adapterVars
  <2>2. PICK m \in Message : Post(m) /\ m.m \in {"start", "update", "stop", "remove"}
    BY <1>3, AskedPosts
  <2> QED
    BY <2>1, <2>2, UpOncePost
<1>4. CASE EngineDone \/ EngineRefuses
  BY <1>1, <1>4, AnswerPosts, UpOncePost DEF adapterVars
<1>5. CASE handleEngineDownEvent \/ UNCHANGED vars
  BY <1>1, <1>5 DEF handleEngineDownEvent, vars, adapterVars, engineVars
<1>6. CASE EngineUp
  <2>1. PICK m : m = [m |-> "engineUp"]
    OBVIOUS
  <2>2. m \in Message /\ m.m = "engineUp" /\ Post(m)
    BY <1>6, <2>1 DEF Message, EngineUp
  <2>3. ups \in Nat /\ ups' = ups + 1 /\ UNCHANGED capsKnown
    BY <1>6 DEF EngineUp, TypedInv, TypeOK, adapterVars
  <2>4. ups = 0 /\ ups' = 1
    BY <2>3 DEF Undisturbed, Steady
  <2> QED
    BY <2>2, <2>3, <2>4, UpOncePost
<1>7. ~NHzRequirement
  BY DEF Undisturbed, NHzRequirement
<1> QED
  BY <1>2, <1>3, <1>4, <1>5, <1>6, <1>7, NeverDown, StepKinds DEF Event

LEMMA AllGrantedStep ==
    ASSUME ~EngineErrors, TypedInv, NotYetUp, NoneBefore, Undisturbed, AllGranted, [Next]_vars
    PROVE  AllGranted'
<1>1. PICK q : q = msgQ
  OBVIOUS
<1>2. q \in Seq(Message) /\ \A i \in 1..Len(q) : q[i].m = "resp" => q[i].ok
  BY <1>1 DEF TypedInv, TypeOK, AllGranted
<1>3. CASE UNCHANGED msgQ
  BY <1>3 DEF AllGranted
<1>4. ASSUME NEW m \in Message, Post(m), m.m = "resp" => m.ok PROVE AllGranted'
  <2>1. PICK t : t = Append(q, m)
    OBVIOUS
  <2>2. msgQ' = t /\ \A i \in 1..Len(t) : (i \in 1..Len(q) /\ t[i] = q[i]) \/ t[i] = m
    BY <1>1, <1>2, <1>4, <2>1, AppendFacts DEF Post
  <2> QED
    BY <1>2, <1>4, <2>2 DEF AllGranted
<1>5. CASE q # <<>> /\ msgQ' = Tail(q)
  <2>1. PICK t : t = Tail(q)
    OBVIOUS
  <2>2. msgQ' = t /\ \A i \in 1..Len(t) : i + 1 \in 1..Len(q) /\ t[i] = q[i + 1]
    BY <1>2, <1>5, <2>1, HeadTail
  <2> QED
    BY <1>2, <2>2 DEF AllGranted
<1>6. CASE Proc
  BY <1>1, <1>3, <1>5, <1>6, HandlerTakes DEF NoneBefore
<1>7. CASE EngineDone \/ EngineRefuses
  BY <1>3, <1>4, <1>7, UpWhenServed, AnswerPosts
<1>8. CASE Asked \/ Event
  BY <1>3, <1>4, <1>8, AskedPosts, EventPosts
<1> QED
  BY <1>6, <1>7, <1>8, StepKinds

-----------------------------------------------------------------------------
(* What the engine will run. *)

LEMMA FollowedNone ==
    ASSUME NEW q, NEW a, NEW C, NEW D, NEW s, ~Answering(q, C, s), ~Commanding(a, C, s)
    PROVE  Followed(q, a, C, D, s)
  BY DEF Followed, Answering, Commanding

LEMMA RunningSent ==
    ASSUME NEW a \in Seq(Command), NEW r \in Seq(Command), NEW d, NEW x
    PROVE  /\ Timed(r, x) => (Running(a \o r, d, x) <=> Running(a, d, x))
           /\ \A cb : Sends(r, "startDB", cb, x) => Running(a \o r, d, x)
           /\ \A cb : Sends(r, "stopDB", cb, x) => ~Running(a \o r, d, x)
<1>1. Timed(r, x) => \A i \in 1..Len(r) : ~Distance(r[i], x)
  BY DEF Timed, Distance
<1>2. \A c : Harmless(c, x) => ~Distance(c, x)
  BY DEF Harmless, Distance
<1>3. ASSUME NEW op \in {"startDB", "stopDB"}, NEW cb, Sends(r, op, cb, x)
      PROVE  Running(a \o r, d, x) <=> op = "startDB"
  <2>1. PICK k \in 1..Len(r) : /\ r[k].op = op /\ r[k].s = x
                               /\ \A i \in 1..Len(r) : i # k => Harmless(r[i], x)
    BY <1>3 DEF Sends
  <2>2. Distance(r[k], x) /\ \A i \in 1..Len(r) : i # k => ~Distance(r[i], x)
    BY <1>2, <2>1 DEF Distance
  <2>3. Running(a \o r, d, x) <=> r[k].op = "startDB"
    BY <2>2, RunningConcat
  <2> QED
    BY <2>1, <2>3
<1>4. \A cb : Sends(r, "startDB", cb, x) => Running(a \o r, d, x)
  BY <1>3
<1>5. \A cb : Sends(r, "stopDB", cb, x) => ~Running(a \o r, d, x)
  BY <1>3
<1>6. Timed(r, x) => (Running(a \o r, d, x) <=> Running(a, d, x))
  BY <1>1, RunningConcat
<1> QED
  BY <1>4, <1>5, <1>6

LEMMA FollowedSent ==
    ASSUME NEW q, NEW a \in Seq(Command), NEW r \in Seq(Command), NEW C, NEW D, NEW x,
           C \cap {"none", "start", "stop"} = {},
           NEW op \in {"startDB", "stopDB"}, NEW cb \in D, cb \notin C, Sends(r, op, cb, x)
    PROVE  Followed(q, a \o r, C, D, x) /\ Commanding(r, D, x)
<1>1. PICK k \in 1..Len(r) : /\ r[k].op = op /\ r[k].cb = cb /\ r[k].s = x
                             /\ \A i \in 1..Len(r) : i # k => Harmless(r[i], x)
  BY DEF Sends
<1>2. IsCommand(r[k], D, x)
  BY <1>1 DEF IsCommand
<1>3. ASSUME NEW i \in 1..Len(r) PROVE ~IsCommand(r[i], C, x)
  BY <1>1 DEF Harmless, IsCommand
<1>4. \A i \in k..Len(r) : i \in 1..Len(r)
  OBVIOUS
<1>5. Followed(q, a \o r, C, D, x)
  BY <1>2, <1>3, <1>4, FollowedConcat
<1> QED
  BY <1>2, <1>5 DEF Commanding

LEMMA FollowedHandled ==
    ASSUME TypedInv, pending = <<>>, Proc, NEW r \in Seq(Command), apiQ' = apiQ \o r,
           NEW C, NEW D, NEW x, Followed(msgQ, apiQ, C, D, x), ~Commanding(r, C, x)
    PROVE  /\ Followed(msgQ', apiQ', C, D, x)
           /\ Arrived("resp") /\ IsAnswer(Head(msgQ), C, x) => Under(D, x)'
<1>1. PICK q, a : q = msgQ /\ a = apiQ
  OBVIOUS
<1>2. q \in Seq(Message) /\ a \in Seq(Command) /\ Followed(q, a, C, D, x) /\ apiQ' = a \o r
  BY <1>1 DEF TypedInv, TypeOK
<1>3. Commanding(apiQ', D, x) <=> Commanding(a, D, x) \/ Commanding(r, D, x)
  BY <1>2, CommandingConcat
<1>4. CASE UNCHANGED msgQ /\ removing # {}
  BY <1>1, <1>2, <1>4, FollowedConcat DEF Arrived
<1>5. CASE q # <<>> /\ msgQ' = Tail(q)
  <2>1. /\ Followed(Tail(q), a, C, D, x)
        /\ IsAnswer(q[1], C, x) => Answering(Tail(q), D, x) \/ Commanding(a, D, x)
    BY <1>2, <1>5, FollowedTail
  <2>2. Followed(Tail(q), apiQ', C, D, x)
    BY <1>2, <2>1, FollowedConcat
  <2>3. Head(q) = q[1]
    BY <1>2, <1>5, HeadTail
  <2>4. IsAnswer(Head(q), C, x) => Under(D, x)'
    BY <1>3, <1>5, <2>1, <2>3 DEF Under
  <2> QED
    BY <1>1, <1>5, <2>2, <2>4
<1> QED
  BY <1>1, <1>4, <1>5, HandlerTakes

\* Nothing becomes of the session.
LEMMA AgreedKept ==
    ASSUME TypedInv, pending = <<>>, Proc, NEW r \in Seq(Command), apiQ' = apiQ \o r,
           NEW x \in Sessions, Timed(r, x), SameDistance(x), Agreed(x),
           Arrived("resp") => ~IsAnswer(Head(msgQ), Turns, x)
    PROVE  Agreed(x)'
<1>1. apiQ \in Seq(Command) /\ UNCHANGED dfix
  BY HandlerTakes DEF TypedInv, TypeOK, engineVars
<1>2. Running(apiQ', dfix', x) <=> Running(apiQ, dfix, x)
  BY <1>1, RunningSent
<1>3. /\ Endings \cap {"none", "start", "stop"} = {} /\ "update" \notin Endings
      /\ {"restarted"} \cap {"none", "start", "stop"} = {} /\ "update" \notin {"restarted"}
      /\ {"restarted"} \subseteq Turns /\ Endings \cup {"restart"} \subseteq Turns
  BY DEF Endings, Turns, DistanceWays
<1>4. ~Commanding(r, Endings, x) /\ ~Commanding(r, {"restarted"}, x)
  BY <1>3, NotSent
<1>5. \A C : C \subseteq Turns /\ Under(C, x) => Under(C, x)'
  <2> SUFFICES ASSUME NEW C, C \subseteq Turns, Under(C, x) PROVE Under(C, x)'
    OBVIOUS
  <2>1. ~(Arrived("resp") /\ IsAnswer(Head(msgQ), C, x))
    BY DEF IsAnswer
  <2> QED
    BY <2>1, UnderHandled
<1>6. Under({"restarted"}, x) => Under({"restarted"}, x)'
  BY <1>3, <1>5
<1>7. Under(Endings \cup {"restart"}, x) => Under(Endings \cup {"restart"}, x)'
  BY <1>3, <1>5
<1>8. CASE Running(apiQ, dfix, x)
  BY <1>2, <1>4, <1>6, <1>8, FollowedHandled DEF Agreed, SameDistance
<1>9. CASE ~Running(apiQ, dfix, x)
  BY <1>2, <1>4, <1>7, <1>9, FollowedHandled DEF Agreed, SameDistance
<1> QED
  BY <1>8, <1>9

\* A command starts it or ends it, and so will the callback, ...
LEMMA AgreedStarted ==
    ASSUME TypedInv, NEW r \in Seq(Command), apiQ' = apiQ \o r,
           NEW x \in Sessions, NEW cb, Sends(r, "startDB", cb, x),
           x \in DOMAIN db' \/ cb = "restarted",
           cb = "restarted" \/ ~Under(Endings, x)'
    PROVE  Agreed(x)'
<1>1. apiQ \in Seq(Command)
  BY DEF TypedInv, TypeOK
<1>2. Running(apiQ', dfix', x)
  BY <1>1, RunningSent
<1>3. CASE cb = "restarted"
  <2>1. Endings \cap {"none", "start", "stop"} = {} /\ cb \in {"restarted"} /\ cb \notin Endings
    BY <1>3 DEF Endings
  <2>2. Followed(msgQ', apiQ \o r, Endings, {"restarted"}, x) /\ Commanding(r, {"restarted"}, x)
    BY <1>1, <1>3, <2>1, FollowedSent
  <2>3. Commanding(apiQ', {"restarted"}, x)
    BY <1>1, <2>2, CommandingConcat
  <2> QED
    BY <1>2, <2>2, <2>3 DEF Agreed, Under
<1>4. CASE cb # "restarted"
  BY <1>2, <1>4, FollowedNone DEF Under, Agreed
<1> QED
  BY <1>3, <1>4

LEMMA AgreedEnded ==
    ASSUME TypedInv, NEW r \in Seq(Command), apiQ' = apiQ \o r,
           NEW x \in Sessions, NEW cb, Sends(r, "stopDB", cb, x),
           \/ cb \in Endings \cup {"restart"}
           \/ x \notin DOMAIN db' /\ ~Under({"restarted"}, x)'
    PROVE  Agreed(x)'
<1>1. apiQ \in Seq(Command)
  BY DEF TypedInv, TypeOK
<1>2. ~Running(apiQ', dfix', x)
  BY <1>1, RunningSent
<1>3. CASE cb \in Endings \cup {"restart"}
  <2>1. {"restarted"} \cap {"none", "start", "stop"} = {} /\ cb \notin {"restarted"}
    BY <1>3 DEF Endings
  <2>2. /\ Followed(msgQ', apiQ \o r, {"restarted"}, Endings \cup {"restart"}, x)
        /\ Commanding(r, Endings \cup {"restart"}, x)
    BY <1>1, <1>3, <2>1, FollowedSent
  <2>3. Commanding(apiQ', Endings \cup {"restart"}, x)
    BY <1>1, <2>2, CommandingConcat
  <2> QED
    BY <1>2, <2>2, <2>3 DEF Agreed, Under
<1>4. CASE x \notin DOMAIN db' /\ ~Under({"restarted"}, x)'
  BY <1>2, <1>4, FollowedNone DEF Under, Agreed
<1> QED
  BY <1>3, <1>4

\* ... or the callback runs.
LEMMA AgreedTurned ==
    ASSUME TypedInv, pending = <<>>, Proc, NEW r \in Seq(Command), apiQ' = apiQ \o r,
           NEW x \in Sessions, Others(r, x), Agreed(x),
           \/ Came({"restarted"}, x, TRUE) /\ x \in DOMAIN db'
           \/ Came(Endings, x, TRUE) /\ x \notin DOMAIN db'
    PROVE  Agreed(x)'
<1>1. apiQ \in Seq(Command) /\ UNCHANGED dfix
  BY HandlerTakes DEF TypedInv, TypeOK, engineVars
<1>2. Timed(r, x)
  BY DEF Others, Harmless, Timed
<1>3. Running(apiQ', dfix', x) <=> Running(apiQ, dfix, x)
  BY <1>1, <1>2, RunningSent
<1>4. /\ Endings \cap {"none", "start", "stop"} = {}
      /\ {"restarted"} \cap {"none", "start", "stop"} = {}
  BY DEF Endings
<1>5. ~Commanding(r, Endings, x) /\ ~Commanding(r, {"restarted"}, x)
  BY <1>4, NotSent
<1>6. CASE Running(apiQ, dfix, x)
  BY <1>3, <1>5, <1>6, FollowedHandled DEF Agreed, Came
<1>7. CASE ~Running(apiQ, dfix, x)
  BY <1>3, <1>5, <1>7, FollowedHandled DEF Agreed, Came
<1> QED
  BY <1>6, <1>7

LEMMA AgreedHandled ==
    ASSUME TypedInv, NeverTwice, ApartInv, Undisturbed, UpOnce, AllGranted, Proc,
           NEW r \in Seq(Command), apiQ' = apiQ \o r,
           NEW x \in Sessions, Moves(r, x), Agreed(x)
    PROVE  Agreed(x)'
<1>1. pending = <<>>
  BY DEF ApartInv, NoneBefore
<1>2. Others(r, x) => Timed(r, x)
  BY DEF Others, Harmless, Timed
<1>3. ASSUME Timed(r, x), SameDistance(x), Arrived("resp") => ~IsAnswer(Head(msgQ), Turns, x)
      PROVE  Agreed(x)'
  BY <1>1, <1>3, AgreedKept
<1>4. \A kind \in {"start", "update", "stop"} : From(kind, x) => ~Arrived("resp") /\ removing = {}
  BY DEF From, Arrived
<1>5. ASSUME From("start", x) \/ From("update", x), ~Commanding(r, Endings, x)
      PROVE  ~Under(Endings, x)'
  <2>1. Registered(x) /\ removing = {}
    BY <1>4, <1>5, AloneHandled
  <2>2. ~Commanding(r, {"dstop"}, x) /\ ~Commanding(r, {"clean"}, x)
    BY <1>5 DEF Endings, Commanding, IsCommand
  <2>3. ~Under({"dstop"}, x)'
    BY <1>5, <2>2, AloneHandled
  <2>4. ~Under({"clean"}, x)
    BY <2>1 DEF ApartInv, CleansGone, Registered
  <2>5. ~Under({"clean"}, x)'
    BY <1>1, <2>2, <2>4, UnderHandled
  <2> QED
    BY <2>3, <2>5 DEF Endings, Under, Answering, Commanding, IsAnswer, IsCommand
<1>6. \A op, cb : Sends(r, op, cb, x) /\ cb \notin Endings => ~Commanding(r, Endings, x)
  BY NotSent DEF Endings
<1>7. CASE Starts(r, x)
  <2>1. CASE Others(r, x) /\ SameDistance(x)
    BY <1>2, <1>3, <1>4, <1>7, <2>1 DEF Starts
  <2>2. CASE Sends(r, "startDB", "dstart", x) /\ x \in DOMAIN db'
    <3>1. ~Under(Endings, x)'
      BY <1>5, <1>6, <1>7, <2>2 DEF Starts, Endings
    <3> QED
      BY <2>2, <3>1, AgreedStarted
  <2> QED
    BY <1>7, <2>1, <2>2 DEF Starts
<1>8. CASE Updates(r, x)
  <2>1. CASE Timed(r, x) /\ SameDistance(x)
    BY <1>3, <1>4, <1>8, <2>1 DEF Updates
  <2>2. CASE Sends(r, "startDB", "none", x) /\ x \in DOMAIN db'
    BY <1>5, <1>6, <1>8, <2>2, AgreedStarted DEF Updates, Endings
  <2>3. CASE Sends(r, "stopDB", "toTimeBased", x) /\ x \notin DOMAIN db'
    <3>1. {"restarted"} \cap {"none", "start", "stop"} = {} /\ "toTimeBased" \notin {"restarted"}
          /\ "none" \notin {"restarted"} /\ "clean" \notin {"restarted"}
      OBVIOUS
    <3>2. ~Commanding(r, {"restarted"}, x)
      BY <2>3, <3>1, NotSent
    <3>3. ~Under({"restarted"}, x)'
      BY <1>8, <3>1, <3>2, AloneHandled DEF Updates
    <3> QED
      BY <2>3, <3>3, AgreedEnded
  <2>4. CASE Sends(r, "stopDB", "restart", x)
    BY <2>4, AgreedEnded
  <2> QED
    BY <1>8, <2>1, <2>2, <2>3, <2>4 DEF Updates
<1>9. CASE Stops(r, x)
  BY <1>9, AgreedEnded DEF Stops, Endings
<1>10. CASE Goes(r, x)
  <2>1. ASSUME NEW C, Came(C, x, FALSE) PROVE FALSE
    <3>1. PICK q : q = msgQ
      OBVIOUS
    <3>2. q \in Seq(Message) /\ q # <<>> /\ Head(q).m = "resp" /\ ~Head(q).ok
      BY <2>1, <3>1, HeadTyped DEF Came, Arrived
    <3>3. Head(q) = q[1] /\ 1 \in 1..Len(q)
      BY <3>2, HeadTail
    <3> QED
      BY <3>1, <3>2, <3>3 DEF AllGranted
  <2>2. CASE Came({"restart"}, x, TRUE) /\ Sends(r, "startDB", "restarted", x)
    BY <2>2, AgreedStarted
  <2>3. CASE Came({"restarted"}, x, TRUE) /\ Others(r, x) /\ x \in DOMAIN db'
    BY <1>1, <2>3, AgreedTurned
  <2>4. CASE Came(Endings, x, TRUE) /\ Others(r, x) /\ x \notin DOMAIN db'
    BY <1>1, <2>4, AgreedTurned
  <2>5. CASE Came(TimeWays, x, TRUE) /\ Others(r, x) /\ SameDistance(x)
    BY <1>2, <1>3, <2>5 DEF Came, IsAnswer, Turns, TimeWays, Endings, DistanceWays
  <2> QED
    BY <1>10, <2>1, <2>2, <2>3, <2>4, <2>5 DEF Goes
<1>11. CASE Renews(r, x)
  <2>1. PICK q : q = msgQ
    OBVIOUS
  <2>2. /\ q \in Seq(Message) /\ q # <<>> /\ Head(q).m \in {"nhz", "engineUp"}
        /\ ~Arrived("resp")
    BY <1>11, <2>1, HeadTyped DEF Renews, ProcEngineUp, ProcNHz, Arrived
  <2>3. Head(q) = q[1] /\ 1 \in 1..Len(q)
    BY <2>2, HeadTail
  <2>4. ~capsKnown
    BY <2>1, <2>2, <2>3 DEF UpOnce
  <2>5. Others(r, x)
    BY <1>11, <2>4 DEF Renews, ApartInv, NoneBefore
  <2> QED
    BY <1>2, <1>3, <1>11, <2>2, <2>5 DEF Renews, SameSession
<1>12. CASE Rests(r, x)
  BY <1>2, <1>3, <1>12 DEF Rests, SameSession
<1> QED
  BY <1>7, <1>8, <1>9, <1>10, <1>11, <1>12 DEF Moves

\* The clients and the engine leave what it will run as it is.
LEMMA AgreedElsewhere ==
    ASSUME TypedInv, UNCHANGED db, NEW x \in Sessions,
           Asked \/ EngineDone \/ EngineRefuses \/ Event,
           Running(apiQ', dfix', x) <=> Running(apiQ, dfix, x),
           \A C, D : "none" \notin C /\ "none" \notin D /\ Followed(msgQ, apiQ, C, D, x) =>
                         Followed(msgQ', apiQ', C, D, x),
           Agreed(x)
    PROVE  Agreed(x)'
<1>1. /\ "none" \notin Endings /\ "none" \notin {"restarted"}
      /\ "none" \notin Endings \cup {"restart"}
  BY DEF Endings
<1>2. /\ Under({"restarted"}, x)' <=> Under({"restarted"}, x)
      /\ Under(Endings \cup {"restart"}, x)' <=> Under(Endings \cup {"restart"}, x)
  BY <1>1, UnderKept
<1>3. /\ Followed(msgQ, apiQ, Endings, {"restarted"}, x) =>
            Followed(msgQ', apiQ', Endings, {"restarted"}, x)
      /\ Followed(msgQ, apiQ, {"restarted"}, Endings \cup {"restart"}, x) =>
            Followed(msgQ', apiQ', {"restarted"}, Endings \cup {"restart"}, x)
  BY <1>1
<1> QED
  BY <1>2, <1>3 DEF Agreed

\* What is posted is no answer.
LEMMA FollowedPosted ==
    ASSUME TypedInv, UNCHANGED msgQ \/ \E m \in Message : Post(m) /\ m.m # "resp",
           NEW a, NEW C, NEW D, NEW x, Followed(msgQ, a, C, D, x)
    PROVE  Followed(msgQ', a, C, D, x)
<1>1. PICK q : q = msgQ /\ q \in Seq(Message)
  BY DEF TypedInv, TypeOK
<1>2. ASSUME NEW m \in Message, Post(m), m.m # "resp" PROVE Followed(msgQ', a, C, D, x)
  BY <1>1, <1>2, FollowedPost DEF IsAnswer, Post
<1> QED
  BY <1>2

LEMMA AgreedAsked ==
    ASSUME TypedInv, Asked, NEW x \in Sessions, Agreed(x)
    PROVE  Agreed(x)'
<1>1. UNCHANGED <<apiQ, dfix, db>>
  BY AskedPosts DEF adapterVars, engineVars
<1>2. \E m \in Message : Post(m) /\ m.m # "resp"
  BY AskedPosts
<1>3. \A C, D : Followed(msgQ, apiQ, C, D, x) => Followed(msgQ', apiQ', C, D, x)
  BY <1>1, <1>2, FollowedPosted
<1> QED
  BY <1>1, <1>3, AgreedElsewhere

LEMMA AgreedServed ==
    ASSUME TypedInv, EngineDone, NEW x \in Sessions, Agreed(x)
    PROVE  Agreed(x)'
<1>1. PICK q, a, c : q = msgQ /\ a = apiQ /\ c = apiQ[1]
  OBVIOUS
<1>2. /\ q \in Seq(Message) /\ a \in Seq(Command) /\ a # <<>> /\ apiQ' = Tail(a)
      /\ c = a[1] /\ c.op # "open" /\ UNCHANGED db
  BY <1>1, AnswerPosts DEF TypedInv, TypeOK, adapterVars
<1>3. Head(a) = c
  BY <1>2, HeadTail
<1>4. dfix' = CASE c.op = "startDB" -> dfix \cup {c.s}
                [] c.op = "stopDB" -> dfix \ {c.s}
                [] OTHER -> dfix
  BY <1>1, <1>3 DEF EngineDone
<1>5. x \in dfix' <=> IF Distance(c, x) THEN c.op = "startDB" ELSE x \in dfix
  BY <1>4 DEF Distance
<1>6. Running(apiQ', dfix', x) <=> Running(a, dfix, x)
  BY <1>2, <1>5, RunningTail
<1>7. ASSUME NEW C, NEW D, "none" \notin C, "none" \notin D, Followed(q, a, C, D, x)
      PROVE  Followed(msgQ', apiQ', C, D, x)
  <2>1. CASE c.cb = "none" /\ UNCHANGED msgQ
    BY <1>1, <1>2, <1>7, <2>1, FollowedDropped DEF IsCommand
  <2>2. ASSUME NEW m \in Message, Post(m), m.m = "resp", m.cb = c.cb, m.s = c.s
        PROVE  Followed(msgQ', apiQ', C, D, x)
    BY <1>1, <1>2, <1>7, <2>2, FollowedServed DEF IsAnswer, IsCommand, Post
  <2> QED
    BY <1>1, <2>1, <2>2, AnswerPosts
<1> QED
  BY <1>1, <1>2, <1>6, <1>7, AgreedElsewhere

LEMMA AgreedEvent ==
    ASSUME TypedInv, Event, ~EngineDown, NEW x \in Sessions, Agreed(x)
    PROVE  Agreed(x)'
<1>1. PICK a : a = apiQ
  OBVIOUS
<1>2. UNCHANGED <<db, dfix>> /\ a \in Seq(Command)
  BY <1>1, EventPosts DEF Event, handleEngineDownEvent, EngineUp, NHzRequirement, vars,
     adapterVars, engineVars, TypedInv, TypeOK
<1>3. UNCHANGED msgQ \/ \E m \in Message : Post(m) /\ m.m # "resp"
  BY EventPosts
<1>4. ASSUME Running(apiQ', dfix, x) <=> Running(a, dfix, x),
             \A C, D : Followed(msgQ, a, C, D, x) => Followed(msgQ, apiQ', C, D, x)
      PROVE  Agreed(x)'
  BY <1>1, <1>2, <1>3, <1>4, FollowedPosted, AgreedElsewhere
<1>5. CASE UNCHANGED apiQ
  BY <1>1, <1>4, <1>5
<1>6. CASE a # <<>> /\ apiQ' = Tail(a) /\ a[1].op = "open"
  BY <1>2, <1>4, <1>6, RunningTail, FollowedDropped DEF Distance, IsCommand
<1>7. ASSUME NEW c \in Command, c.op = "open", apiQ' = Append(a, c)
      PROVE  Agreed(x)'
  <2>1. PICK r : r = <<c>>
    OBVIOUS
  <2>2. r \in Seq(Command) /\ apiQ' = a \o r /\ Len(r) = 1 /\ r[1] = c
    BY <1>2, <1>7, <2>1
  <2>3. Timed(r, x) /\ \A C : ~Commanding(r, C, x)
    BY <1>7, <2>2 DEF Timed, Commanding, IsCommand
  <2>4. Running(apiQ', dfix, x) <=> Running(a, dfix, x)
    BY <1>2, <2>2, <2>3, RunningSent
  <2>5. \A C, D : Followed(msgQ, a, C, D, x) => Followed(msgQ, apiQ', C, D, x)
    BY <1>2, <2>2, <2>3, FollowedConcat
  <2> QED
    BY <1>4, <2>4, <2>5
<1> QED
  BY <1>1, <1>5, <1>6, <1>7, EventPosts

LEMMA RunStep ==
    ASSUME Patient, TypedInv, RateInv, NeverTwice, NotYetUp, ApartInv, RunInv, [Next]_vars
    PROVE  RunInv'
<1> SUFFICES ASSUME Undisturbed'
             PROVE  AllGranted' /\ UpOnce' /\ \A x \in Sessions : Agreed(x)'
  BY DEF RunInv
<1>1. Reliable /\ ~EngineErrors /\ NoneBefore
  BY DEF Patient, Reliable, ApartInv
<1>2. Undisturbed
  BY UndisturbedBefore
<1>3. AllGranted /\ UpOnce /\ \A x \in Sessions : Agreed(x)
  BY <1>2 DEF RunInv
<1>4. AllGranted' /\ UpOnce'
  BY <1>1, <1>2, <1>3, AllGrantedStep, UpOnceStep
<1>5. ASSUME NEW x \in Sessions PROVE Agreed(x)'
  <2>1. Agreed(x)
    BY <1>3
  <2>2. CASE Proc
    <3>1. PICK r \in Seq(Command) : apiQ' = apiQ \o r /\ \A y \in Sessions : Moves(r, y)
      BY <1>1, <2>2, HandlersMove DEF ApartInv, Moved
    <3> QED
      BY <1>2, <1>3, <2>1, <2>2, <3>1, AgreedHandled
  <2>3. CASE Asked
    BY <2>1, <2>3, AgreedAsked
  <2>4. CASE EngineDone
    BY <2>1, <2>4, AgreedServed
  <2>5. ~EngineRefuses
    BY <1>1, <1>2, UpWhenServed DEF EngineRefuses
  <2>6. CASE Event
    BY <1>2, <2>1, <2>6, NeverDown, AgreedEvent
  <2> QED
    BY <2>2, <2>3, <2>4, <2>5, <2>6, StepKinds
<1> QED
  BY <1>4, <1>5

LEMMA ApartInit == Init => ApartInv /\ RunInv
<1> SUFFICES ASSUME Init PROVE ApartInv /\ RunInv
  OBVIOUS
<1>1. /\ DOMAIN tb = {} /\ DOMAIN db = {} /\ pending = <<>> /\ msgQ = <<>> /\ apiQ = <<>>
      /\ dfix = {} /\ ~up /\ ~capsKnown
  BY DEF Init
<1>2. /\ \A s \in Sessions : owed[s] = 0 /\ want[s] = None
  BY DEF Init
<1>3. \A C, s : ~Answering(msgQ, C, s) /\ ~Commanding(apiQ, C, s)
  BY <1>1 DEF Answering, Commanding
<1>4. \A C, s : ~Under(C, s)
  BY <1>3 DEF Under
<1>5. Apart /\ CleansGone /\ OneOwed
  BY <1>1, <1>2, <1>4 DEF Apart, CleansGone, OneOwed
<1>6. StartsAreNew /\ NoneBefore /\ ThenRemoved
  BY <1>1, <1>2 DEF StartsAreNew, NoneBefore, Unasked, ThenRemoved, BeforeRemoval
<1>7. AllGranted /\ UpOnce
  BY <1>1 DEF AllGranted, UpOnce
<1>8. \A s : ~Running(apiQ, dfix, s)
  BY <1>1 DEF Running
<1>9. \A s : Followed(msgQ, apiQ, {"restarted"}, Endings \cup {"restart"}, s)
  BY <1>3, FollowedNone
<1>10. \A s : Agreed(s)
  BY <1>1, <1>8, <1>9 DEF Agreed
<1> QED
  BY <1>5, <1>6, <1>7, <1>10 DEF ApartInv, RunInv

\* When all is quiet no callback is under way.
LEMMA DistanceHolds ==
    ASSUME TypedInv, ApartInv, RunInv
    PROVE  DistanceServed
<1>1. DOMAIN tb \subseteq Sessions /\ DOMAIN db \subseteq Sessions /\ dfix \subseteq Sessions
  BY DEF TypedInv, TypeOK
<1>2. DOMAIN tb \cap DOMAIN db = {}
  BY <1>1 DEF ApartInv, Apart
<1>3. ASSUME Quiet, NoRestart, NEW s \in Sessions PROVE s \in dfix <=> s \in DOMAIN db
  <2>1. msgQ = <<>> /\ apiQ = <<>> /\ Undisturbed
    BY <1>3 DEF Quiet, NoRestart, Undisturbed, Steady
  <2>2. Agreed(s)
    BY <2>1 DEF RunInv
  <2>3. \A C : ~Under(C, s)
    BY <2>1 DEF Under, Answering, Commanding
  <2>4. Running(apiQ, dfix, s) <=> s \in dfix
    BY <2>1 DEF Running
  <2> QED
    BY <2>2, <2>3, <2>4 DEF Agreed
<1> QED
  BY <1>1, <1>2, <1>3 DEF DistanceServed

\* When all is quiet the engine runs the distance based sessions of the adapter and no
\* others, and a session is never both time based and distance based: whichever starts,
\* updates that turn one into the other and back, stops and removals were under way
\* at once.  Clients wait for the capabilities and for the answer to one command before
\* they send the next for the same session, and the engine refuses nothing while it is up
\* (saveTrackingSession, eraseTrackingSession, and the callbacks of
\* stopDistanceBasedTracking and startDistanceBasedTracking).
THEOREM DistanceServedAlways ==
    ASSUME Patient
    PROVE  Spec => []DistanceServed
<1> DEFINE IInv == /\ TypedInv /\ RateInv /\ NeverTwice
                   /\ NotYetUp /\ ApartInv /\ RunInv
<1>1. Init => IInv
  BY TypedInit, RateInit, AnswerInit, ApartInit DEF AnswerInv
<1>2. Reliable
  BY DEF Patient
<1>3. IInv /\ [Next]_vars => IInv'
  BY <1>2, TypedStep, RateStepKept, NeverTwiceStep, NotYetUpStep, ApartStep, RunStep
<1>4. IInv => DistanceServed
  BY DistanceHolds
<1> QED
  BY <1>1, <1>3, <1>4, PTL DEF Spec
=============================================================================
