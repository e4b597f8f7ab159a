--------------------------- MODULE GeofencesProofs ---------------------------
(***************************************************************************)
(* Proofs about Geofences: its types and that a breach is of a geofence    *)
(* the adapter knows, for any number of clients, geofences, commands and   *)
(* restarts and whatever the engine refuses; and that a command is         *)
(* reported once, if no command but an addition is about several.          *)
(***************************************************************************)
EXTENDS Geofences, FiniteSetTheorems, SequenceTheorems, TLAPS

Errors == {"unset", "ok", "unknown", "refused"}
Ops == {"add", "remove", "pause", "resume", "modify"}
FenceRecord == [id : Ids, opt : Opts, paused : BOOLEAN]
Command == [op : Ops, c : Clients, ids : Seq(Ids), opt : Opts, errs : Seq(Errors),
            live : BOOLEAN]
AnyHw == HwIds \cup {0}

Message ==
    [m : {"cmd"}, b : Nat] \cup [m : {"leave"}, c : Clients]
    \cup [m : {"lookup"}, b : Nat, i : Nat]
    \cup [m : {"done"}, b : Nat, i : Nat, hw : AnyHw, ok : BOOLEAN]
    \cup [m : {"dropped"}, hw : HwIds, ok : BOOLEAN]
    \cup [m : {"engineUp"}]
    \cup [m : {"readded"}, old : FenceRecord, hw : AnyHw, ok : BOOLEAN]
    \cup [m : {"breach"}, hw : HwIds, id : Ids]

Call ==
    [a : {"queue"}, b : Nat, i : Nat]
    \cup [a : {"do"}, b : Nat, i : Nat, hw : AnyHw]
    \cup [a : {"drop"}, hw : HwIds] \cup [a : {"pause"}, hw : HwIds]
    \cup [a : {"readd"}, old : FenceRecord]

\* A message or call about an item is about one that its command k[b] has.
HasItem(k, x) == x.b \in 1..Len(k) /\ x.i \in 1..Len(k[x.b].ids)

GoodMsg(k, x) ==
    /\ x.m = "cmd" => x.b \in 1..Len(k)
    /\ x.m \in {"lookup", "done"} => HasItem(k, x)
    /\ x.m \in {"done", "readded"} /\ x.ok => x.hw \in HwIds

GoodCall(k, y) == y.a \in {"queue", "do"} => HasItem(k, y)

FencesTyped(f) == DOMAIN f \subseteq HwIds /\ \A hw \in DOMAIN f : f[hw] \in FenceRecord

IdsTyped(g) == DOMAIN g \subseteq Ids /\ \A id \in DOMAIN g : g[id] \in HwIds

MapsTyped == FencesTyped(fences) /\ IdsTyped(ids)

EngineTyped ==
    /\ DOMAIN engine \subseteq used /\ used \subseteq HwIds
    /\ \A hw \in DOMAIN engine : engine[hw] \in FenceRecord

OthersTyped ==
    /\ clients \subseteq Clients
    /\ up \in BOOLEAN /\ (~up => DOMAIN engine = {})
    /\ owner \in Seq(Clients) /\ Len(owner) <= MaxFences

MsgsTyped == msgQ \in Seq(Message) /\ \A n \in 1..Len(msgQ) : GoodMsg(cmd, msgQ[n])

CallsTyped == apiQ \in Seq(Call) /\ \A n \in 1..Len(apiQ) : GoodCall(cmd, apiQ[n])

Typed ==
    /\ MapsTyped /\ EngineTyped /\ OthersTyped
    /\ cmd \in Seq(Command) /\ MsgsTyped /\ CallsTyped

-----------------------------------------------------------------------------
(* Queues.                                                                   *)

LEMMA PushParts ==
    ASSUME NEW S, NEW q \in Seq(S), NEW x \in S
    PROVE  /\ Append(q, x) \in Seq(S) /\ Len(Append(q, x)) = Len(q) + 1
           /\ \A n \in 1..Len(q) : Append(q, x)[n] = q[n]
           /\ Append(q, x)[Len(q) + 1] = x
           /\ Len(q) \in Nat
OBVIOUS

LEMMA PopParts ==
    ASSUME NEW S, NEW q \in Seq(S), q # <<>>
    PROVE  /\ Tail(q) \in Seq(S) /\ Len(Tail(q)) = Len(q) - 1
           /\ \A n \in 1..Len(Tail(q)) : Tail(q)[n] = q[n + 1] /\ n + 1 \in 1..Len(q)
           /\ Head(q) = q[1] /\ Head(q) \in S
           /\ Len(q) \in Nat \ {0} /\ 1 \in 1..Len(q)
OBVIOUS

LEMMA ConcatParts ==
    ASSUME NEW S, NEW q \in Seq(S), NEW r \in Seq(S)
    PROVE  /\ q \o r \in Seq(S) /\ Len(q \o r) = Len(q) + Len(r)
           /\ \A n \in 1..Len(q) : (q \o r)[n] = q[n]
           /\ \A n \in 1..Len(r) : (q \o r)[Len(q) + n] = r[n]
           /\ Len(q) \in Nat /\ Len(r) \in Nat
OBVIOUS

LEMMA ReplaceParts ==
    ASSUME NEW S, NEW q \in Seq(S), NEW b \in 1..Len(q), NEW r \in S
    PROVE  /\ [q EXCEPT ![b] = r] \in Seq(S) /\ Len([q EXCEPT ![b] = r]) = Len(q)
           /\ \A n \in 1..Len(q) : n # b => [q EXCEPT ![b] = r][n] = q[n]
           /\ [q EXCEPT ![b] = r][b] = r
OBVIOUS

\* What holds of every element stays so when one is added or the first one taken.
LEMMA AllPushed ==
    ASSUME NEW S, NEW q \in Seq(S), NEW x \in S, NEW G,
           \A n \in 1..Len(q) : q[n] \in G, x \in G
    PROVE  /\ Append(q, x) \in Seq(S)
           /\ \A n \in 1..Len(Append(q, x)) : Append(q, x)[n] \in G
<1>1. \A n \in 1..Len(Append(q, x)) : n \in 1..Len(q) \/ n = Len(q) + 1
  BY PushParts
<1> QED
  BY <1>1, PushParts

LEMMA AllPopped ==
    ASSUME NEW S, NEW q \in Seq(S), q # <<>>, NEW G,
           \A n \in 1..Len(q) : q[n] \in G
    PROVE  /\ Tail(q) \in Seq(S)
           /\ \A n \in 1..Len(Tail(q)) : Tail(q)[n] \in G
BY PopParts

LEMMA AllConcat ==
    ASSUME NEW S, NEW q \in Seq(S), NEW r \in Seq(S), NEW G,
           \A n \in 1..Len(q) : q[n] \in G, \A n \in 1..Len(r) : r[n] \in G
    PROVE  /\ q \o r \in Seq(S)
           /\ \A n \in 1..Len(q \o r) : (q \o r)[n] \in G
<1>1. ASSUME NEW n \in 1..Len(q \o r), n \notin 1..Len(q)
      PROVE  n - Len(q) \in 1..Len(r) /\ n = Len(q) + (n - Len(q))
  BY <1>1, ConcatParts
<1> QED
  BY <1>1, ConcatParts

\* An injective sequence of a finite set's elements.
LEMMA OrderOfSet ==
    ASSUME NEW S, IsFiniteSet(S)
    PROVE  /\ Cardinality(S) \in Nat
           /\ (CHOOSE s \in [1..Cardinality(S) -> S] : IsInjective(s))
                  \in [1..Cardinality(S) -> S]
<1>1. Cardinality(S) \in Nat /\ ExistsBijection(1..Cardinality(S), S)
  BY FS_CardinalityType
<1>2. PICK b \in Bijection(1..Cardinality(S), S) : TRUE
  BY <1>1 DEF ExistsBijection
<1>3. b \in [1..Cardinality(S) -> S] /\ IsInjective(b)
  BY <1>2 DEF Bijection, Injection
<1> QED
  BY <1>1, <1>3

-----------------------------------------------------------------------------
(* Fields of messages and calls.                                             *)

LEMMA MessageParts ==
    ASSUME NEW x \in Message
    PROVE  /\ x.m \in {"cmd", "leave", "lookup", "done", "dropped", "engineUp", "readded",
                       "breach"}
           /\ x.m = "leave" => x.c \in Clients
           /\ x.m \in {"cmd", "lookup", "done"} => x.b \in Nat
           /\ x.m \in {"lookup", "done"} => x.i \in Nat
           /\ x.m = "done" => x.hw \in AnyHw /\ x.ok \in BOOLEAN
           /\ x.m = "dropped" => x.hw \in HwIds /\ x.ok \in BOOLEAN
           /\ x.m = "readded" => x.old \in FenceRecord /\ x.hw \in AnyHw /\ x.ok \in BOOLEAN
           /\ x.m = "breach" => x.hw \in HwIds /\ x.id \in Ids
BY DEF Message

LEMMA CallParts ==
    ASSUME NEW y \in Call
    PROVE  /\ y.a \in {"queue", "do", "drop", "pause", "readd"}
           /\ y.a \in {"queue", "do"} => y.b \in Nat /\ y.i \in Nat
           /\ y.a = "do" => y.hw \in AnyHw
           /\ y.a \in {"drop", "pause"} => y.hw \in HwIds
           /\ y.a = "readd" => y.old \in FenceRecord
BY DEF Call

LEMMA FenceParts ==
    /\ \A f \in FenceRecord : f.id \in Ids /\ f.opt \in Opts /\ f.paused \in BOOLEAN
    /\ \A id \in Ids, opt \in Opts, p \in BOOLEAN :
          /\ Fence(id, opt, p) \in FenceRecord
          /\ Fence(id, opt, p).id = id
    /\ \A f \in FenceRecord, opt \in Opts, p \in BOOLEAN :
          /\ [f EXCEPT !.paused = p] \in FenceRecord /\ [f EXCEPT !.paused = p].id = f.id
          /\ [f EXCEPT !.opt = opt] \in FenceRecord /\ [f EXCEPT !.opt = opt].id = f.id
BY DEF FenceRecord, Fence

LEMMA CommandParts ==
    ASSUME NEW k \in Command
    PROVE  /\ k.op \in Ops /\ k.c \in Clients /\ k.ids \in Seq(Ids) /\ k.opt \in Opts
           /\ k.errs \in Seq(Errors) /\ k.live \in BOOLEAN
           /\ \A i \in 1..Len(k.ids) : k.ids[i] \in Ids
BY DEF Command

-----------------------------------------------------------------------------
(* Types.                                                                    *)

\* The commands k2 have the items of the commands k, and maybe more.
SameItems(k, k2) ==
    /\ Len(k) <= Len(k2)
    /\ \A n \in 1..Len(k) : k2[n].op = k[n].op /\ k2[n].ids = k[n].ids

LEMMA GoodStays ==
    ASSUME NEW k \in Seq(Command), NEW k2 \in Seq(Command), SameItems(k, k2)
    PROVE  /\ \A x : GoodMsg(k, x) => GoodMsg(k2, x)
           /\ \A y : GoodCall(k, y) => GoodCall(k2, y)
<1>1. ASSUME NEW x, HasItem(k, x) PROVE HasItem(k2, x)
  BY <1>1 DEF HasItem, SameItems
<1>2. Len(k) \in Nat /\ Len(k2) \in Nat /\ Len(k) <= Len(k2)
  BY DEF SameItems
<1> QED
  BY <1>1, <1>2 DEF GoodMsg, GoodCall

LEMMA Numbers ==
    /\ MaxFences \in Nat /\ MaxCmds \in Nat /\ MaxRestarts \in Nat /\ MaxBreaches \in Nat
    /\ IsFiniteSet(Ids) /\ IsFiniteSet(HwIds) /\ 0 \notin HwIds
    /\ Ids \subseteq Nat /\ HwIds \subseteq Nat
    /\ FirstOpt \in Opts
<1>1. /\ MaxFences \in Nat /\ MaxCmds \in Nat /\ MaxRestarts \in Nat /\ MaxBreaches \in Nat
  BY NumbersAssumption
<1>2. MaxFences * (MaxRestarts + 1) \in Nat
  BY <1>1
<1>3. IsFiniteSet(Ids) /\ IsFiniteSet(HwIds)
  BY <1>1, <1>2, FS_Interval DEF Ids, HwIds
<1>4. FirstOpt \in Opts
  BY OptsAssumption DEF FirstOpt
<1> QED
  BY <1>1, <1>2, <1>3, <1>4 DEF Ids, HwIds

\* An answer changes an item's error, and whether the command is open.
LEMMA AnswerTyped ==
    ASSUME cmd \in Seq(Command), NEW b \in 1..Len(cmd), NEW i, NEW errs \in Seq(Errors),
           Answer(b, i, errs)
    PROVE  /\ cmd' \in Seq(Command) /\ Len(cmd') = Len(cmd) /\ SameItems(cmd, cmd')
           /\ \A n \in 1..Len(cmd) : n # b => cmd'[n] = cmd[n]
           /\ cmd'[b].live = IF i = Len(cmd[b].ids) THEN FALSE ELSE cmd[b].live
           /\ cmd'[b].op = cmd[b].op /\ cmd'[b].ids = cmd[b].ids
<1>1. cmd[b] \in Command /\ Len(cmd) \in Nat
  OBVIOUS
<1>2. CASE i = Len(cmd[b].ids)
  <2>1. cmd' = [cmd EXCEPT ![b].errs = errs, ![b].live = FALSE]
    BY <1>2 DEF Answer, Report
  <2>2. PICK r : r = [[cmd[b] EXCEPT !.errs = errs] EXCEPT !.live = FALSE]
    OBVIOUS
  <2>3. r \in Command /\ r.op = cmd[b].op /\ r.ids = cmd[b].ids /\ r.live = FALSE
    BY <1>1, <2>2 DEF Command
  <2>4. cmd' = [cmd EXCEPT ![b] = r]
    BY <1>1, <2>1, <2>2
  <2>5. /\ cmd' \in Seq(Command) /\ Len(cmd') = Len(cmd)
        /\ \A n \in 1..Len(cmd) : n # b => cmd'[n] = cmd[n]
        /\ cmd'[b] = r
    BY <2>3, <2>4, ReplaceParts
  <2>6. SameItems(cmd, cmd')
    BY <1>1, <2>3, <2>5 DEF SameItems
  <2> QED
    BY <1>2, <2>3, <2>5, <2>6
<1>3. CASE i # Len(cmd[b].ids)
  <2>1. cmd' = [cmd EXCEPT ![b].errs = errs]
    BY <1>3 DEF Answer
  <2>2. PICK r : r = [cmd[b] EXCEPT !.errs = errs]
    OBVIOUS
  <2>3. r \in Command /\ r.op = cmd[b].op /\ r.ids = cmd[b].ids /\ r.live = cmd[b].live
    BY <1>1, <2>2 DEF Command
  <2>4. cmd' = [cmd EXCEPT ![b] = r]
    BY <1>1, <2>1, <2>2
  <2>5. /\ cmd' \in Seq(Command) /\ Len(cmd') = Len(cmd)
        /\ \A n \in 1..Len(cmd) : n # b => cmd'[n] = cmd[n]
        /\ cmd'[b] = r
    BY <2>3, <2>4, ReplaceParts
  <2>6. SameItems(cmd, cmd')
    BY <1>1, <2>3, <2>5 DEF SameItems
  <2> QED
    BY <1>3, <2>3, <2>5, <2>6
<1> QED
  BY <1>2, <1>3

LEMMA SameItemsSelf ==
    ASSUME cmd \in Seq(Command) PROVE SameItems(cmd, cmd)
BY DEF SameItems

\* A command that is posted comes after the others.
LEMMA PostTyped ==
    ASSUME Typed, NEW op \in Ops, NEW c \in Clients, NEW list \in Seq(Ids), NEW opt \in Opts,
           Post(op, c, list, opt)
    PROVE  /\ cmd' \in Seq(Command) /\ Len(cmd') = Len(cmd) + 1 /\ SameItems(cmd, cmd')
           /\ \A n \in 1..Len(cmd) : cmd'[n] = cmd[n]
           /\ cmd'[Len(cmd) + 1].op = op /\ cmd'[Len(cmd) + 1].ids = list
           /\ cmd'[Len(cmd) + 1].live
           /\ msgQ' = Append(msgQ, [m |-> "cmd", b |-> Len(cmd) + 1])
           /\ [m |-> "cmd", b |-> Len(cmd) + 1] \in Message
           /\ Len(cmd) \in Nat
<1> DEFINE r == [op |-> op, c |-> c, ids |-> list, opt |-> opt,
                 errs |-> [i \in DOMAIN list |-> "unset"], live |-> TRUE]
<1>1. cmd \in Seq(Command) /\ Len(cmd) \in Nat
  BY DEF Typed
<1>2. [i \in DOMAIN list |-> "unset"] \in Seq(Errors)
  <2>1. DOMAIN list = 1..Len(list) /\ Len(list) \in Nat
    OBVIOUS
  <2>2. [i \in 1..Len(list) |-> "unset"] \in [1..Len(list) -> Errors]
    BY DEF Errors
  <2>3. [1..Len(list) -> Errors] \subseteq Seq(Errors)
    BY <2>1
  <2> QED
    BY <2>1, <2>2, <2>3
<1>3. r \in Command
  BY <1>2 DEF Command
<1>4. cmd' = Append(cmd, r) /\ msgQ' = Append(msgQ, [m |-> "cmd", b |-> Len(cmd) + 1])
  BY DEF Post
<1>5. r.op = op /\ r.ids = list /\ r.live
  OBVIOUS
<1> HIDE DEF r
<1>6. /\ cmd' \in Seq(Command) /\ Len(cmd') = Len(cmd) + 1
      /\ \A n \in 1..Len(cmd) : cmd'[n] = cmd[n]
      /\ cmd'[Len(cmd) + 1] = r
  BY <1>1, <1>3, <1>4, PushParts
<1>7. SameItems(cmd, cmd')
  BY <1>1, <1>6 DEF SameItems
<1>8. [m |-> "cmd", b |-> Len(cmd) + 1] \in Message
  BY <1>1 DEF Message
<1> QED
  BY <1>1, <1>4, <1>5, <1>6, <1>7, <1>8

-----------------------------------------------------------------------------
(* The maps and the engine.                                                  *)

LEMMA WithoutParts ==
    ASSUME NEW f, NEW x
    PROVE  /\ DOMAIN Without(f, x) = DOMAIN f \ {x}
           /\ \A z \in DOMAIN f : z # x => Without(f, x)[z] = f[z]
BY DEF Without, Restrict

LEMMA SaveTyped ==
    ASSUME MapsTyped, NEW id \in Ids, NEW hw \in HwIds, NEW opt \in Opts,
           saveGeofenceItem(id, hw, opt)
    PROVE  /\ MapsTyped'
           /\ DOMAIN fences' = DOMAIN fences \cup {hw} /\ fences'[hw].id = id
           /\ \A g \in DOMAIN fences : g # hw => fences'[g] = fences[g]
<1>1. PICK r : r = Fence(id, opt, FALSE)
  OBVIOUS
<1>2. r \in FenceRecord /\ r.id = id
  BY <1>1, FenceParts
<1>3. fences' = With(fences, hw, r) /\ ids' = With(ids, id, hw)
  BY <1>1 DEF saveGeofenceItem
<1>4. /\ DOMAIN fences' = DOMAIN fences \cup {hw} /\ fences'[hw] = r
      /\ \A g \in DOMAIN fences : g # hw => fences'[g] = fences[g]
  BY <1>3 DEF With
<1>5. /\ DOMAIN ids' = DOMAIN ids \cup {id} /\ ids'[id] = hw
      /\ \A g \in DOMAIN ids : g # id => ids'[g] = ids[g]
  BY <1>3 DEF With
<1> QED
  BY <1>2, <1>4, <1>5 DEF MapsTyped, FencesTyped, IdsTyped

LEMMA RemoveTyped ==
    ASSUME MapsTyped, NEW hw, removeGeofenceItem(hw)
    PROVE  /\ MapsTyped'
           /\ \A g \in DOMAIN fences : g # hw => g \in DOMAIN fences' /\ fences'[g] = fences[g]
<1>1. CASE UNCHANGED mapVars
  <2>1. fences' = fences /\ ids' = ids
    BY <1>1 DEF mapVars
  <2> QED
    BY <2>1 DEF MapsTyped
<1>2. CASE ids' = Without(ids, fences[hw].id) /\ fences' = Without(fences, hw)
  <2>1. /\ DOMAIN ids' \subseteq DOMAIN ids
        /\ \A z \in DOMAIN ids' : ids'[z] = ids[z]
    <3>1. PICK x : x = fences[hw].id
      OBVIOUS
    <3>2. ids' = Without(ids, x)
      BY <1>2, <3>1
    <3> QED
      BY ZenonT(30), <3>2, WithoutParts
  <2>2. /\ DOMAIN fences' = DOMAIN fences \ {hw}
        /\ \A z \in DOMAIN fences : z # hw => fences'[z] = fences[z]
    BY <1>2, WithoutParts
  <2> QED
    BY <2>1, <2>2 DEF MapsTyped, FencesTyped, IdsTyped
<1> QED
  BY <1>1, <1>2 DEF removeGeofenceItem

LEMMA ChangeItemTyped ==
    ASSUME MapsTyped, NEW hw, NEW op \in {"pause", "resume", "modify"}, NEW opt \in Opts,
           changeItem(hw, op, opt)
    PROVE  /\ MapsTyped'
           /\ DOMAIN fences' = DOMAIN fences
           /\ \A g \in DOMAIN fences : fences'[g].id = fences[g].id
<1>1. ids' = ids
  BY DEF changeItem
<1>2. CASE hw \notin DOMAIN fences
  BY <1>1, <1>2 DEF changeItem, MapsTyped, FencesTyped
<1>3. CASE hw \in DOMAIN fences
  <2>1. PICK r : r = CASE op = "pause" -> [fences[hw] EXCEPT !.paused = TRUE]
                       [] op = "resume" -> [fences[hw] EXCEPT !.paused = FALSE]
                       [] op = "modify" -> [fences[hw] EXCEPT !.opt = opt]
    OBVIOUS
  <2>2. fences[hw] \in FenceRecord
    BY <1>3 DEF MapsTyped, FencesTyped
  <2>3. r \in FenceRecord /\ r.id = fences[hw].id
    BY <2>1, <2>2, FenceParts
  <2>4. fences' = [fences EXCEPT ![hw] = r]
    BY <1>3, <2>1 DEF changeItem
  <2>5. /\ DOMAIN fences' = DOMAIN fences /\ fences'[hw] = r
        /\ \A g \in DOMAIN fences : g # hw => fences'[g] = fences[g]
    BY <1>3, <2>4
  <2> QED
    BY <1>1, <2>3, <2>5 DEF MapsTyped, FencesTyped, IdsTyped
<1> QED
  BY <1>2, <1>3

LEMMA AddTyped ==
    ASSUME EngineTyped, NEW id \in Ids, NEW opt \in Opts, NEW hw \in HwIds, Add(id, opt, hw)
    PROVE  /\ EngineTyped'
           /\ hw \notin DOMAIN engine /\ DOMAIN engine' = DOMAIN engine \cup {hw}
           /\ engine'[hw].id = id
           /\ \A g \in DOMAIN engine : engine'[g] = engine[g]
<1>1. PICK r : r = Fence(id, opt, FALSE)
  OBVIOUS
<1>2. r \in FenceRecord /\ r.id = id
  BY <1>1, FenceParts
<1>3. engine' = With(engine, hw, r) /\ used' = used \cup {hw} /\ hw \notin DOMAIN engine
  BY <1>1 DEF Add
<1>4. /\ DOMAIN engine' = DOMAIN engine \cup {hw} /\ engine'[hw] = r
      /\ \A g \in DOMAIN engine : g # hw => engine'[g] = engine[g]
  BY <1>3 DEF With
<1> QED
  BY <1>2, <1>3, <1>4 DEF EngineTyped

LEMMA ChangeTyped ==
    ASSUME EngineTyped, NEW op \in {"remove", "pause", "resume", "modify"}, NEW hw, NEW opt,
           op = "modify" => opt \in Opts, Change(op, hw, opt)
    PROVE  /\ EngineTyped' /\ hw \in DOMAIN engine
           /\ DOMAIN engine' \subseteq DOMAIN engine
           /\ op = "remove" => hw \notin DOMAIN engine'
           /\ \A g \in DOMAIN engine' : engine'[g].id = engine[g].id
<1>1. hw \in DOMAIN engine /\ used' = used
  BY DEF Change
<1>2. CASE op = "remove"
  <2>1. engine' = Without(engine, hw)
    BY <1>2 DEF Change
  <2>2. /\ DOMAIN engine' = DOMAIN engine \ {hw}
        /\ \A z \in DOMAIN engine : z # hw => engine'[z] = engine[z]
    BY <2>1, WithoutParts
  <2> QED
    BY <1>1, <2>2 DEF EngineTyped
<1>3. CASE op # "remove"
  <2>1. PICK r : r = CASE op = "pause" -> [engine[hw] EXCEPT !.paused = TRUE]
                       [] op = "resume" -> [engine[hw] EXCEPT !.paused = FALSE]
                       [] op = "modify" -> [engine[hw] EXCEPT !.opt = opt]
    OBVIOUS
  <2>2. engine[hw] \in FenceRecord
    BY <1>1 DEF EngineTyped
  <2>3. r \in FenceRecord /\ r.id = engine[hw].id
    <3>1. CASE op = "pause"
      BY <2>1, <2>2, <3>1, FenceParts
    <3>2. CASE op = "resume"
      BY <2>1, <2>2, <3>2, FenceParts
    <3>3. CASE op = "modify"
      BY <2>1, <2>2, <3>3, FenceParts
    <3> QED
      BY <1>3, <3>1, <3>2, <3>3
  <2>4. engine' = [engine EXCEPT ![hw] = r]
    BY <1>1, <1>3, <2>1 DEF Change
  <2>5. /\ DOMAIN engine' = DOMAIN engine /\ engine'[hw] = r
        /\ \A g \in DOMAIN engine : g # hw => engine'[g] = engine[g]
    BY <1>1, <2>4
  <2> QED
    BY <1>1, <1>3, <2>3, <2>5 DEF EngineTyped
<1> QED
  BY <1>2, <1>3

-----------------------------------------------------------------------------
(* The queues keep their types.                                              *)

LEMMA MsgsPush ==
    ASSUME MsgsTyped, cmd \in Seq(Command), cmd' \in Seq(Command), SameItems(cmd, cmd'),
           NEW x \in Message, GoodMsg(cmd', x), msgQ' = Append(msgQ, x)
    PROVE  MsgsTyped'
<1> DEFINE G == {z \in Message : GoodMsg(cmd', z)}
<1>1. \A z : GoodMsg(cmd, z) => GoodMsg(cmd', z)
  BY GoodStays
<1>2. msgQ \in Seq(Message) /\ \A n \in 1..Len(msgQ) : msgQ[n] \in Message /\ GoodMsg(cmd, msgQ[n])
  BY DEF MsgsTyped
<1>3. (\A n \in 1..Len(msgQ) : msgQ[n] \in G) /\ x \in G
  BY <1>1, <1>2
<1>4. \A z \in G : GoodMsg(cmd', z)
  OBVIOUS
<1> HIDE DEF G
<1>5. msgQ' \in Seq(Message) /\ \A n \in 1..Len(msgQ') : msgQ'[n] \in G
  BY <1>2, <1>3, AllPushed
<1> QED
  BY <1>4, <1>5 DEF MsgsTyped

LEMMA MsgsPop ==
    ASSUME MsgsTyped, cmd \in Seq(Command), cmd' \in Seq(Command), SameItems(cmd, cmd'),
           msgQ # <<>>, msgQ' = Tail(msgQ)
    PROVE  MsgsTyped'
<1>1. \A z : GoodMsg(cmd, z) => GoodMsg(cmd', z)
  BY GoodStays
<1> QED
  BY <1>1, PopParts DEF MsgsTyped

LEMMA MsgsStay ==
    ASSUME MsgsTyped, cmd \in Seq(Command), cmd' \in Seq(Command), SameItems(cmd, cmd'),
           msgQ' = msgQ
    PROVE  MsgsTyped'
BY GoodStays DEF MsgsTyped

LEMMA CallsPush ==
    ASSUME CallsTyped, cmd \in Seq(Command), cmd' \in Seq(Command), SameItems(cmd, cmd'),
           NEW x \in Call, GoodCall(cmd', x), apiQ' = Append(apiQ, x)
    PROVE  CallsTyped'
<1> DEFINE G == {z \in Call : GoodCall(cmd', z)}
<1>1. \A z : GoodCall(cmd, z) => GoodCall(cmd', z)
  BY GoodStays
<1>2. apiQ \in Seq(Call) /\ \A n \in 1..Len(apiQ) : apiQ[n] \in Call /\ GoodCall(cmd, apiQ[n])
  BY DEF CallsTyped
<1>3. (\A n \in 1..Len(apiQ) : apiQ[n] \in G) /\ x \in G
  BY <1>1, <1>2
<1>4. \A z \in G : GoodCall(cmd', z)
  OBVIOUS
<1> HIDE DEF G
<1>5. apiQ' \in Seq(Call) /\ \A n \in 1..Len(apiQ') : apiQ'[n] \in G
  BY <1>2, <1>3, AllPushed
<1> QED
  BY <1>4, <1>5 DEF CallsTyped

LEMMA CallsConcat ==
    ASSUME CallsTyped, cmd' = cmd, NEW r \in Seq(Call),
           \A n \in 1..Len(r) : GoodCall(cmd, r[n]), apiQ' = apiQ \o r
    PROVE  CallsTyped'
<1> DEFINE G == {z \in Call : GoodCall(cmd, z)}
<1>1. apiQ \in Seq(Call) /\ \A n \in 1..Len(apiQ) : apiQ[n] \in G
  BY DEF CallsTyped
<1>2. \A n \in 1..Len(r) : r[n] \in G
  OBVIOUS
<1>3. \A z \in G : GoodCall(cmd, z)
  OBVIOUS
<1> HIDE DEF G
<1>4. apiQ' \in Seq(Call) /\ \A n \in 1..Len(apiQ') : apiQ'[n] \in G
  BY <1>1, <1>2, AllConcat
<1> QED
  BY <1>3, <1>4 DEF CallsTyped

LEMMA CallsPop ==
    ASSUME CallsTyped, cmd' = cmd, apiQ # <<>>, apiQ' = Tail(apiQ)
    PROVE  CallsTyped'
BY PopParts DEF CallsTyped

LEMMA CallsStay ==
    ASSUME CallsTyped, cmd \in Seq(Command), cmd' \in Seq(Command), SameItems(cmd, cmd'),
           apiQ' = apiQ
    PROVE  CallsTyped'
BY GoodStays DEF CallsTyped

LEMMA HeadMsg ==
    ASSUME MsgsTyped, msgQ # <<>>
    PROVE  Head(msgQ) \in Message /\ GoodMsg(cmd, Head(msgQ)) /\ Head(msgQ) = msgQ[1]
<1>1. Head(msgQ) = msgQ[1] /\ 1 \in 1..Len(msgQ) /\ Head(msgQ) \in Message
  BY PopParts DEF MsgsTyped
<1> QED
  BY <1>1 DEF MsgsTyped

LEMMA HeadCall ==
    ASSUME CallsTyped, apiQ # <<>>
    PROVE  Head(apiQ) \in Call /\ GoodCall(cmd, Head(apiQ)) /\ Head(apiQ) = apiQ[1]
<1>1. Head(apiQ) = apiQ[1] /\ 1 \in 1..Len(apiQ) /\ Head(apiQ) \in Call
  BY PopParts DEF CallsTyped
<1> QED
  BY <1>1 DEF CallsTyped

\* The command of an item.
LEMMA ItemParts ==
    ASSUME cmd \in Seq(Command), NEW x, HasItem(cmd, x)
    PROVE  /\ x.b \in 1..Len(cmd) /\ x.i \in 1..Len(cmd[x.b].ids)
           /\ cmd[x.b] \in Command
           /\ cmd[x.b].op \in Ops /\ cmd[x.b].opt \in Opts
           /\ cmd[x.b].ids[x.i] \in Ids
<1>1. x.b \in 1..Len(cmd) /\ x.i \in 1..Len(cmd[x.b].ids)
  BY DEF HasItem
<1>2. cmd[x.b] \in Command
  BY <1>1
<1> QED
  BY <1>1, <1>2, CommandParts

-----------------------------------------------------------------------------
(* Every step keeps the types.                                               *)

LEMMA TypedInit == Init => Typed
<1> SUFFICES ASSUME Init PROVE Typed
  OBVIOUS
<1>1. DOMAIN <<>> = {} /\ Len(<<>>) = 0
  OBVIOUS
<1>2. MapsTyped /\ EngineTyped
  BY <1>1 DEF Init, MapsTyped, EngineTyped, FencesTyped, IdsTyped
<1>3. OthersTyped
  BY <1>1, Numbers DEF Init, OthersTyped
<1>4. cmd \in Seq(Command) /\ MsgsTyped /\ CallsTyped
  BY <1>1 DEF Init, MsgsTyped, CallsTyped
<1> QED
  BY <1>2, <1>3, <1>4 DEF Typed

\* The lists a command may be about are of geofences that have been added.
LEMMA ListTyped ==
    ASSUME OthersTyped, NEW list \in Lists
    PROVE  list \in Seq(Ids) /\ \E n \in Counts : Len(list) = n
<1>1. PICK n \in Counts : list \in [1..n -> DOMAIN owner]
  BY DEF Lists
<1>2. n \in Nat
  BY NumbersAssumption
<1>3. DOMAIN owner = 1..Len(owner) /\ Len(owner) \in Nat /\ Len(owner) <= MaxFences
  BY DEF OthersTyped
<1>4. DOMAIN owner \subseteq Ids
  BY <1>3, Numbers DEF Ids
<1> QED
  BY <1>1, <1>2, <1>4

LEMMA PostKeeps ==
    ASSUME Typed, NEW op \in Ops, NEW c \in Clients, NEW list \in Seq(Ids), NEW opt \in Opts,
           Post(op, c, list, opt), UNCHANGED <<mapVars, clients, apiQ, engineVars>>,
           owner' \in Seq(Clients), Len(owner') <= MaxFences
    PROVE  Typed'
<1>1. MapsTyped' /\ EngineTyped' /\ OthersTyped'
  BY DEF Typed, MapsTyped, FencesTyped, IdsTyped, EngineTyped, OthersTyped, mapVars, engineVars
<1>2. /\ cmd' \in Seq(Command) /\ Len(cmd') = Len(cmd) + 1 /\ SameItems(cmd, cmd')
      /\ msgQ' = Append(msgQ, [m |-> "cmd", b |-> Len(cmd) + 1])
      /\ [m |-> "cmd", b |-> Len(cmd) + 1] \in Message /\ Len(cmd) \in Nat
  BY PostTyped
<1>3. GoodMsg(cmd', [m |-> "cmd", b |-> Len(cmd) + 1])
  BY <1>2 DEF GoodMsg
<1>4. MsgsTyped'
  BY <1>2, <1>3, MsgsPush DEF Typed
<1>5. CallsTyped'
  BY <1>2, CallsStay DEF Typed
<1> QED
  BY <1>1, <1>2, <1>4, <1>5 DEF Typed

LEMMA AddKeepsTypes ==
    ASSUME Typed, NEW c \in Clients, NEW n \in AddCounts, addGeofencesCommand(c, n, FirstOpt)
    PROVE  Typed'
<1>1. n \in Nat /\ n # 0
  BY NumbersAssumption
<1>2. Len(owner) \in Nat /\ Len(owner) + n <= MaxFences /\ owner \in Seq(Clients)
  BY DEF addGeofencesCommand, Typed, OthersTyped
<1>3. [i \in 1..n |-> c] \in Seq(Clients) /\ Len([i \in 1..n |-> c]) = n
  BY <1>1
<1>4. owner' = owner \o [i \in 1..n |-> c]
  BY DEF addGeofencesCommand
<1>5. owner' \in Seq(Clients) /\ Len(owner') <= MaxFences
  <2>1. PICK r : r = [i \in 1..n |-> c]
    OBVIOUS
  <2>2. r \in Seq(Clients) /\ Len(r) = n /\ owner' = owner \o r
    BY <1>3, <1>4, <2>1
  <2>3. owner' \in Seq(Clients) /\ Len(owner') = Len(owner) + Len(r)
    BY <1>2, <2>2, ConcatParts
  <2> QED
    BY <1>2, <2>2, <2>3
<1>6. \A i \in 1..n : Len(owner) + i \in Ids
  BY <1>1, <1>2, Numbers DEF Ids
<1>7. [i \in 1..n |-> Len(owner) + i] \in Seq(Ids)
  BY <1>1, <1>6
<1>8. Post("add", c, [i \in 1..n |-> Len(owner) + i], FirstOpt)
  BY DEF addGeofencesCommand
<1>9. UNCHANGED <<mapVars, clients, apiQ, engineVars>>
  BY DEF addGeofencesCommand
<1> QED
  BY <1>5, <1>7, <1>8, <1>9, Numbers, PostKeeps DEF Ops

LEMMA OtherKeepsTypes ==
    ASSUME Typed, NEW op \in {"remove", "pause", "resume", "modify"}, NEW c \in Clients,
           NEW list \in Lists, NEW opt \in Opts, otherCommand(op, c, list, opt)
    PROVE  Typed'
<1>1. Post(op, c, list, opt) /\ UNCHANGED <<mapVars, clients, owner, apiQ, engineVars>>
  BY DEF otherCommand
<1>2. list \in Seq(Ids)
  BY ListTyped DEF Typed
<1>3. op \in Ops
  BY DEF Ops
<1>4. owner' \in Seq(Clients) /\ Len(owner') <= MaxFences
  BY <1>1 DEF Typed, OthersTyped
<1> QED
  BY <1>1, <1>2, <1>3, <1>4, PostKeeps

\* Messages that change neither commands nor engine, calls aside.
LEMMA UnchangedKeeps ==
    ASSUME Typed, UNCHANGED <<owner, cmd, engineVars>>
    PROVE  EngineTyped' /\ (clients' \subseteq Clients => OthersTyped')
           /\ cmd' \in Seq(Command) /\ SameItems(cmd, cmd')
BY SameItemsSelf DEF Typed, EngineTyped, OthersTyped, engineVars

LEMMA LeaveKeepsTypes ==
    ASSUME Typed, NEW c \in Clients, Leave(c)
    PROVE  Typed'
<1>1. /\ UNCHANGED <<owner, cmd, engineVars>> /\ UNCHANGED <<mapVars, clients, apiQ>>
      /\ msgQ' = Append(msgQ, [m |-> "leave", c |-> c])
  BY DEF Leave
<1>2. [m |-> "leave", c |-> c] \in Message /\ GoodMsg(cmd', [m |-> "leave", c |-> c])
  BY DEF Message, GoodMsg
<1>3. MapsTyped'
  BY <1>1 DEF Typed, MapsTyped, mapVars
<1>4. EngineTyped' /\ OthersTyped' /\ cmd' \in Seq(Command) /\ SameItems(cmd, cmd')
  BY <1>1, UnchangedKeeps DEF Typed, OthersTyped
<1>5. MsgsTyped'
  BY <1>1, <1>2, <1>4, MsgsPush DEF Typed
<1>6. CallsTyped'
  BY <1>1, <1>4, CallsStay DEF Typed
<1> QED
  BY <1>3, <1>4, <1>5, <1>6 DEF Typed

LEMMA BreachKeepsTypes ==
    ASSUME Typed, NEW hw \in DOMAIN engine, Breach(hw)
    PROVE  Typed'
<1>1. /\ UNCHANGED <<owner, cmd, engineVars>> /\ UNCHANGED <<mapVars, clients, apiQ>>
      /\ msgQ' = Append(msgQ, [m |-> "breach", hw |-> hw, id |-> engine[hw].id])
  BY DEF Breach
<1>2. hw \in HwIds /\ engine[hw].id \in Ids
  BY FenceParts DEF Typed, EngineTyped
<1>3. /\ [m |-> "breach", hw |-> hw, id |-> engine[hw].id] \in Message
      /\ GoodMsg(cmd', [m |-> "breach", hw |-> hw, id |-> engine[hw].id])
  BY <1>2 DEF Message, GoodMsg
<1>4. MapsTyped'
  BY <1>1 DEF Typed, MapsTyped, mapVars
<1>5. EngineTyped' /\ OthersTyped' /\ cmd' \in Seq(Command) /\ SameItems(cmd, cmd')
  BY <1>1, UnchangedKeeps DEF Typed, OthersTyped
<1>6. MsgsTyped'
  BY <1>1, <1>3, <1>5, MsgsPush DEF Typed
<1>7. CallsTyped'
  BY <1>1, <1>5, CallsStay DEF Typed
<1> QED
  BY <1>4, <1>5, <1>6, <1>7 DEF Typed

LEMMA ProcCommandKeepsTypes ==
    ASSUME Typed, ProcCommand
    PROVE  Typed'
<1>1. PICK b : b = Head(msgQ).b
  OBVIOUS
<1>2. /\ UNCHANGED <<owner, cmd, engineVars>> /\ UNCHANGED <<mapVars, clients>>
      /\ msgQ # <<>> /\ Head(msgQ).m = "cmd" /\ msgQ' = Tail(msgQ)
      /\ apiQ' = apiQ \o [i \in DOMAIN cmd[b].ids |-> [a |-> "queue", b |-> b, i |-> i]]
  BY <1>1 DEF ProcCommand, Arrived
<1>3. b \in 1..Len(cmd) /\ cmd[b] \in Command
  BY <1>1, <1>2, HeadMsg DEF Typed, GoodMsg
<1>4. DOMAIN cmd[b].ids = 1..Len(cmd[b].ids) /\ Len(cmd[b].ids) \in Nat
  BY <1>3, CommandParts
<1>5. PICK r : r = [i \in 1..Len(cmd[b].ids) |-> [a |-> "queue", b |-> b, i |-> i]]
  OBVIOUS
<1>6. \A i \in 1..Len(cmd[b].ids) : [a |-> "queue", b |-> b, i |-> i] \in Call
  BY <1>3 DEF Call
<1>7. r \in Seq(Call) /\ Len(r) = Len(cmd[b].ids)
      /\ \A i \in 1..Len(r) : r[i] = [a |-> "queue", b |-> b, i |-> i]
  BY <1>4, <1>5, <1>6
<1>8. ASSUME NEW i \in 1..Len(r)
      PROVE  GoodCall(cmd, r[i])
  <2>1. i \in 1..Len(cmd[b].ids) /\ r[i] = [a |-> "queue", b |-> b, i |-> i]
    BY <1>7
  <2>2. r[i].b = b /\ r[i].i = i
    BY <2>1
  <2> QED
    BY <1>3, <2>1, <2>2 DEF GoodCall, HasItem
<1>9. apiQ' = apiQ \o r
  BY <1>2, <1>4, <1>5
<1>10. CallsTyped'
  BY <1>2, <1>7, <1>8, <1>9, CallsConcat DEF Typed
<1>11. MapsTyped'
  BY <1>2 DEF Typed, MapsTyped, mapVars
<1>12. EngineTyped' /\ OthersTyped' /\ cmd' \in Seq(Command) /\ SameItems(cmd, cmd')
  BY <1>2, UnchangedKeeps DEF Typed, OthersTyped
<1>13. MsgsTyped'
  BY <1>2, <1>12, MsgsPop DEF Typed
<1> QED
  BY <1>10, <1>11, <1>12, <1>13 DEF Typed

LEMMA ErrorNoted ==
    ASSUME NEW s \in Seq(Errors), NEW i, NEW e \in Errors
    PROVE  [s EXCEPT ![i] = e] \in Seq(Errors)
<1>1. Len(s) \in Nat /\ DOMAIN s = 1..Len(s) /\ s \in [1..Len(s) -> Errors]
  OBVIOUS
<1>2. [s EXCEPT ![i] = e] \in [1..Len(s) -> Errors]
  BY <1>1
<1>3. [1..Len(s) -> Errors] \subseteq Seq(Errors)
  BY <1>1
<1> QED
  BY <1>2, <1>3

\* A geofence that is known is passed on, and its error noted.
LEMMA NoteTyped ==
    ASSUME cmd \in Seq(Command), NEW b \in 1..Len(cmd), NEW i,
           cmd' = [cmd EXCEPT ![b].errs[i] = "ok"]
    PROVE  /\ cmd' \in Seq(Command) /\ Len(cmd') = Len(cmd) /\ SameItems(cmd, cmd')
           /\ \A n \in 1..Len(cmd) : n # b => cmd'[n] = cmd[n]
           /\ cmd'[b].live = cmd[b].live
           /\ cmd'[b].op = cmd[b].op /\ cmd'[b].ids = cmd[b].ids
<1>1. cmd[b] \in Command /\ Len(cmd) \in Nat
  OBVIOUS
<1>2. PICK s : s = [cmd[b].errs EXCEPT ![i] = "ok"]
  OBVIOUS
<1>3. s \in Seq(Errors)
  BY <1>1, <1>2, CommandParts, ErrorNoted DEF Errors
<1>4. PICK r : r = [cmd[b] EXCEPT !.errs = s]
  OBVIOUS
<1>5. r \in Command /\ r.op = cmd[b].op /\ r.ids = cmd[b].ids /\ r.live = cmd[b].live
  BY <1>1, <1>3, <1>4 DEF Command
<1>6. cmd' = [cmd EXCEPT ![b] = r]
  BY <1>1, <1>2, <1>4
<1>7. /\ cmd' \in Seq(Command) /\ Len(cmd') = Len(cmd)
      /\ \A n \in 1..Len(cmd) : n # b => cmd'[n] = cmd[n]
      /\ cmd'[b] = r
  BY SMTT(30), <1>5, <1>6, ReplaceParts
<1>8. SameItems(cmd, cmd')
  BY <1>1, <1>5, <1>7 DEF SameItems
<1> QED
  BY <1>5, <1>7, <1>8

DoCall(x, hw) == [a |-> "do", b |-> x.b, i |-> x.i, hw |-> hw]

\* The three ways a lookup ends: passed on without or with a hardware id, or unknown.
LEMMA LookupParts ==
    ASSUME Typed, Lookup
    PROVE  /\ msgQ # <<>> /\ Head(msgQ).m = "lookup" /\ msgQ' = Tail(msgQ)
           /\ HasItem(cmd, Head(msgQ)) /\ Head(msgQ) \in Message
           /\ UNCHANGED <<mapVars, clients, owner, engineVars>>
           /\ cmd' \in Seq(Command) /\ Len(cmd') = Len(cmd) /\ SameItems(cmd, cmd')
           /\ \A n \in 1..Len(cmd) : n # Head(msgQ).b => cmd'[n] = cmd[n]
           /\ \/ /\ \E hw \in AnyHw :
                       /\ apiQ' = Append(apiQ, DoCall(Head(msgQ), hw))
                       /\ cmd[Head(msgQ).b].op # "add" => hw \in HwIds
                 /\ cmd'[Head(msgQ).b].live = cmd[Head(msgQ).b].live
              \/ /\ cmd[Head(msgQ).b].op # "add" /\ apiQ' = apiQ
                 /\ cmd'[Head(msgQ).b].live =
                        IF Head(msgQ).i = Len(cmd[Head(msgQ).b].ids) THEN FALSE
                        ELSE cmd[Head(msgQ).b].live
<1>1. PICK x : x = Head(msgQ)
  OBVIOUS
<1>2. /\ msgQ # <<>> /\ x.m = "lookup" /\ msgQ' = Tail(msgQ)
      /\ UNCHANGED <<mapVars, clients, owner, engineVars>>
  BY <1>1 DEF Lookup, Arrived
<1>3. x \in Message /\ HasItem(cmd, x)
  BY <1>1, <1>2, HeadMsg DEF Typed, GoodMsg
<1>4. cmd \in Seq(Command) /\ x.b \in 1..Len(cmd) /\ cmd[x.b] \in Command /\ cmd[x.b].errs \in Seq(Errors)
  BY <1>3, ItemParts, CommandParts DEF Typed
<1>5. \/ /\ cmd[x.b].op = "add" /\ apiQ' = Append(apiQ, DoCall(x, 0)) /\ cmd' = cmd
      \/ /\ cmd[x.b].op # "add" /\ cmd[x.b].ids[x.i] \in DOMAIN ids
         /\ apiQ' = Append(apiQ, DoCall(x, ids[cmd[x.b].ids[x.i]]))
         /\ cmd' = [cmd EXCEPT ![x.b].errs[x.i] = "ok"]
      \/ /\ cmd[x.b].op # "add" /\ apiQ' = apiQ
         /\ Answer(x.b, x.i, [cmd[x.b].errs EXCEPT ![x.i] = "unknown"])
  BY <1>1 DEF Lookup, DoCall
<1>6. CASE cmd[x.b].op = "add" /\ apiQ' = Append(apiQ, DoCall(x, 0)) /\ cmd' = cmd
  BY <1>1, <1>2, <1>3, <1>4, <1>6, SameItemsSelf DEF AnyHw
<1>7. CASE /\ cmd[x.b].op # "add" /\ cmd[x.b].ids[x.i] \in DOMAIN ids
           /\ apiQ' = Append(apiQ, DoCall(x, ids[cmd[x.b].ids[x.i]]))
           /\ cmd' = [cmd EXCEPT ![x.b].errs[x.i] = "ok"]
  <2>1. ids[cmd[x.b].ids[x.i]] \in HwIds
    BY <1>7 DEF Typed, MapsTyped, IdsTyped
  <2>2. /\ cmd' \in Seq(Command) /\ Len(cmd') = Len(cmd) /\ SameItems(cmd, cmd')
        /\ \A n \in 1..Len(cmd) : n # x.b => cmd'[n] = cmd[n]
        /\ cmd'[x.b].live = cmd[x.b].live
    BY <1>4, <1>7, NoteTyped
  <2> QED
    BY <1>1, <1>2, <1>3, <1>7, <2>1, <2>2 DEF AnyHw
<1>8. CASE /\ cmd[x.b].op # "add" /\ apiQ' = apiQ
           /\ Answer(x.b, x.i, [cmd[x.b].errs EXCEPT ![x.i] = "unknown"])
  <2>1. [cmd[x.b].errs EXCEPT ![x.i] = "unknown"] \in Seq(Errors)
    BY <1>4, ErrorNoted DEF Errors
  <2>2. /\ cmd' \in Seq(Command) /\ Len(cmd') = Len(cmd) /\ SameItems(cmd, cmd')
        /\ \A n \in 1..Len(cmd) : n # x.b => cmd'[n] = cmd[n]
        /\ cmd'[x.b].live = IF x.i = Len(cmd[x.b].ids) THEN FALSE ELSE cmd[x.b].live
    BY <1>4, <1>8, <2>1, AnswerTyped
  <2> QED
    BY <1>1, <1>2, <1>3, <1>8, <2>2
<1> QED
  BY <1>5, <1>6, <1>7, <1>8

LEMMA LookupKeepsTypes ==
    ASSUME Typed, Lookup
    PROVE  Typed'
<1>1. PICK x : x = Head(msgQ)
  OBVIOUS
<1>2. /\ msgQ # <<>> /\ msgQ' = Tail(msgQ) /\ HasItem(cmd, x)
      /\ UNCHANGED <<mapVars, clients, owner, engineVars>>
      /\ cmd' \in Seq(Command) /\ SameItems(cmd, cmd')
  BY <1>1, LookupParts
<1>3. \/ apiQ' = apiQ
      \/ \E hw \in AnyHw : apiQ' = Append(apiQ, DoCall(x, hw))
  BY <1>1, LookupParts
<1>4. MapsTyped' /\ EngineTyped' /\ OthersTyped' /\ MsgsTyped'
  <2>1. MsgsTyped'
    BY <1>2, MsgsPop DEF Typed
  <2> QED
    BY <1>2, <2>1 DEF Typed, MapsTyped, FencesTyped, IdsTyped, EngineTyped, OthersTyped,
                      mapVars, engineVars
<1>5. CASE apiQ' = apiQ
  BY <1>2, <1>4, <1>5, CallsStay DEF Typed
<1>6. ASSUME NEW hw \in AnyHw, apiQ' = Append(apiQ, DoCall(x, hw))
      PROVE  Typed'
  <2>1. x.b \in Nat /\ x.i \in Nat
    BY <1>1, LookupParts, MessageParts
  <2>2. DoCall(x, hw) \in Call
    BY <2>1 DEF DoCall, Call
  <2>3. HasItem(cmd, DoCall(x, hw))
    BY <1>2 DEF HasItem, DoCall
  <2>4. GoodCall(cmd', DoCall(x, hw))
    BY <1>2, <2>3, GoodStays DEF GoodCall, Typed
  <2>5. CallsTyped'
    BY <1>2, <1>6, <2>2, <2>4, CallsPush DEF Typed
  <2> QED
    BY <1>2, <1>4, <2>5 DEF Typed
<1> QED
  BY <1>3, <1>5, <1>6

LEMMA DoneParts ==
    ASSUME Typed, Done
    PROVE  /\ msgQ # <<>> /\ Head(msgQ).m = "done" /\ msgQ' = Tail(msgQ)
           /\ HasItem(cmd, Head(msgQ)) /\ Head(msgQ) \in Message
           /\ UNCHANGED <<clients, owner, apiQ, engineVars>>
           /\ cmd' \in Seq(Command) /\ Len(cmd') = Len(cmd) /\ SameItems(cmd, cmd')
           /\ \A n \in 1..Len(cmd) : n # Head(msgQ).b => cmd'[n] = cmd[n]
           /\ \/ cmd[Head(msgQ).b].op = "resume" /\ cmd' = cmd
              \/ cmd'[Head(msgQ).b].live =
                     IF Head(msgQ).i = Len(cmd[Head(msgQ).b].ids) THEN FALSE
                     ELSE cmd[Head(msgQ).b].live
<1>1. PICK x : x = Head(msgQ)
  OBVIOUS
<1>2. /\ msgQ # <<>> /\ x.m = "done" /\ msgQ' = Tail(msgQ)
      /\ UNCHANGED <<clients, owner, apiQ, engineVars>>
  BY <1>1 DEF Done, Arrived
<1>3. x \in Message /\ HasItem(cmd, x)
  BY <1>1, <1>2, HeadMsg DEF Typed, GoodMsg
<1>4. cmd \in Seq(Command) /\ x.b \in 1..Len(cmd) /\ cmd[x.b] \in Command /\ cmd[x.b].errs \in Seq(Errors)
  BY <1>3, ItemParts, CommandParts DEF Typed
<1>5. \/ cmd[x.b].op = "resume" /\ cmd' = cmd
      \/ Answer(x.b, x.i, cmd[x.b].errs)
      \/ \E e \in Errors : Answer(x.b, x.i, [cmd[x.b].errs EXCEPT ![x.i] = e])
  BY <1>1 DEF Done, Errors
<1>6. \/ cmd[x.b].op = "resume" /\ cmd' = cmd
      \/ \E s \in Seq(Errors) : Answer(x.b, x.i, s)
  BY <1>4, <1>5, ErrorNoted
<1>7. CASE cmd[x.b].op = "resume" /\ cmd' = cmd
  BY <1>1, <1>2, <1>3, <1>4, <1>7, SameItemsSelf
<1>8. ASSUME NEW s \in Seq(Errors), Answer(x.b, x.i, s)
      PROVE  /\ cmd' \in Seq(Command) /\ Len(cmd') = Len(cmd) /\ SameItems(cmd, cmd')
             /\ \A n \in 1..Len(cmd) : n # x.b => cmd'[n] = cmd[n]
             /\ cmd'[x.b].live = IF x.i = Len(cmd[x.b].ids) THEN FALSE ELSE cmd[x.b].live
  BY <1>4, <1>8, AnswerTyped
<1> QED
  BY <1>1, <1>2, <1>3, <1>6, <1>7, <1>8

\* What the answer does to the maps.
LEMMA DoneMaps ==
    ASSUME Typed, Done
    PROVE  LET x == Head(msgQ)
               k == cmd[x.b]
           IN  \/ ~x.ok /\ UNCHANGED mapVars
               \/ x.ok /\ k.op = "add" /\ saveGeofenceItem(k.ids[x.i], x.hw, k.opt)
               \/ x.ok /\ k.op = "remove" /\ removeGeofenceItem(x.hw)
               \/ x.ok /\ k.op \in {"pause", "resume", "modify"} /\ changeItem(x.hw, k.op, k.opt)
<1>1. PICK x : x = Head(msgQ)
  OBVIOUS
<1>2. HasItem(cmd, x)
  BY <1>1, DoneParts
<1>3. PICK k : k = cmd[x.b]
  OBVIOUS
<1>4. k.op \in Ops
  BY <1>2, <1>3, ItemParts DEF Typed
<1>5. IF ~x.ok THEN UNCHANGED mapVars
      ELSE CASE k.op = "add" -> saveGeofenceItem(k.ids[x.i], x.hw, k.opt)
             [] k.op = "remove" -> removeGeofenceItem(x.hw)
             [] OTHER -> changeItem(x.hw, k.op, k.opt)
  BY <1>1, <1>3 DEF Done
<1>6. \/ ~x.ok /\ UNCHANGED mapVars
      \/ x.ok /\ k.op = "add" /\ saveGeofenceItem(k.ids[x.i], x.hw, k.opt)
      \/ x.ok /\ k.op = "remove" /\ removeGeofenceItem(x.hw)
      \/ x.ok /\ k.op \in {"pause", "resume", "modify"} /\ changeItem(x.hw, k.op, k.opt)
  <2>1. CASE ~x.ok
    BY <1>5, <2>1
  <2>2. CASE x.ok /\ k.op = "add"
    BY <1>5, <2>2
  <2>3. CASE x.ok /\ k.op = "remove"
    BY <1>5, <2>3
  <2>4. CASE x.ok /\ k.op \in {"pause", "resume", "modify"}
    BY <1>5, <2>4
  <2> QED
    BY <1>4, <2>1, <2>2, <2>3, <2>4 DEF Ops
<1> QED
  BY <1>1, <1>3, <1>6

LEMMA DoneKeepsTypes ==
    ASSUME Typed, Done
    PROVE  Typed'
<1>1. PICK x : x = Head(msgQ)
  OBVIOUS
<1>2. PICK k : k = cmd[x.b]
  OBVIOUS
<1>3. /\ msgQ # <<>> /\ msgQ' = Tail(msgQ) /\ HasItem(cmd, x) /\ x.m = "done" /\ x \in Message
      /\ UNCHANGED <<clients, owner, apiQ, engineVars>>
      /\ cmd' \in Seq(Command) /\ SameItems(cmd, cmd')
  BY <1>1, DoneParts
<1>4. k.op \in Ops /\ k.opt \in Opts /\ k.ids[x.i] \in Ids
  BY <1>2, <1>3, ItemParts DEF Typed
<1>5. x.ok => x.hw \in HwIds
  BY <1>1, <1>3, HeadMsg DEF Typed, GoodMsg
<1>6. MapsTyped'
  <2>1. MapsTyped
    BY DEF Typed
  <2>2. \/ ~x.ok /\ UNCHANGED mapVars
        \/ x.ok /\ k.op = "add" /\ saveGeofenceItem(k.ids[x.i], x.hw, k.opt)
        \/ x.ok /\ k.op = "remove" /\ removeGeofenceItem(x.hw)
        \/ x.ok /\ k.op \in {"pause", "resume", "modify"} /\ changeItem(x.hw, k.op, k.opt)
    BY <1>1, <1>2, DoneMaps
  <2>3. CASE UNCHANGED mapVars
    BY <2>1, <2>3 DEF mapVars, MapsTyped
  <2>4. CASE x.ok /\ saveGeofenceItem(k.ids[x.i], x.hw, k.opt)
    BY <1>4, <1>5, <2>1, <2>4, SaveTyped
  <2>5. CASE removeGeofenceItem(x.hw)
    BY <2>1, <2>5, RemoveTyped
  <2>6. CASE k.op \in {"pause", "resume", "modify"} /\ changeItem(x.hw, k.op, k.opt)
    BY <1>4, <2>1, <2>6, ChangeItemTyped
  <2> QED
    BY <2>2, <2>3, <2>4, <2>5, <2>6
<1>7. EngineTyped' /\ OthersTyped'
  BY <1>3 DEF Typed, EngineTyped, OthersTyped, engineVars
<1>8. MsgsTyped'
  BY <1>3, MsgsPop DEF Typed
<1>9. CallsTyped'
  BY <1>3, CallsStay DEF Typed
<1> QED
  BY <1>3, <1>6, <1>7, <1>8, <1>9 DEF Typed

\* The message handlers that leave commands and engine alone.
LEMMA HandlerKeeps ==
    ASSUME Typed, msgQ # <<>>, msgQ' = Tail(msgQ), UNCHANGED <<owner, cmd, engineVars>>,
           clients' \subseteq Clients, MapsTyped', CallsTyped'
    PROVE  Typed'
<1>1. EngineTyped' /\ OthersTyped' /\ cmd' \in Seq(Command) /\ SameItems(cmd, cmd')
  BY UnchangedKeeps
<1>2. MsgsTyped'
  BY <1>1, MsgsPop DEF Typed
<1> QED
  BY <1>1, <1>2 DEF Typed

\* The calls of stopClientSessions.
LEMMA LeaveCalls ==
    ASSUME Typed, NEW c, stopClientSessions(c)
    PROVE  \E r \in Seq(Call) : /\ apiQ' = apiQ \o r
                                /\ \A n \in 1..Len(r) : r[n].a = "drop"
<1>1. PICK mine : mine = {id \in DOMAIN ids : owner[id] = c}
  OBVIOUS
<1>2. PICK order : order = CHOOSE s \in [1..Cardinality(mine) -> mine] : IsInjective(s)
  OBVIOUS
<1>3. apiQ' = apiQ \o [k \in DOMAIN order |-> [a |-> "drop", hw |-> ids[order[k]]]]
  BY <1>1, <1>2 DEF stopClientSessions
<1>4. IdsTyped(ids)
  BY DEF Typed, MapsTyped
<1>5. mine \subseteq DOMAIN ids /\ IsFiniteSet(mine)
  BY <1>1, <1>4, Numbers, FS_Subset DEF IdsTyped
<1>6. Cardinality(mine) \in Nat /\ order \in [1..Cardinality(mine) -> mine]
  BY <1>2, <1>5, OrderOfSet
<1>7. PICK r : r = [k \in 1..Cardinality(mine) |-> [a |-> "drop", hw |-> ids[order[k]]]]
  OBVIOUS
<1>8. \A k \in 1..Cardinality(mine) : [a |-> "drop", hw |-> ids[order[k]]] \in Call
  BY <1>4, <1>5, <1>6 DEF Call, IdsTyped
<1>9. r \in Seq(Call) /\ Len(r) = Cardinality(mine)
       /\ \A k \in 1..Len(r) : r[k] = [a |-> "drop", hw |-> ids[order[k]]]
  BY <1>6, <1>7, <1>8
<1>10. apiQ' = apiQ \o r
  BY <1>3, <1>6, <1>7
<1> QED
  BY <1>9, <1>10

LEMMA ProcLeaveKeepsTypes ==
    ASSUME Typed, ProcLeave
    PROVE  Typed'
<1>1. PICK c : c = Head(msgQ).c
  OBVIOUS
<1>2. /\ msgQ # <<>> /\ msgQ' = Tail(msgQ) /\ UNCHANGED <<fences, owner, cmd, engineVars>>
      /\ stopClientSessions(c) /\ clients' = clients \ {c}
  BY <1>1 DEF ProcLeave, Arrived
<1>3. IdsTyped(ids) /\ FencesTyped(fences)
  BY DEF Typed, MapsTyped
<1>4. MapsTyped'
  <2>1. ids' = RestrictDomain(ids, LAMBDA id : owner[id] # c)
    BY <1>2 DEF stopClientSessions
  <2>2. DOMAIN ids' \subseteq DOMAIN ids /\ \A id \in DOMAIN ids' : ids'[id] = ids[id]
    BY <2>1 DEF RestrictDomain, Restrict
  <2> QED
    BY <1>2, <1>3, <2>2 DEF MapsTyped, IdsTyped, FencesTyped
<1>5. PICK r \in Seq(Call) : apiQ' = apiQ \o r /\ \A n \in 1..Len(r) : r[n].a = "drop"
  BY <1>2, LeaveCalls
<1>6. \A n \in 1..Len(r) : GoodCall(cmd, r[n])
  BY <1>5 DEF GoodCall
<1>7. CallsTyped'
  BY <1>2, <1>5, <1>6, CallsConcat DEF Typed
<1> QED
  BY <1>2, <1>4, <1>7, HandlerKeeps DEF Typed, OthersTyped

LEMMA DroppedKeepsTypes ==
    ASSUME Typed, Dropped
    PROVE  Typed'
<1>1. /\ msgQ # <<>> /\ msgQ' = Tail(msgQ) /\ UNCHANGED <<ids, clients, owner, cmd, apiQ, engineVars>>
      /\ fences' = fences \/ fences' = Without(fences, Head(msgQ).hw)
  BY DEF Dropped, Arrived
<1>2. CASE fences' = fences
  <2>1. MapsTyped' /\ CallsTyped'
    BY <1>1, <1>2, CallsStay, SameItemsSelf DEF Typed, MapsTyped
  <2> QED
    BY <1>1, <2>1, HandlerKeeps DEF Typed, OthersTyped
<1>3. CASE fences' = Without(fences, Head(msgQ).hw)
  <2>1. DOMAIN fences' \subseteq DOMAIN fences /\ \A g \in DOMAIN fences' : fences'[g] = fences[g]
    BY <1>3 DEF Without, Restrict
  <2>2. MapsTyped'
    BY <1>1, <2>1 DEF Typed, MapsTyped, FencesTyped, IdsTyped
  <2>3. CallsTyped'
    BY <1>1, CallsStay, SameItemsSelf DEF Typed
  <2> QED
    BY <1>1, <2>2, <2>3, HandlerKeeps DEF Typed, OthersTyped
<1> QED
  BY <1>1, <1>2, <1>3

\* The calls of restartGeofences.
LEMMA RestartCalls ==
    ASSUME Typed, restartGeofences
    PROVE  \E r \in Seq(Call) : /\ apiQ' = apiQ \o r
                                /\ \A n \in 1..Len(r) : r[n].a = "readd"
<1>1. PICK n : n = Cardinality(DOMAIN fences)
  OBVIOUS
<1>2. PICK order : order = CHOOSE s \in [1..n -> DOMAIN fences] : IsInjective(s)
  OBVIOUS
<1>3. apiQ' = apiQ \o [k \in 1..n |-> [a |-> "readd", old |-> fences[order[k]]]]
  BY <1>1, <1>2 DEF restartGeofences
<1>4. FencesTyped(fences)
  BY DEF Typed, MapsTyped
<1>5. IsFiniteSet(DOMAIN fences)
  BY <1>4, Numbers, FS_Subset DEF FencesTyped
<1>6. n \in Nat /\ order \in [1..n -> DOMAIN fences]
  BY <1>1, <1>2, <1>5, OrderOfSet
<1>7. PICK r : r = [k \in 1..n |-> [a |-> "readd", old |-> fences[order[k]]]]
  OBVIOUS
<1>8. \A k \in 1..n : [a |-> "readd", old |-> fences[order[k]]] \in Call
  BY <1>4, <1>6 DEF Call, FencesTyped
<1>9. r \in Seq(Call) /\ Len(r) = n
       /\ \A k \in 1..Len(r) : r[k] = [a |-> "readd", old |-> fences[order[k]]]
  BY <1>6, <1>7, <1>8
<1> QED
  BY <1>3, <1>7, <1>9

LEMMA ProcEngineUpKeepsTypes ==
    ASSUME Typed, ProcEngineUp
    PROVE  Typed'
<1>1. /\ msgQ # <<>> /\ msgQ' = Tail(msgQ) /\ UNCHANGED <<clients, owner, cmd, engineVars>>
      /\ restartGeofences
  BY DEF ProcEngineUp, Arrived
<1>2. MapsTyped'
  BY <1>1 DEF restartGeofences, MapsTyped, FencesTyped, IdsTyped
<1>3. PICK r \in Seq(Call) : apiQ' = apiQ \o r /\ \A n \in 1..Len(r) : r[n].a = "readd"
  BY <1>1, RestartCalls
<1>4. \A n \in 1..Len(r) : GoodCall(cmd, r[n])
  BY <1>3 DEF GoodCall
<1>5. CallsTyped'
  BY <1>1, <1>3, <1>4, CallsConcat DEF Typed
<1> QED
  BY <1>1, <1>2, <1>5, HandlerKeeps DEF Typed, OthersTyped

LEMMA ReaddedParts ==
    ASSUME Typed, Readded
    PROVE  LET x == Head(msgQ)
           IN  /\ msgQ # <<>> /\ msgQ' = Tail(msgQ) /\ x.m = "readded" /\ x \in Message
               /\ UNCHANGED <<clients, owner, cmd, engineVars>>
               /\ x.old \in FenceRecord /\ x.ok \in BOOLEAN
               /\ x.ok => x.hw \in HwIds /\ saveGeofenceItem(x.old.id, x.hw, x.old.opt)
               /\ ~x.ok => UNCHANGED mapVars
               /\ apiQ' = apiQ \/ (x.ok /\ apiQ' = Append(apiQ, [a |-> "pause", hw |-> x.hw]))
<1>1. PICK x : x = Head(msgQ)
  OBVIOUS
<1>2. /\ msgQ # <<>> /\ msgQ' = Tail(msgQ) /\ x.m = "readded"
      /\ UNCHANGED <<clients, owner, cmd, engineVars>>
      /\ IF x.ok THEN saveGeofenceItem(x.old.id, x.hw, x.old.opt) /\ pauseAgain(x.old, x.hw)
         ELSE UNCHANGED <<mapVars, apiQ>>
  BY <1>1 DEF Readded, Arrived
<1>3. x \in Message /\ (x.ok => x.hw \in HwIds)
  BY <1>1, <1>2, HeadMsg DEF Typed, GoodMsg
<1>4. x.old \in FenceRecord /\ x.ok \in BOOLEAN
  BY <1>2, <1>3, MessageParts
<1> QED
  BY <1>1, <1>2, <1>3, <1>4 DEF pauseAgain

LEMMA ReaddedKeepsTypes ==
    ASSUME Typed, Readded
    PROVE  Typed'
<1>1. PICK x : x = Head(msgQ)
  OBVIOUS
<1>2. /\ msgQ # <<>> /\ msgQ' = Tail(msgQ)
      /\ UNCHANGED <<clients, owner, cmd, engineVars>>
      /\ x.old \in FenceRecord /\ x.ok \in BOOLEAN
      /\ x.ok => x.hw \in HwIds /\ saveGeofenceItem(x.old.id, x.hw, x.old.opt)
      /\ ~x.ok => UNCHANGED mapVars
      /\ apiQ' = apiQ \/ (x.ok /\ apiQ' = Append(apiQ, [a |-> "pause", hw |-> x.hw]))
  BY <1>1, ReaddedParts
<1>3. x.old.id \in Ids /\ x.old.opt \in Opts
  BY <1>2, FenceParts
<1>4. MapsTyped'
  <2>1. MapsTyped
    BY DEF Typed
  <2>2. CASE x.ok
    BY <1>2, <1>3, <2>1, <2>2, SaveTyped
  <2>3. CASE ~x.ok
    BY <1>2, <2>1, <2>3 DEF MapsTyped, mapVars
  <2> QED
    BY <2>2, <2>3
<1>5. CallsTyped'
  <2>1. cmd' \in Seq(Command) /\ SameItems(cmd, cmd') /\ cmd \in Seq(Command)
    BY <1>2, SameItemsSelf DEF Typed
  <2>2. CASE apiQ' = apiQ
    BY <2>1, <2>2, CallsStay DEF Typed
  <2>3. CASE x.ok /\ apiQ' = Append(apiQ, [a |-> "pause", hw |-> x.hw])
    <3>1. /\ [a |-> "pause", hw |-> x.hw] \in Call
          /\ GoodCall(cmd', [a |-> "pause", hw |-> x.hw])
      BY <1>2, <2>3 DEF Call, GoodCall
    <3> QED
      BY <2>1, <2>3, <3>1, CallsPush DEF Typed
  <2> QED
    BY <1>2, <2>2, <2>3
<1> QED
  BY <1>2, <1>4, <1>5, HandlerKeeps DEF Typed, OthersTyped

LEMMA ProcBreachKeepsTypes ==
    ASSUME Typed, ProcBreach
    PROVE  Typed'
<1>1. /\ msgQ # <<>> /\ msgQ' = Tail(msgQ)
      /\ UNCHANGED <<clients, owner, cmd, engineVars>> /\ UNCHANGED <<mapVars, apiQ>>
  BY DEF ProcBreach, Arrived
<1>2. MapsTyped' /\ CallsTyped'
  BY <1>1, CallsStay, SameItemsSelf DEF Typed, MapsTyped, mapVars
<1> QED
  BY <1>1, <1>2, HandlerKeeps DEF Typed, OthersTyped

\* A call that the engine takes and answers.
LEMMA EngineKeeps ==
    ASSUME Typed, apiQ # <<>>, UNCHANGED <<mapVars, clients, owner, cmd, up>>,
           NEW x \in Message, GoodMsg(cmd, x), Reply(x),
           EngineTyped', ~up => DOMAIN engine' = {}
    PROVE  Typed'
<1>1. msgQ' = Append(msgQ, x) /\ apiQ' = Tail(apiQ)
  BY DEF Reply
<1>2. MapsTyped' /\ OthersTyped' /\ cmd' \in Seq(Command) /\ SameItems(cmd, cmd')
  BY SameItemsSelf DEF Typed, MapsTyped, OthersTyped, mapVars
<1>3. MsgsTyped'
  BY <1>1, <1>2, MsgsPush DEF Typed
<1>4. CallsTyped'
  BY <1>1, CallsPop DEF Typed
<1> QED
  BY <1>2, <1>3, <1>4 DEF Typed

LEMMA EngineQueueParts ==
    ASSUME Typed, EngineQueue
    PROVE  LET y == Head(apiQ)
               x == [m |-> "lookup", b |-> y.b, i |-> y.i]
           IN  /\ apiQ # <<>> /\ y.a = "queue" /\ HasItem(cmd, y) /\ y \in Call
               /\ UNCHANGED <<mapVars, clients, owner, cmd, engineVars>>
               /\ x \in Message /\ GoodMsg(cmd, x) /\ Reply(x)
<1>1. PICK y : y = Head(apiQ)
  OBVIOUS
<1>2. PICK x : x = [m |-> "lookup", b |-> y.b, i |-> y.i]
  OBVIOUS
<1>3. /\ apiQ # <<>> /\ y.a = "queue" /\ UNCHANGED <<mapVars, clients, owner, cmd, engineVars>>
      /\ Reply(x)
  BY <1>1, <1>2 DEF EngineQueue
<1>4. y \in Call /\ HasItem(cmd, y)
  BY <1>1, <1>3, HeadCall DEF Typed, GoodCall
<1>5. y.b \in Nat /\ y.i \in Nat
  BY <1>3, <1>4, CallParts
<1>6. x \in Message /\ x.m = "lookup" /\ x.b = y.b /\ x.i = y.i
  BY <1>2, <1>5 DEF Message
<1>7. GoodMsg(cmd, x)
  BY <1>4, <1>6 DEF GoodMsg, HasItem
<1> QED
  BY <1>1, <1>2, <1>3, <1>4, <1>6, <1>7

LEMMA EngineQueueKeepsTypes ==
    ASSUME Typed, EngineQueue
    PROVE  Typed'
<1>1. PICK x : x = [m |-> "lookup", b |-> Head(apiQ).b, i |-> Head(apiQ).i]
  OBVIOUS
<1>2. /\ apiQ # <<>> /\ UNCHANGED <<mapVars, clients, owner, cmd, engineVars>>
      /\ x \in Message /\ GoodMsg(cmd, x) /\ Reply(x)
  BY <1>1, EngineQueueParts
<1>3. EngineTyped' /\ (~up => DOMAIN engine' = {}) /\ UNCHANGED <<mapVars, clients, owner, cmd, up>>
  BY <1>2 DEF Typed, EngineTyped, OthersTyped, engineVars
<1> QED
  BY <1>2, <1>3, EngineKeeps

DoneMsg(y, hw, ok) == [m |-> "done", b |-> y.b, i |-> y.i, hw |-> hw, ok |-> ok]

LEMMA EngineDoParts ==
    ASSUME Typed, EngineDo
    PROVE  LET y == Head(apiQ)
               k == cmd[y.b]
           IN  /\ apiQ # <<>> /\ y.a = "do" /\ HasItem(cmd, y) /\ y \in Call
               /\ UNCHANGED <<mapVars, clients, owner, cmd, up>>
               /\ \/ /\ up /\ k.op = "add"
                     /\ \E hw \in HwIds : /\ Add(k.ids[y.i], k.opt, hw)
                                          /\ Reply(DoneMsg(y, hw, TRUE))
                  \/ /\ up /\ k.op \in {"remove", "pause", "resume", "modify"}
                     /\ Change(k.op, y.hw, k.opt) /\ y.hw \in HwIds
                     /\ Reply(DoneMsg(y, y.hw, TRUE))
                  \/ Reply(DoneMsg(y, y.hw, FALSE)) /\ UNCHANGED <<engine, used>>
<1>1. PICK y : y = Head(apiQ)
  OBVIOUS
<1>2. apiQ # <<>> /\ y.a = "do" /\ UNCHANGED <<mapVars, clients, owner, cmd, up>>
  BY <1>1 DEF EngineDo
<1>3. y \in Call /\ HasItem(cmd, y)
  BY <1>1, <1>2, HeadCall DEF Typed, GoodCall
<1>4. PICK k : k = cmd[y.b]
  OBVIOUS
<1>5. k.op \in Ops
  BY <1>3, <1>4, ItemParts DEF Typed
<1>6. \/ /\ up /\ k.op = "add"
         /\ \E hw \in HwIds : /\ Add(k.ids[y.i], k.opt, hw)
                              /\ Reply(DoneMsg(y, hw, TRUE))
      \/ /\ up /\ k.op # "add"
         /\ Change(k.op, y.hw, k.opt)
         /\ Reply(DoneMsg(y, y.hw, TRUE))
      \/ Reply(DoneMsg(y, y.hw, FALSE)) /\ UNCHANGED <<engine, used>>
  BY <1>1, <1>4 DEF EngineDo, DoneMsg
<1>7. Change(k.op, y.hw, k.opt) => y.hw \in HwIds
  BY DEF Change, Typed, EngineTyped
<1> QED
  BY <1>1, <1>2, <1>3, <1>4, <1>5, <1>6, <1>7 DEF Ops

LEMMA DoneMsgTyped ==
    ASSUME Typed, NEW y \in Call, y.a = "do", HasItem(cmd, y), NEW hw \in AnyHw, NEW ok \in BOOLEAN,
           ok => hw \in HwIds
    PROVE  /\ DoneMsg(y, hw, ok) \in Message /\ GoodMsg(cmd, DoneMsg(y, hw, ok))
           /\ DoneMsg(y, hw, ok).m = "done" /\ DoneMsg(y, hw, ok).b = y.b
           /\ DoneMsg(y, hw, ok).i = y.i /\ DoneMsg(y, hw, ok).hw = hw
           /\ DoneMsg(y, hw, ok).ok = ok
<1>1. y.b \in Nat /\ y.i \in Nat
  BY CallParts
<1>2. PICK x : x = DoneMsg(y, hw, ok)
  OBVIOUS
<1>3. x \in Message /\ x.m = "done" /\ x.b = y.b /\ x.i = y.i /\ x.hw = hw /\ x.ok = ok
  BY <1>1, <1>2 DEF Message, DoneMsg
<1>4. GoodMsg(cmd, x)
  BY <1>3 DEF GoodMsg, HasItem
<1> QED
  BY <1>2, <1>3, <1>4

LEMMA EngineDoKeepsTypes ==
    ASSUME Typed, EngineDo
    PROVE  Typed'
<1>1. PICK y : y = Head(apiQ)
  OBVIOUS
<1>2. PICK k : k = cmd[y.b]
  OBVIOUS
<1>3. /\ apiQ # <<>> /\ y.a = "do" /\ HasItem(cmd, y) /\ y \in Call
      /\ UNCHANGED <<mapVars, clients, owner, cmd, up>>
      /\ \/ /\ up /\ k.op = "add"
            /\ \E hw \in HwIds : /\ Add(k.ids[y.i], k.opt, hw)
                                 /\ Reply(DoneMsg(y, hw, TRUE))
         \/ /\ up /\ k.op \in {"remove", "pause", "resume", "modify"}
            /\ Change(k.op, y.hw, k.opt) /\ y.hw \in HwIds
            /\ Reply(DoneMsg(y, y.hw, TRUE))
         \/ Reply(DoneMsg(y, y.hw, FALSE)) /\ UNCHANGED <<engine, used>>
  BY <1>1, <1>2, EngineDoParts
<1>4. k.opt \in Opts /\ k.ids[y.i] \in Ids
  BY <1>2, <1>3, ItemParts DEF Typed
<1>5. EngineTyped /\ (~up => DOMAIN engine = {})
  BY DEF Typed, OthersTyped
<1>6. ASSUME NEW hw \in HwIds, up, Add(k.ids[y.i], k.opt, hw), Reply(DoneMsg(y, hw, TRUE))
      PROVE  Typed'
  <2>1. EngineTyped'
    BY <1>4, <1>5, <1>6, AddTyped
  <2>2. DoneMsg(y, hw, TRUE) \in Message /\ GoodMsg(cmd, DoneMsg(y, hw, TRUE))
    BY <1>3, DoneMsgTyped DEF AnyHw
  <2> QED
    BY <1>3, <1>6, <2>1, <2>2, EngineKeeps
<1>7. ASSUME up, k.op \in {"remove", "pause", "resume", "modify"}, y.hw \in HwIds,
             Change(k.op, y.hw, k.opt), Reply(DoneMsg(y, y.hw, TRUE))
      PROVE  Typed'
  <2>1. EngineTyped'
    BY <1>4, <1>5, <1>7, ChangeTyped
  <2>2. DoneMsg(y, y.hw, TRUE) \in Message /\ GoodMsg(cmd, DoneMsg(y, y.hw, TRUE))
    BY <1>3, <1>7, DoneMsgTyped DEF AnyHw
  <2> QED
    BY <1>3, <1>7, <2>1, <2>2, EngineKeeps
<1>8. ASSUME Reply(DoneMsg(y, y.hw, FALSE)), UNCHANGED <<engine, used>>
      PROVE  Typed'
  <2>1. EngineTyped' /\ (~up => DOMAIN engine' = {})
    BY <1>5, <1>8 DEF EngineTyped
  <2>2. DoneMsg(y, y.hw, FALSE) \in Message /\ GoodMsg(cmd, DoneMsg(y, y.hw, FALSE))
    BY <1>3, CallParts, DoneMsgTyped
  <2> QED
    BY <1>3, <1>8, <2>1, <2>2, EngineKeeps
<1> QED
  BY <1>3, <1>6, <1>7, <1>8

ReaddMsg(old, hw, ok) == [m |-> "readded", old |-> old, hw |-> hw, ok |-> ok]

LEMMA EngineReaddParts ==
    ASSUME Typed, EngineReadd
    PROVE  LET old == Head(apiQ).old
           IN  /\ apiQ # <<>> /\ Head(apiQ).a = "readd" /\ old \in FenceRecord
               /\ UNCHANGED <<mapVars, clients, owner, cmd, up>>
               /\ \/ up /\ \E hw \in HwIds : /\ Add(old.id, old.opt, hw)
                                            /\ Reply(ReaddMsg(old, hw, TRUE))
                  \/ Reply(ReaddMsg(old, 0, FALSE)) /\ UNCHANGED <<engine, used>>
<1>1. PICK old : old = Head(apiQ).old
  OBVIOUS
<1>2. apiQ # <<>> /\ Head(apiQ).a = "readd" /\ UNCHANGED <<mapVars, clients, owner, cmd, up>>
  BY DEF EngineReadd
<1>3. old \in FenceRecord
  BY <1>1, <1>2, HeadCall, CallParts DEF Typed
<1>4. \/ up /\ \E hw \in HwIds : Add(old.id, old.opt, hw) /\ Reply(ReaddMsg(old, hw, TRUE))
      \/ Reply(ReaddMsg(old, 0, FALSE)) /\ UNCHANGED <<engine, used>>
  BY <1>1 DEF EngineReadd, ReaddMsg
<1> QED
  BY <1>1, <1>2, <1>3, <1>4

LEMMA ReaddMsgTyped ==
    ASSUME NEW old \in FenceRecord, NEW hw \in AnyHw, NEW ok \in BOOLEAN, ok => hw \in HwIds
    PROVE  /\ ReaddMsg(old, hw, ok) \in Message /\ GoodMsg(cmd, ReaddMsg(old, hw, ok))
           /\ ReaddMsg(old, hw, ok).m = "readded" /\ ReaddMsg(old, hw, ok).old = old
           /\ ReaddMsg(old, hw, ok).hw = hw /\ ReaddMsg(old, hw, ok).ok = ok
<1>1. PICK x : x = ReaddMsg(old, hw, ok)
  OBVIOUS
<1>2. x \in Message /\ x.m = "readded" /\ x.old = old /\ x.hw = hw /\ x.ok = ok
  BY <1>1 DEF Message, ReaddMsg
<1> QED
  BY <1>1, <1>2 DEF GoodMsg

LEMMA EngineReaddKeepsTypes ==
    ASSUME Typed, EngineReadd
    PROVE  Typed'
<1>1. PICK old : old = Head(apiQ).old
  OBVIOUS
<1>2. /\ apiQ # <<>> /\ old \in FenceRecord
      /\ UNCHANGED <<mapVars, clients, owner, cmd, up>>
      /\ \/ up /\ \E hw \in HwIds : /\ Add(old.id, old.opt, hw)
                                   /\ Reply(ReaddMsg(old, hw, TRUE))
         \/ Reply(ReaddMsg(old, 0, FALSE)) /\ UNCHANGED <<engine, used>>
  BY <1>1, EngineReaddParts
<1>3. old.id \in Ids /\ old.opt \in Opts
  BY <1>2, FenceParts
<1>4. EngineTyped /\ (~up => DOMAIN engine = {})
  BY DEF Typed, OthersTyped
<1>5. ASSUME NEW hw \in HwIds, up, Add(old.id, old.opt, hw), Reply(ReaddMsg(old, hw, TRUE))
      PROVE  Typed'
  <2>1. EngineTyped'
    BY <1>3, <1>4, <1>5, AddTyped
  <2>2. ReaddMsg(old, hw, TRUE) \in Message /\ GoodMsg(cmd, ReaddMsg(old, hw, TRUE))
    BY <1>2, ReaddMsgTyped DEF AnyHw
  <2> QED
    BY <1>2, <1>5, <2>1, <2>2, EngineKeeps
<1>6. ASSUME Reply(ReaddMsg(old, 0, FALSE)), UNCHANGED <<engine, used>>
      PROVE  Typed'
  <2>1. EngineTyped' /\ (~up => DOMAIN engine' = {})
    BY <1>4, <1>6 DEF EngineTyped
  <2>2. ReaddMsg(old, 0, FALSE) \in Message /\ GoodMsg(cmd, ReaddMsg(old, 0, FALSE))
    BY <1>2, ReaddMsgTyped DEF AnyHw
  <2> QED
    BY <1>2, <1>6, <2>1, <2>2, EngineKeeps
<1> QED
  BY <1>2, <1>5, <1>6

LEMMA EnginePauseParts ==
    ASSUME Typed, EnginePause
    PROVE  /\ apiQ # <<>> /\ apiQ' = Tail(apiQ) /\ EngineTyped'
           /\ UNCHANGED <<mapVars, clients, owner, cmd, msgQ, up>>
           /\ DOMAIN engine' \subseteq DOMAIN engine
           /\ \A g \in DOMAIN engine' : engine'[g].id = engine[g].id
<1>1. /\ apiQ # <<>> /\ apiQ' = Tail(apiQ)
      /\ UNCHANGED <<mapVars, clients, owner, cmd, msgQ, up>>
      /\ Change("pause", Head(apiQ).hw, "none") \/ UNCHANGED <<engine, used>>
  BY DEF EnginePause
<1>2. EngineTyped
  BY DEF Typed
<1>3. CASE Change("pause", Head(apiQ).hw, "none")
  BY <1>1, <1>2, <1>3, ChangeTyped
<1>4. CASE UNCHANGED <<engine, used>>
  BY <1>1, <1>2, <1>4 DEF EngineTyped
<1> QED
  BY <1>1, <1>3, <1>4

LEMMA EnginePauseKeepsTypes ==
    ASSUME Typed, EnginePause
    PROVE  Typed'
<1>1. /\ apiQ # <<>> /\ apiQ' = Tail(apiQ) /\ EngineTyped'
      /\ UNCHANGED <<mapVars, clients, owner, cmd, msgQ, up>>
      /\ DOMAIN engine' \subseteq DOMAIN engine
  BY EnginePauseParts
<1>2. MapsTyped' /\ OthersTyped' /\ cmd' \in Seq(Command) /\ SameItems(cmd, cmd')
  BY <1>1, SameItemsSelf DEF Typed, MapsTyped, OthersTyped, mapVars
<1>3. MsgsTyped'
  BY <1>1, <1>2, MsgsStay DEF Typed
<1>4. CallsTyped'
  BY <1>1, CallsPop DEF Typed
<1> QED
  BY <1>1, <1>2, <1>3, <1>4 DEF Typed

DropMsg(hw, ok) == [m |-> "dropped", hw |-> hw, ok |-> ok]

LEMMA EngineDropParts ==
    ASSUME Typed, EngineDrop
    PROVE  LET hw == Head(apiQ).hw
           IN  /\ apiQ # <<>> /\ Head(apiQ).a = "drop" /\ hw \in HwIds
               /\ UNCHANGED <<mapVars, clients, owner, cmd, up>>
               /\ \/ up /\ Change("remove", hw, "none") /\ Reply(DropMsg(hw, TRUE))
                  \/ Reply(DropMsg(hw, FALSE)) /\ UNCHANGED <<engine, used>>
<1>1. PICK hw : hw = Head(apiQ).hw
  OBVIOUS
<1>2. apiQ # <<>> /\ Head(apiQ).a = "drop" /\ UNCHANGED <<mapVars, clients, owner, cmd, up>>
  BY DEF EngineDrop
<1>3. hw \in HwIds
  BY <1>1, <1>2, HeadCall, CallParts DEF Typed
<1>4. \/ up /\ Change("remove", hw, "none") /\ Reply(DropMsg(hw, TRUE))
      \/ Reply(DropMsg(hw, FALSE)) /\ UNCHANGED <<engine, used>>
  BY <1>1 DEF EngineDrop, DropMsg
<1> QED
  BY <1>1, <1>2, <1>3, <1>4

LEMMA DropMsgTyped ==
    ASSUME NEW hw \in HwIds, NEW ok \in BOOLEAN
    PROVE  /\ DropMsg(hw, ok) \in Message /\ GoodMsg(cmd, DropMsg(hw, ok))
           /\ DropMsg(hw, ok).m = "dropped" /\ DropMsg(hw, ok).hw = hw
           /\ DropMsg(hw, ok).ok = ok
<1>1. PICK x : x = DropMsg(hw, ok)
  OBVIOUS
<1>2. x \in Message /\ x.m = "dropped" /\ x.hw = hw /\ x.ok = ok
  BY <1>1 DEF Message, DropMsg
<1> QED
  BY <1>1, <1>2 DEF GoodMsg

LEMMA EngineDropKeepsTypes ==
    ASSUME Typed, EngineDrop
    PROVE  Typed'
<1>1. PICK hw : hw = Head(apiQ).hw
  OBVIOUS
<1>2. /\ apiQ # <<>> /\ hw \in HwIds
      /\ UNCHANGED <<mapVars, clients, owner, cmd, up>>
      /\ \/ up /\ Change("remove", hw, "none") /\ Reply(DropMsg(hw, TRUE))
         \/ Reply(DropMsg(hw, FALSE)) /\ UNCHANGED <<engine, used>>
  BY <1>1, EngineDropParts
<1>3. EngineTyped /\ (~up => DOMAIN engine = {})
  BY DEF Typed, OthersTyped
<1>4. ASSUME up, Change("remove", hw, "none"), Reply(DropMsg(hw, TRUE))
      PROVE  Typed'
  <2>1. EngineTyped'
    BY <1>3, <1>4, ChangeTyped
  <2>2. DropMsg(hw, TRUE) \in Message /\ GoodMsg(cmd, DropMsg(hw, TRUE))
    BY <1>2, DropMsgTyped
  <2> QED
    BY <1>2, <1>4, <2>1, <2>2, EngineKeeps
<1>5. ASSUME Reply(DropMsg(hw, FALSE)), UNCHANGED <<engine, used>>
      PROVE  Typed'
  <2>1. EngineTyped' /\ (~up => DOMAIN engine' = {})
    BY <1>3, <1>5 DEF EngineTyped
  <2>2. DropMsg(hw, FALSE) \in Message /\ GoodMsg(cmd, DropMsg(hw, FALSE))
    BY <1>2, DropMsgTyped
  <2> QED
    BY <1>2, <1>5, <2>1, <2>2, EngineKeeps
<1> QED
  BY <1>2, <1>4, <1>5

LEMMA EngineDownKeepsTypes ==
    ASSUME Typed, EngineDown
    PROVE  Typed'
<1>1. /\ up' = FALSE /\ engine' = <<>>
      /\ UNCHANGED <<mapVars, clients, owner, cmd, msgQ, apiQ, used>>
  BY DEF EngineDown
<1>2. DOMAIN engine' = {}
  BY <1>1
<1>3. EngineTyped'
  BY <1>1, <1>2 DEF Typed, EngineTyped
<1>4. MapsTyped' /\ OthersTyped' /\ cmd' \in Seq(Command) /\ SameItems(cmd, cmd')
  BY <1>1, <1>2, SameItemsSelf DEF Typed, MapsTyped, OthersTyped, mapVars
<1>5. MsgsTyped' /\ CallsTyped'
  BY <1>1, <1>4, MsgsStay, CallsStay DEF Typed
<1> QED
  BY <1>3, <1>4, <1>5 DEF Typed

LEMMA EngineUpKeepsTypes ==
    ASSUME Typed, EngineUp
    PROVE  Typed'
<1>1. /\ up' = TRUE /\ msgQ' = Append(msgQ, [m |-> "engineUp"])
      /\ UNCHANGED <<mapVars, clients, owner, cmd, apiQ, engine, used>>
  BY DEF EngineUp
<1>2. [m |-> "engineUp"] \in Message /\ GoodMsg(cmd', [m |-> "engineUp"])
  BY DEF Message, GoodMsg
<1>3. EngineTyped'
  BY <1>1 DEF Typed, EngineTyped
<1>4. MapsTyped' /\ OthersTyped' /\ cmd' \in Seq(Command) /\ SameItems(cmd, cmd')
  BY <1>1, SameItemsSelf DEF Typed, MapsTyped, OthersTyped, mapVars
<1>5. MsgsTyped'
  BY <1>1, <1>2, <1>4, MsgsPush DEF Typed
<1>6. CallsTyped'
  BY <1>1, <1>4, CallsStay DEF Typed
<1> QED
  BY <1>3, <1>4, <1>5, <1>6 DEF Typed

LEMMA TypedStep ==
    ASSUME Typed, [Next]_vars
    PROVE  Typed'
<1>1. CASE UNCHANGED vars
  <2>1. UNCHANGED <<mapVars, clients, owner, cmd, msgQ, apiQ, engineVars>>
    BY <1>1 DEF vars
  <2>2. MapsTyped' /\ EngineTyped' /\ OthersTyped' /\ cmd' \in Seq(Command) /\ SameItems(cmd, cmd')
    BY <2>1, SameItemsSelf
       DEF Typed, MapsTyped, EngineTyped, OthersTyped, mapVars, engineVars
  <2>3. MsgsTyped' /\ CallsTyped'
    BY <2>1, <2>2, MsgsStay, CallsStay DEF Typed
  <2> QED
    BY <2>2, <2>3 DEF Typed
<1>2. CASE Proc
  BY <1>2, ProcCommandKeepsTypes, LookupKeepsTypes, DoneKeepsTypes, ProcLeaveKeepsTypes,
     DroppedKeepsTypes, ProcEngineUpKeepsTypes, ReaddedKeepsTypes, ProcBreachKeepsTypes DEF Proc
<1>3. CASE EngineStep
  BY <1>3, EngineQueueKeepsTypes, EngineDoKeepsTypes, EngineReaddKeepsTypes,
     EnginePauseKeepsTypes, EngineDropKeepsTypes, EngineUpKeepsTypes DEF EngineStep
<1>4. CASE EngineDown
  BY <1>4, EngineDownKeepsTypes
<1>5. ASSUME NEW c \in Clients, Leave(c) PROVE Typed'
  BY <1>5, LeaveKeepsTypes
<1>6. ASSUME NEW c \in Clients, NEW n \in AddCounts, addGeofencesCommand(c, n, FirstOpt)
      PROVE  Typed'
  BY <1>6, AddKeepsTypes
<1>7. ASSUME NEW c \in Clients, NEW list \in Lists, NEW op \in {"remove", "pause", "resume"},
             otherCommand(op, c, list, FirstOpt)
      PROVE  Typed'
  BY <1>7, Numbers, OtherKeepsTypes
<1>8. ASSUME NEW c \in Clients, NEW list \in Lists, NEW opt \in Opts,
             otherCommand("modify", c, list, opt)
      PROVE  Typed'
  BY <1>8, OtherKeepsTypes
<1>9. ASSUME NEW hw \in DOMAIN engine, Breach(hw) PROVE Typed'
  BY <1>9, BreachKeepsTypes
<1> QED
  BY <1>1, <1>2, <1>3, <1>4, <1>5, <1>6, <1>7, <1>8, <1>9 DEF Next

\* Maps, engine, commands, messages and calls keep their types: an item is always one that
\* its command has, and a hardware id one the engine may hand out.
THEOREM TypedAlways == Spec => []Typed
<1>1. Typed /\ [Next]_vars => Typed'
  BY TypedStep
<1> QED
  BY <1>1, TypedInit, PTL DEF Spec

\* The type invariant of Geofences holds for every choice of its constants.
THEOREM TypeOKAlways == Spec => []TypeOK
<1>1. Typed => TypeOK
  BY DEF Typed, MapsTyped, FencesTyped, IdsTyped, EngineTyped, OthersTyped, FenceRecord, TypeOK
<1> QED
  BY <1>1, TypedAlways, PTL

-----------------------------------------------------------------------------
(* What the adapter knows of the engine.  The engine's answers come in the   *)
(* order in which it acts, so that the adapter, once it has handled what is  *)
(* in the queue before a breach, knows the geofence as the engine did.       *)

\* With message x the adapter learns that hw is geofence id; k are the commands.
Gain(k, x, hw, id) ==
    \/ /\ x.m = "done" /\ x.ok /\ k[x.b].op = "add"
       /\ x.hw = hw /\ k[x.b].ids[x.i] = id
    \/ x.m = "readded" /\ x.ok /\ x.hw = hw /\ x.old.id = id

\* With message x it may forget that.
Loss(k, x, hw, id) ==
    \/ x.m = "engineUp"
    \/ x.m = "dropped" /\ x.ok /\ x.hw = hw
    \/ /\ x.m = "done" /\ x.ok /\ x.hw = hw
       /\ \/ k[x.b].op = "remove"
          \/ k[x.b].op = "add" /\ k[x.b].ids[x.i] # id
    \/ x.m = "readded" /\ x.ok /\ x.hw = hw /\ x.old.id # id

\* When the first n messages of q have been handled the adapter, that has the geofences f
\* now, has hw as geofence id.
Knows(f, k, q, hw, id, n) ==
    \/ /\ hw \in DOMAIN f /\ f[hw].id = id
       /\ \A j \in 1..n : ~Loss(k, q[j], hw, id)
    \/ \E g \in 1..n : /\ Gain(k, q[g], hw, id)
                       /\ \A j \in 1..n : j > g => ~Loss(k, q[j], hw, id)

EngineIsKnown ==
    \A hw \in DOMAIN engine : Knows(fences, cmd, msgQ, hw, engine[hw].id, Len(msgQ))

BreachesAreKnown ==
    \A n \in 1..Len(msgQ) : msgQ[n].m = "breach" =>
        Knows(fences, cmd, msgQ, msgQ[n].hw, msgQ[n].id, n - 1)

Known == EngineIsKnown /\ BreachesAreKnown

\* More commands change nothing about a message that is there.
LEMMA SameGains ==
    ASSUME NEW k \in Seq(Command), NEW k2 \in Seq(Command), SameItems(k, k2),
           NEW x \in Message, GoodMsg(k, x), NEW hw, NEW id
    PROVE  /\ Gain(k, x, hw, id) <=> Gain(k2, x, hw, id)
           /\ Loss(k, x, hw, id) <=> Loss(k2, x, hw, id)
<1>1. CASE x.m = "done"
  <2>1. x.b \in 1..Len(k)
    BY <1>1 DEF GoodMsg, HasItem
  <2>2. k2[x.b].op = k[x.b].op /\ k2[x.b].ids = k[x.b].ids
    BY <2>1 DEF SameItems
  <2> QED
    BY <1>1, <2>2 DEF Gain, Loss
<1>2. CASE x.m # "done"
  BY <1>2 DEF Gain, Loss
<1> QED
  BY <1>1, <1>2

\* What is known does not change while messages are added behind.
LEMMA KnowsLater ==
    ASSUME NEW f, NEW k \in Seq(Command), NEW k2 \in Seq(Command), SameItems(k, k2),
           NEW q \in Seq(Message), \A j \in 1..Len(q) : GoodMsg(k, q[j]),
           NEW q2 \in Seq(Message), NEW n \in Nat, n <= Len(q),
           \A j \in 1..Len(q) : q2[j] = q[j],
           NEW hw, NEW id, Knows(f, k, q, hw, id, n)
    PROVE  Knows(f, k2, q2, hw, id, n)
<1>1. ASSUME NEW j \in 1..n
      PROVE  /\ Gain(k, q[j], hw, id) <=> Gain(k2, q2[j], hw, id)
             /\ Loss(k, q[j], hw, id) <=> Loss(k2, q2[j], hw, id)
  <2>1. j \in 1..Len(q)
    OBVIOUS
  <2>2. q[j] \in Message /\ GoodMsg(k, q[j]) /\ q2[j] = q[j]
    BY <2>1
  <2> QED
    BY <2>2, SameGains
<1> QED
  BY <1>1 DEF Knows

\* A message that is no loss, added behind, changes nothing.
LEMMA KnowsOneMore ==
    ASSUME NEW f, NEW k \in Seq(Command), NEW q, NEW n \in Nat, NEW hw, NEW id,
           Knows(f, k, q, hw, id, n), ~Loss(k, q[n + 1], hw, id)
    PROVE  Knows(f, k, q, hw, id, n + 1)
<1>1. \A j \in 1..(n + 1) : j \in 1..n \/ j = n + 1
  OBVIOUS
<1> QED
  BY <1>1 DEF Knows

\* A gain that comes last.
LEMMA KnowsGain ==
    ASSUME NEW f, NEW k, NEW q, NEW n \in Nat, NEW hw, NEW id, Gain(k, q[n + 1], hw, id)
    PROVE  Knows(f, k, q, hw, id, n + 1)
<1>1. \A j \in 1..(n + 1) : ~(j > n + 1)
  OBVIOUS
<1> QED
  BY <1>1 DEF Knows

\* The first message is handled: a gain makes it known, what is no loss leaves it so.
LEMMA KnowsTail ==
    ASSUME NEW f, NEW f2, NEW k \in Seq(Command), NEW k2 \in Seq(Command), SameItems(k, k2),
           NEW q \in Seq(Message), q # <<>>, \A j \in 1..Len(q) : GoodMsg(k, q[j]),
           NEW n \in 1..Len(q), NEW hw, NEW id,
           Gain(k, q[1], hw, id) => hw \in DOMAIN f2 /\ f2[hw].id = id,
           (~Loss(k, q[1], hw, id) /\ hw \in DOMAIN f /\ f[hw].id = id) =>
               hw \in DOMAIN f2 /\ f2[hw].id = id,
           Knows(f, k, q, hw, id, n)
    PROVE  Knows(f2, k2, Tail(q), hw, id, n - 1)
<1>1. PICK t : t = Tail(q)
  OBVIOUS
<1>2. Len(t) = Len(q) - 1 /\ \A j \in 1..Len(t) : t[j] = q[j + 1]
  BY <1>1, PopParts
<1>3. Len(q) \in Nat
  OBVIOUS
<1>4. ASSUME NEW j \in 1..(n - 1)
      PROVE  /\ Gain(k, q[j + 1], hw, id) <=> Gain(k2, t[j], hw, id)
             /\ Loss(k, q[j + 1], hw, id) <=> Loss(k2, t[j], hw, id)
             /\ j + 1 \in 1..n
  <2>1. j + 1 \in 1..Len(q) /\ j + 1 \in 1..n /\ j \in 1..Len(t)
    BY <1>2, <1>3
  <2>2. q[j + 1] \in Message /\ GoodMsg(k, q[j + 1]) /\ t[j] = q[j + 1]
    BY <1>2, <2>1
  <2> QED
    BY <2>1, <2>2, SameGains
<1>5. n - 1 \in Nat
  OBVIOUS
<1>6. 1 \in 1..n
  OBVIOUS
<1>7. CASE /\ hw \in DOMAIN f /\ f[hw].id = id
           /\ \A j \in 1..n : ~Loss(k, q[j], hw, id)
  <2>1. hw \in DOMAIN f2 /\ f2[hw].id = id
    BY <1>6, <1>7
  <2>2. \A j \in 1..(n - 1) : ~Loss(k2, t[j], hw, id)
    BY <1>4, <1>7
  <2>3. Knows(f2, k2, t, hw, id, n - 1)
    BY <2>1, <2>2 DEF Knows
  <2> QED
    BY <1>1, <2>3
<1>8. ASSUME NEW g \in 1..n, Gain(k, q[g], hw, id),
             \A j \in 1..n : j > g => ~Loss(k, q[j], hw, id)
      PROVE  Knows(f2, k2, t, hw, id, n - 1)
  <2>1. CASE g = 1
    <3>1. hw \in DOMAIN f2 /\ f2[hw].id = id
      BY <1>8, <2>1
    <3>2. \A j \in 1..(n - 1) : ~Loss(k2, t[j], hw, id)
      BY <1>4, <1>8, <2>1
    <3> QED
      BY <3>1, <3>2 DEF Knows
  <2>2. CASE g # 1
    <3>1. g - 1 \in 1..(n - 1) /\ (g - 1) + 1 = g
      BY <2>2
    <3>2. Gain(k2, t[g - 1], hw, id)
      BY <1>4, <1>8, <3>1
    <3>3. \A j \in 1..(n - 1) : j > g - 1 => ~Loss(k2, t[j], hw, id)
      BY <1>4, <1>8, <3>1
    <3> QED
      BY <3>1, <3>2, <3>3 DEF Knows
  <2> QED
    BY <2>1, <2>2
<1>9. \/ /\ hw \in DOMAIN f /\ f[hw].id = id
         /\ \A j \in 1..n : ~Loss(k, q[j], hw, id)
      \/ \E g \in 1..n : /\ Gain(k, q[g], hw, id)
                         /\ \A j \in 1..n : j > g => ~Loss(k, q[j], hw, id)
  BY DEF Knows
<1> QED
  BY <1>1, <1>7, <1>8, <1>9

\* A message comes in; the engine has lost no geofence without saying so, and found none.
LEMMA KnownPush ==
    ASSUME Typed, Typed', Known, SameItems(cmd, cmd'), fences' = fences,
           NEW x \in Message, msgQ' = Append(msgQ, x),
           x.m = "breach" => x.hw \in DOMAIN engine /\ x.id = engine[x.hw].id,
           \A hw \in DOMAIN engine' :
              \/ /\ hw \in DOMAIN engine /\ engine'[hw].id = engine[hw].id
                 /\ ~Loss(cmd', x, hw, engine[hw].id)
              \/ Gain(cmd', x, hw, engine'[hw].id)
    PROVE  Known'
<1>1. PICK n : n = Len(msgQ)
  OBVIOUS
<1>2. /\ cmd \in Seq(Command) /\ cmd' \in Seq(Command)
      /\ msgQ \in Seq(Message) /\ (\A j \in 1..Len(msgQ) : GoodMsg(cmd, msgQ[j]))
      /\ msgQ' \in Seq(Message)
  BY DEF Typed, MsgsTyped
<1>3. /\ n \in Nat /\ Len(msgQ') = n + 1 /\ msgQ'[n + 1] = x
      /\ \A j \in 1..n : msgQ'[j] = msgQ[j]
  BY <1>1, <1>2, PushParts
<1>4. ASSUME NEW hw, NEW id, NEW p \in Nat, p <= n, Knows(fences, cmd, msgQ, hw, id, p)
      PROVE  Knows(fences', cmd', msgQ', hw, id, p)
  BY <1>1, <1>2, <1>3, <1>4, KnowsLater
<1>5. EngineIsKnown /\ BreachesAreKnown
  BY DEF Known
<1>6. ASSUME NEW hw \in DOMAIN engine'
      PROVE  Knows(fences', cmd', msgQ', hw, engine'[hw].id, n + 1)
  <2>1. CASE /\ hw \in DOMAIN engine /\ engine'[hw].id = engine[hw].id
             /\ ~Loss(cmd', x, hw, engine[hw].id)
    <3>1. Knows(fences, cmd, msgQ, hw, engine[hw].id, n)
      BY <1>1, <1>5, <2>1 DEF EngineIsKnown
    <3>2. Knows(fences', cmd', msgQ', hw, engine[hw].id, n)
      BY <1>3, <1>4, <3>1
    <3>3. Knows(fences', cmd', msgQ', hw, engine[hw].id, n + 1)
      BY <1>2, <1>3, <2>1, <3>2, KnowsOneMore
    <3> QED
      BY <2>1, <3>3
  <2>2. CASE Gain(cmd', x, hw, engine'[hw].id)
    BY <1>3, <2>2, KnowsGain
  <2> QED
    BY <2>1, <2>2
<1>7. ASSUME NEW j \in 1..(n + 1), msgQ'[j].m = "breach"
      PROVE  Knows(fences', cmd', msgQ', msgQ'[j].hw, msgQ'[j].id, j - 1)
  <2>1. CASE j = n + 1
    <3>1. Knows(fences, cmd, msgQ, x.hw, x.id, n)
      BY <1>1, <1>3, <1>5, <1>7, <2>1 DEF EngineIsKnown
    <3> QED
      BY <1>3, <1>4, <2>1, <3>1
  <2>2. CASE j # n + 1
    <3>1. j \in 1..n /\ msgQ'[j] = msgQ[j] /\ j - 1 \in Nat /\ j - 1 <= n
      BY <1>3, <2>2
    <3>2. Knows(fences, cmd, msgQ, msgQ[j].hw, msgQ[j].id, j - 1)
      BY <1>1, <1>5, <1>7, <3>1 DEF BreachesAreKnown
    <3> QED
      BY <1>4, <3>1, <3>2
  <2> QED
    BY <2>1, <2>2
<1>8. EngineIsKnown'
  BY <1>3, <1>6 DEF EngineIsKnown
<1>9. BreachesAreKnown'
  BY <1>3, <1>7 DEF BreachesAreKnown
<1> QED
  BY <1>8, <1>9 DEF Known

\* No message comes or goes; the engine may lose geofences.
LEMMA KnownStay ==
    ASSUME Typed, Known, UNCHANGED <<fences, cmd, msgQ>>,
           DOMAIN engine' \subseteq DOMAIN engine,
           \A hw \in DOMAIN engine' : engine'[hw].id = engine[hw].id
    PROVE  Known'
BY DEF Known, EngineIsKnown, BreachesAreKnown

\* The first message is handled: the maps follow it.
LEMMA KnownPop ==
    ASSUME Typed, Typed', Known, SameItems(cmd, cmd'), engine' = engine,
           msgQ # <<>>, msgQ' = Tail(msgQ),
           \A hw, id : Gain(cmd, Head(msgQ), hw, id) => hw \in DOMAIN fences' /\ fences'[hw].id = id,
           \A hw, id : (~Loss(cmd, Head(msgQ), hw, id) /\ hw \in DOMAIN fences /\ fences[hw].id = id)
               => hw \in DOMAIN fences' /\ fences'[hw].id = id
    PROVE  Known'
<1>1. /\ cmd \in Seq(Command) /\ cmd' \in Seq(Command)
      /\ msgQ \in Seq(Message) /\ (\A j \in 1..Len(msgQ) : GoodMsg(cmd, msgQ[j]))
  BY DEF Typed, MsgsTyped
<1>2. /\ Head(msgQ) = msgQ[1] /\ Len(msgQ') = Len(msgQ) - 1 /\ Len(msgQ) \in Nat \ {0}
      /\ \A j \in 1..Len(msgQ') : msgQ'[j] = msgQ[j + 1] /\ j + 1 \in 1..Len(msgQ)
  BY <1>1, PopParts
<1>3. ASSUME NEW hw, NEW id, NEW n \in 1..Len(msgQ), Knows(fences, cmd, msgQ, hw, id, n)
      PROVE  Knows(fences', cmd', msgQ', hw, id, n - 1)
  <2>1. /\ Gain(cmd, msgQ[1], hw, id) => hw \in DOMAIN fences' /\ fences'[hw].id = id
        /\ (~Loss(cmd, msgQ[1], hw, id) /\ hw \in DOMAIN fences /\ fences[hw].id = id)
               => hw \in DOMAIN fences' /\ fences'[hw].id = id
    BY <1>2
  <2>2. PICK f2 : f2 = fences'
    OBVIOUS
  <2>3. PICK k2 : k2 = cmd'
    OBVIOUS
  <2>4. Knows(f2, k2, Tail(msgQ), hw, id, n - 1)
    BY <1>1, <1>3, <2>1, <2>2, <2>3, KnowsTail
  <2> QED
    BY <2>2, <2>3, <2>4
<1>4. EngineIsKnown /\ BreachesAreKnown
  BY DEF Known
<1>5. EngineIsKnown'
  <2>1. Len(msgQ) \in 1..Len(msgQ)
    BY <1>2
  <2> QED
    BY <1>2, <1>3, <1>4, <2>1 DEF EngineIsKnown
<1>6. BreachesAreKnown'
  <2> SUFFICES ASSUME NEW j \in 1..Len(msgQ'), msgQ'[j].m = "breach"
               PROVE  Knows(fences', cmd', msgQ', msgQ'[j].hw, msgQ'[j].id, j - 1)
    BY DEF BreachesAreKnown
  <2>1. msgQ'[j] = msgQ[j + 1] /\ j + 1 \in 1..Len(msgQ) /\ j \in 1..Len(msgQ)
    BY <1>2
  <2>2. Knows(fences, cmd, msgQ, msgQ[j + 1].hw, msgQ[j + 1].id, (j + 1) - 1)
    BY <1>4, <2>1 DEF BreachesAreKnown
  <2>3. (j + 1) - 1 = j
    OBVIOUS
  <2> QED
    BY <1>3, <2>1, <2>2, <2>3
<1> QED
  BY <1>5, <1>6 DEF Known

\* A message the geofences do not depend on.
LEMMA KnownPopOther ==
    ASSUME Typed, Typed', Known, SameItems(cmd, cmd'), UNCHANGED <<engine, fences>>,
           msgQ # <<>>, msgQ' = Tail(msgQ),
           Head(msgQ).m \notin {"done", "readded"}
    PROVE  Known'
<1>1. \A hw, id : ~Gain(cmd, Head(msgQ), hw, id)
  BY DEF Gain
<1> QED
  BY <1>1, KnownPop

LEMMA KnownDone ==
    ASSUME Typed, Typed', Known, Done
    PROVE  Known'
<1>1. PICK x : x = Head(msgQ)
  OBVIOUS
<1>2. PICK k : k = cmd[x.b]
  OBVIOUS
<1>3. /\ msgQ # <<>> /\ msgQ' = Tail(msgQ) /\ x.m = "done" /\ HasItem(cmd, x)
      /\ UNCHANGED engineVars /\ SameItems(cmd, cmd')
  BY <1>1, DoneParts
<1>4. \/ ~x.ok /\ UNCHANGED mapVars
      \/ x.ok /\ k.op = "add" /\ saveGeofenceItem(k.ids[x.i], x.hw, k.opt)
      \/ x.ok /\ k.op = "remove" /\ removeGeofenceItem(x.hw)
      \/ x.ok /\ k.op \in {"pause", "resume", "modify"} /\ changeItem(x.hw, k.op, k.opt)
  BY <1>1, <1>2, DoneMaps
<1>5. k.opt \in Opts /\ k.ids[x.i] \in Ids /\ (x.ok => x.hw \in HwIds) /\ MapsTyped
  BY <1>1, <1>2, <1>3, ItemParts, HeadMsg DEF Typed, GoodMsg
<1>6. \A hw, id : Gain(cmd, x, hw, id) <=> x.ok /\ k.op = "add" /\ x.hw = hw /\ k.ids[x.i] = id
  BY <1>2, <1>3 DEF Gain
<1>7. \A hw, id : Loss(cmd, x, hw, id) <=>
          /\ x.ok /\ x.hw = hw
          /\ k.op = "remove" \/ (k.op = "add" /\ k.ids[x.i] # id)
  BY <1>2, <1>3 DEF Loss
<1>8. /\ \A hw, id : Gain(cmd, x, hw, id) => hw \in DOMAIN fences' /\ fences'[hw].id = id
      /\ \A hw, id : (~Loss(cmd, x, hw, id) /\ hw \in DOMAIN fences /\ fences[hw].id = id)
             => hw \in DOMAIN fences' /\ fences'[hw].id = id
  <2>1. CASE ~x.ok /\ UNCHANGED mapVars
    BY <1>6, <2>1 DEF mapVars
  <2>2. CASE x.ok /\ k.op = "add" /\ saveGeofenceItem(k.ids[x.i], x.hw, k.opt)
    <3>1. /\ DOMAIN fences' = DOMAIN fences \cup {x.hw} /\ fences'[x.hw].id = k.ids[x.i]
          /\ \A g \in DOMAIN fences : g # x.hw => fences'[g] = fences[g]
      BY <1>5, <2>2, SaveTyped
    <3> QED
      BY <1>6, <1>7, <2>2, <3>1
  <2>3. CASE x.ok /\ k.op = "remove" /\ removeGeofenceItem(x.hw)
    <3>1. \A g \in DOMAIN fences : g # x.hw => g \in DOMAIN fences' /\ fences'[g] = fences[g]
      BY <1>5, <2>3, RemoveTyped
    <3> QED
      BY <1>6, <1>7, <2>3, <3>1
  <2>4. CASE x.ok /\ k.op \in {"pause", "resume", "modify"} /\ changeItem(x.hw, k.op, k.opt)
    <3>1. /\ DOMAIN fences' = DOMAIN fences
          /\ \A g \in DOMAIN fences : fences'[g].id = fences[g].id
      BY <1>5, <2>4, ChangeItemTyped
    <3> QED
      BY <1>6, <2>4, <3>1
  <2> QED
    BY <1>4, <2>1, <2>2, <2>3, <2>4
<1>9. engine' = engine
  BY <1>3 DEF engineVars
<1> QED
  BY <1>1, <1>3, <1>8, <1>9, KnownPop

LEMMA KnownReadded ==
    ASSUME Typed, Typed', Known, Readded
    PROVE  Known'
<1>1. PICK x : x = Head(msgQ)
  OBVIOUS
<1>2. /\ msgQ # <<>> /\ msgQ' = Tail(msgQ) /\ x.m = "readded"
      /\ UNCHANGED <<clients, owner, cmd, engineVars>>
      /\ x.old \in FenceRecord /\ x.ok \in BOOLEAN
      /\ x.ok => x.hw \in HwIds /\ saveGeofenceItem(x.old.id, x.hw, x.old.opt)
      /\ ~x.ok => UNCHANGED mapVars
  BY <1>1, ReaddedParts
<1>3. x.old.id \in Ids /\ x.old.opt \in Opts /\ MapsTyped
  BY <1>2, FenceParts DEF Typed
<1>4. \A hw, id : Gain(cmd, x, hw, id) <=> x.ok /\ x.hw = hw /\ x.old.id = id
  BY <1>2 DEF Gain
<1>5. \A hw, id : Loss(cmd, x, hw, id) <=> x.ok /\ x.hw = hw /\ x.old.id # id
  BY <1>2 DEF Loss
<1>6. /\ \A hw, id : Gain(cmd, x, hw, id) => hw \in DOMAIN fences' /\ fences'[hw].id = id
      /\ \A hw, id : (~Loss(cmd, x, hw, id) /\ hw \in DOMAIN fences /\ fences[hw].id = id)
             => hw \in DOMAIN fences' /\ fences'[hw].id = id
  <2>1. CASE ~x.ok
    BY <1>2, <1>4, <2>1 DEF mapVars
  <2>2. CASE x.ok
    <3>1. /\ DOMAIN fences' = DOMAIN fences \cup {x.hw} /\ fences'[x.hw].id = x.old.id
          /\ \A g \in DOMAIN fences : g # x.hw => fences'[g] = fences[g]
      BY <1>2, <1>3, <2>2, SaveTyped
    <3> QED
      BY <1>4, <1>5, <2>2, <3>1
  <2> QED
    BY <2>1, <2>2
<1>7. engine' = engine /\ SameItems(cmd, cmd')
  BY <1>2, SameItemsSelf DEF engineVars, Typed
<1> QED
  BY <1>1, <1>2, <1>6, <1>7, KnownPop

LEMMA KnownDropped ==
    ASSUME Typed, Typed', Known, Dropped
    PROVE  Known'
<1>1. PICK x : x = Head(msgQ)
  OBVIOUS
<1>2. /\ msgQ # <<>> /\ msgQ' = Tail(msgQ) /\ x.m = "dropped" /\ UNCHANGED <<cmd, engineVars>>
      /\ fences' = IF x.ok THEN Without(fences, x.hw) ELSE fences
  BY <1>1 DEF Dropped, Arrived
<1>3. \A hw, id : ~Gain(cmd, x, hw, id)
  BY <1>2 DEF Gain
<1>4. \A hw, id : Loss(cmd, x, hw, id) <=> x.ok /\ x.hw = hw
  BY <1>2 DEF Loss
<1>5. \A hw, id : (~Loss(cmd, x, hw, id) /\ hw \in DOMAIN fences /\ fences[hw].id = id)
             => hw \in DOMAIN fences' /\ fences'[hw].id = id
  BY <1>2, <1>4 DEF Without, Restrict
<1>6. engine' = engine /\ SameItems(cmd, cmd')
  BY <1>2, SameItemsSelf DEF engineVars, Typed
<1> QED
  BY <1>1, <1>2, <1>3, <1>5, <1>6, KnownPop

LEMMA KnownEngineUpMsg ==
    ASSUME Typed, Typed', Known, ProcEngineUp
    PROVE  Known'
<1>1. PICK x : x = Head(msgQ)
  OBVIOUS
<1>2. msgQ # <<>> /\ msgQ' = Tail(msgQ) /\ x.m = "engineUp" /\ UNCHANGED <<cmd, engineVars>>
  BY <1>1 DEF ProcEngineUp, Arrived
<1>3. \A hw, id : ~Gain(cmd, x, hw, id)
  BY <1>2 DEF Gain
<1>4. \A hw, id : Loss(cmd, x, hw, id)
  BY <1>2 DEF Loss
<1>5. engine' = engine /\ SameItems(cmd, cmd')
  BY <1>2, SameItemsSelf DEF engineVars, Typed
<1> QED
  BY <1>1, <1>2, <1>3, <1>4, <1>5, KnownPop

LEMMA KnownProc ==
    ASSUME Typed, Typed', Known, Proc
    PROVE  Known'
<1>1. SameItems(cmd, cmd)
  BY SameItemsSelf DEF Typed
<1>2. CASE ProcCommand
  <2>1. /\ msgQ # <<>> /\ msgQ' = Tail(msgQ) /\ Head(msgQ).m = "cmd" /\ cmd' = cmd
        /\ UNCHANGED <<engine, fences>>
    BY <1>2 DEF ProcCommand, Arrived, mapVars, engineVars
  <2> QED
    BY <1>1, <2>1, KnownPopOther
<1>3. CASE Lookup
  <2>1. /\ msgQ # <<>> /\ msgQ' = Tail(msgQ) /\ Head(msgQ).m = "lookup" /\ SameItems(cmd, cmd')
        /\ UNCHANGED <<mapVars, engineVars>>
    BY <1>3, LookupParts
  <2> QED
    BY <2>1, KnownPopOther DEF mapVars, engineVars
<1>4. CASE ProcLeave
  <2>1. /\ msgQ # <<>> /\ msgQ' = Tail(msgQ) /\ Head(msgQ).m = "leave" /\ cmd' = cmd
        /\ UNCHANGED <<engine, fences>>
    BY <1>4 DEF ProcLeave, Arrived, engineVars
  <2> QED
    BY <1>1, <2>1, KnownPopOther
<1>5. CASE ProcBreach
  <2>1. /\ msgQ # <<>> /\ msgQ' = Tail(msgQ) /\ Head(msgQ).m = "breach" /\ cmd' = cmd
        /\ UNCHANGED <<engine, fences>>
    BY <1>5 DEF ProcBreach, Arrived, mapVars, engineVars
  <2> QED
    BY <1>1, <2>1, KnownPopOther
<1> QED
  BY <1>2, <1>3, <1>4, <1>5, KnownDone, KnownDropped, KnownEngineUpMsg, KnownReadded DEF Proc

\* A message that says nothing of the maps, from an engine that stays as it is.
LEMMA KnownPushOther ==
    ASSUME Typed, Typed', Known, SameItems(cmd, cmd'), UNCHANGED <<fences, engine>>,
           NEW x \in Message, msgQ' = Append(msgQ, x),
           x.m \in {"cmd", "leave", "lookup"} \/ (x.m \in {"done", "readded", "dropped"} /\ ~x.ok)
    PROVE  Known'
<1>1. \A hw, id : ~Loss(cmd', x, hw, id)
  BY DEF Loss
<1>2. x.m # "breach"
  OBVIOUS
<1> QED
  BY <1>1, <1>2, KnownPush

LEMMA KnownEngineDo ==
    ASSUME Typed, Typed', Known, EngineDo
    PROVE  Known'
<1>1. PICK y : y = Head(apiQ)
  OBVIOUS
<1>2. PICK k : k = cmd[y.b]
  OBVIOUS
<1>3. /\ y.a = "do" /\ HasItem(cmd, y) /\ y \in Call
      /\ UNCHANGED <<mapVars, cmd, up>>
      /\ \/ /\ up /\ k.op = "add"
            /\ \E hw \in HwIds : /\ Add(k.ids[y.i], k.opt, hw)
                                 /\ Reply(DoneMsg(y, hw, TRUE))
         \/ /\ up /\ k.op \in {"remove", "pause", "resume", "modify"}
            /\ Change(k.op, y.hw, k.opt) /\ y.hw \in HwIds
            /\ Reply(DoneMsg(y, y.hw, TRUE))
         \/ Reply(DoneMsg(y, y.hw, FALSE)) /\ UNCHANGED <<engine, used>>
  BY <1>1, <1>2, EngineDoParts
<1>4. k.opt \in Opts /\ k.ids[y.i] \in Ids /\ EngineTyped
  BY <1>2, <1>3, ItemParts DEF Typed
<1>5. SameItems(cmd, cmd') /\ fences' = fences /\ cmd' = cmd
  BY <1>3, SameItemsSelf DEF Typed, mapVars
<1>6. ASSUME NEW hw \in HwIds, k.op = "add", Add(k.ids[y.i], k.opt, hw),
             Reply(DoneMsg(y, hw, TRUE))
      PROVE  Known'
  <2>1. PICK x : x = DoneMsg(y, hw, TRUE)
    OBVIOUS
  <2>2. /\ x \in Message /\ x.m = "done" /\ x.b = y.b /\ x.i = y.i /\ x.hw = hw /\ x.ok = TRUE
    <3>1. hw \in AnyHw /\ y.a = "do" /\ HasItem(cmd, y) /\ y \in Call
      BY <1>3 DEF AnyHw
    <3>2. /\ DoneMsg(y, hw, TRUE) \in Message /\ DoneMsg(y, hw, TRUE).m = "done"
          /\ DoneMsg(y, hw, TRUE).b = y.b /\ DoneMsg(y, hw, TRUE).i = y.i
          /\ DoneMsg(y, hw, TRUE).hw = hw /\ DoneMsg(y, hw, TRUE).ok = TRUE
      BY <3>1, DoneMsgTyped
    <3> QED
      BY <2>1, <3>2
  <2>3. msgQ' = Append(msgQ, x)
    BY <1>6, <2>1 DEF Reply
  <2>4. /\ hw \notin DOMAIN engine /\ DOMAIN engine' = DOMAIN engine \cup {hw}
        /\ engine'[hw].id = k.ids[y.i]
        /\ \A g \in DOMAIN engine : engine'[g] = engine[g]
    <3>1. PICK id, opt : id = k.ids[y.i] /\ opt = k.opt
      OBVIOUS
    <3>2. id \in Ids /\ opt \in Opts /\ Add(id, opt, hw) /\ EngineTyped
      BY <1>4, <1>6, <3>1
    <3>3. /\ hw \notin DOMAIN engine /\ DOMAIN engine' = DOMAIN engine \cup {hw}
          /\ engine'[hw].id = id
          /\ \A g \in DOMAIN engine : engine'[g] = engine[g]
      BY <3>2, AddTyped
    <3> QED
      BY <3>1, <3>3
  <2>5. Gain(cmd', x, hw, engine'[hw].id)
    BY <1>2, <1>5, <1>6, <2>2, <2>4 DEF Gain
  <2>6. \A g, id : g # hw => ~Loss(cmd', x, g, id)
    BY <2>2 DEF Loss
  <2>7. \A g \in DOMAIN engine' :
              \/ /\ g \in DOMAIN engine /\ engine'[g].id = engine[g].id
                 /\ ~Loss(cmd', x, g, engine[g].id)
              \/ Gain(cmd', x, g, engine'[g].id)
    BY <2>4, <2>5, <2>6
  <2> QED
    BY <1>5, <2>2, <2>3, <2>7, KnownPush
<1>7. ASSUME k.op \in {"remove", "pause", "resume", "modify"}, y.hw \in HwIds,
             Change(k.op, y.hw, k.opt), Reply(DoneMsg(y, y.hw, TRUE))
      PROVE  Known'
  <2>1. PICK x : x = DoneMsg(y, y.hw, TRUE)
    OBVIOUS
  <2>2. /\ x \in Message /\ x.m = "done" /\ x.b = y.b /\ x.i = y.i /\ x.hw = y.hw /\ x.ok = TRUE
    <3>1. y.hw \in AnyHw /\ y.a = "do" /\ HasItem(cmd, y) /\ y \in Call
      BY <1>3, <1>7 DEF AnyHw
    <3>2. /\ DoneMsg(y, y.hw, TRUE) \in Message /\ DoneMsg(y, y.hw, TRUE).m = "done"
          /\ DoneMsg(y, y.hw, TRUE).b = y.b /\ DoneMsg(y, y.hw, TRUE).i = y.i
          /\ DoneMsg(y, y.hw, TRUE).hw = y.hw /\ DoneMsg(y, y.hw, TRUE).ok = TRUE
      BY <3>1, <1>7, DoneMsgTyped
    <3> QED
      BY <2>1, <3>2
  <2>3. msgQ' = Append(msgQ, x)
    BY <1>7, <2>1 DEF Reply
  <2>4. /\ DOMAIN engine' \subseteq DOMAIN engine
        /\ k.op = "remove" => y.hw \notin DOMAIN engine'
        /\ \A g \in DOMAIN engine' : engine'[g].id = engine[g].id
    BY <1>4, <1>7, ChangeTyped
  <2>5. \A g, id : Loss(cmd', x, g, id) => g = y.hw /\ k.op = "remove"
    BY <1>2, <1>5, <1>7, <2>2 DEF Loss
  <2>6. \A g \in DOMAIN engine' :
              /\ g \in DOMAIN engine /\ engine'[g].id = engine[g].id
              /\ ~Loss(cmd', x, g, engine[g].id)
    BY <2>4, <2>5
  <2> QED
    BY <1>5, <2>2, <2>3, <2>6, KnownPush
<1>8. ASSUME Reply(DoneMsg(y, y.hw, FALSE)), UNCHANGED <<engine, used>>
      PROVE  Known'
  <2>1. PICK x : x = DoneMsg(y, y.hw, FALSE)
    OBVIOUS
  <2>2. x \in Message /\ x.m = "done" /\ x.ok = FALSE
    BY <1>3, <2>1, CallParts, DoneMsgTyped
  <2>3. msgQ' = Append(msgQ, x)
    BY <1>8, <2>1 DEF Reply
  <2> QED
    BY <1>5, <1>8, <2>2, <2>3, KnownPushOther
<1> QED
  BY <1>3, <1>6, <1>7, <1>8

LEMMA KnownEngineReadd ==
    ASSUME Typed, Typed', Known, EngineReadd
    PROVE  Known'
<1>1. PICK old : old = Head(apiQ).old
  OBVIOUS
<1>2. /\ old \in FenceRecord /\ UNCHANGED <<mapVars, cmd, up>>
      /\ \/ up /\ \E hw \in HwIds : /\ Add(old.id, old.opt, hw)
                                   /\ Reply(ReaddMsg(old, hw, TRUE))
         \/ Reply(ReaddMsg(old, 0, FALSE)) /\ UNCHANGED <<engine, used>>
  BY <1>1, EngineReaddParts
<1>3. old.id \in Ids /\ old.opt \in Opts /\ EngineTyped
  BY <1>2, FenceParts DEF Typed
<1>4. SameItems(cmd, cmd') /\ fences' = fences
  BY <1>2, SameItemsSelf DEF Typed, mapVars
<1>5. ASSUME NEW hw \in HwIds, Add(old.id, old.opt, hw), Reply(ReaddMsg(old, hw, TRUE))
      PROVE  Known'
  <2>1. PICK x : x = ReaddMsg(old, hw, TRUE)
    OBVIOUS
  <2>2. x \in Message /\ x.m = "readded" /\ x.old = old /\ x.hw = hw /\ x.ok = TRUE
    <3>1. hw \in AnyHw
      BY DEF AnyHw
    <3>2. /\ ReaddMsg(old, hw, TRUE) \in Message /\ ReaddMsg(old, hw, TRUE).m = "readded"
          /\ ReaddMsg(old, hw, TRUE).old = old /\ ReaddMsg(old, hw, TRUE).hw = hw
          /\ ReaddMsg(old, hw, TRUE).ok = TRUE
      BY <1>2, <3>1, ReaddMsgTyped
    <3> QED
      BY <2>1, <3>2
  <2>3. msgQ' = Append(msgQ, x)
    BY <1>5, <2>1 DEF Reply
  <2>4. /\ hw \notin DOMAIN engine /\ DOMAIN engine' = DOMAIN engine \cup {hw}
        /\ engine'[hw].id = old.id
        /\ \A g \in DOMAIN engine : engine'[g] = engine[g]
    <3>1. PICK id, opt : id = old.id /\ opt = old.opt
      OBVIOUS
    <3>2. id \in Ids /\ opt \in Opts /\ Add(id, opt, hw) /\ EngineTyped
      BY <1>3, <1>5, <3>1
    <3>3. /\ hw \notin DOMAIN engine /\ DOMAIN engine' = DOMAIN engine \cup {hw}
          /\ engine'[hw].id = id
          /\ \A g \in DOMAIN engine : engine'[g] = engine[g]
      BY <3>2, AddTyped
    <3> QED
      BY <3>1, <3>3
  <2>5. Gain(cmd', x, hw, engine'[hw].id)
    BY <2>2, <2>4 DEF Gain
  <2>6. \A g, id : g # hw => ~Loss(cmd', x, g, id)
    BY <2>2 DEF Loss
  <2>7. \A g \in DOMAIN engine' :
              \/ /\ g \in DOMAIN engine /\ engine'[g].id = engine[g].id
                 /\ ~Loss(cmd', x, g, engine[g].id)
              \/ Gain(cmd', x, g, engine'[g].id)
    BY <2>4, <2>5, <2>6
  <2> QED
    BY <1>4, <2>2, <2>3, <2>7, KnownPush
<1>6. ASSUME Reply(ReaddMsg(old, 0, FALSE)), UNCHANGED <<engine, used>>
      PROVE  Known'
  <2>1. PICK x : x = ReaddMsg(old, 0, FALSE)
    OBVIOUS
  <2>2. x \in Message /\ x.m = "readded" /\ x.ok = FALSE
    BY <1>2, <2>1, ReaddMsgTyped DEF AnyHw
  <2>3. msgQ' = Append(msgQ, x)
    BY <1>6, <2>1 DEF Reply
  <2> QED
    BY <1>4, <1>6, <2>2, <2>3, KnownPushOther
<1> QED
  BY <1>2, <1>5, <1>6

LEMMA KnownEngineDrop ==
    ASSUME Typed, Typed', Known, EngineDrop
    PROVE  Known'
<1>1. PICK hw : hw = Head(apiQ).hw
  OBVIOUS
<1>2. /\ hw \in HwIds /\ UNCHANGED <<mapVars, cmd, up>>
      /\ \/ up /\ Change("remove", hw, "none") /\ Reply(DropMsg(hw, TRUE))
         \/ Reply(DropMsg(hw, FALSE)) /\ UNCHANGED <<engine, used>>
  BY <1>1, EngineDropParts
<1>3. SameItems(cmd, cmd') /\ fences' = fences /\ EngineTyped
  BY <1>2, SameItemsSelf DEF Typed, mapVars
<1>4. ASSUME Change("remove", hw, "none"), Reply(DropMsg(hw, TRUE))
      PROVE  Known'
  <2>1. PICK x : x = DropMsg(hw, TRUE)
    OBVIOUS
  <2>2. x \in Message /\ x.m = "dropped" /\ x.hw = hw
    BY <1>2, <2>1, DropMsgTyped
  <2>3. msgQ' = Append(msgQ, x)
    BY <1>4, <2>1 DEF Reply
  <2>4. /\ DOMAIN engine' \subseteq DOMAIN engine /\ hw \notin DOMAIN engine'
        /\ \A g \in DOMAIN engine' : engine'[g].id = engine[g].id
    BY <1>3, <1>4, ChangeTyped
  <2>5. \A g, id : g # hw => ~Loss(cmd', x, g, id)
    BY <2>2 DEF Loss
  <2> QED
    BY <1>3, <2>2, <2>3, <2>4, <2>5, KnownPush
<1>5. ASSUME Reply(DropMsg(hw, FALSE)), UNCHANGED <<engine, used>>
      PROVE  Known'
  <2>1. PICK x : x = DropMsg(hw, FALSE)
    OBVIOUS
  <2>2. x \in Message /\ x.m = "dropped" /\ x.ok = FALSE
    BY <1>2, <2>1, DropMsgTyped
  <2>3. msgQ' = Append(msgQ, x)
    BY <1>5, <2>1 DEF Reply
  <2> QED
    BY <1>3, <1>5, <2>2, <2>3, KnownPushOther
<1> QED
  BY <1>2, <1>4, <1>5

LEMMA KnownEngineStep ==
    ASSUME Typed, Typed', Known, EngineStep \/ EngineDown
    PROVE  Known'
<1>1. SameItems(cmd, cmd)
  BY SameItemsSelf DEF Typed
<1>2. CASE EngineQueue
  <2>1. PICK x : x = [m |-> "lookup", b |-> Head(apiQ).b, i |-> Head(apiQ).i]
    OBVIOUS
  <2>2. x \in Message /\ Reply(x) /\ UNCHANGED <<mapVars, cmd, engineVars>>
    BY <1>2, <2>1, EngineQueueParts
  <2>3. x.m = "lookup"
    BY <2>1
  <2>4. msgQ' = Append(msgQ, x)
    BY <2>2 DEF Reply
  <2>5. UNCHANGED <<fences, engine>> /\ cmd' = cmd
    BY <2>2 DEF mapVars, engineVars
  <2> QED
    BY <1>1, <2>2, <2>3, <2>4, <2>5, KnownPushOther
<1>3. CASE EnginePause
  <2>1. /\ UNCHANGED <<fences, cmd, msgQ>> /\ DOMAIN engine' \subseteq DOMAIN engine
        /\ \A g \in DOMAIN engine' : engine'[g].id = engine[g].id
    BY <1>3, EnginePauseParts DEF mapVars
  <2> QED
    BY <2>1, KnownStay
<1>4. CASE EngineUp
  <2>1. PICK x : x = [m |-> "engineUp"]
    OBVIOUS
  <2>2. x \in Message /\ x.m = "engineUp"
    BY <2>1 DEF Message
  <2>3. msgQ' = Append(msgQ, x) /\ UNCHANGED <<fences, cmd, engine>> /\ ~up
    BY <1>4, <2>1 DEF EngineUp, mapVars
  <2>4. DOMAIN engine' = {}
    BY <2>3 DEF Typed, OthersTyped
  <2> QED
    BY <1>1, <2>2, <2>3, <2>4, KnownPush
<1>5. CASE EngineDown
  <2>1. UNCHANGED <<fences, cmd, msgQ>> /\ DOMAIN engine' = {}
    BY <1>5 DEF EngineDown, mapVars
  <2> QED
    BY <2>1, KnownStay
<1> QED
  BY <1>2, <1>3, <1>4, <1>5, KnownEngineDo, KnownEngineReadd, KnownEngineDrop DEF EngineStep

LEMMA KnownPost ==
    ASSUME Typed, Typed', Known, NEW op \in Ops, NEW c \in Clients, NEW list \in Seq(Ids),
           NEW opt \in Opts, Post(op, c, list, opt), UNCHANGED <<fences, engine>>
    PROVE  Known'
<1>1. PICK x : x = [m |-> "cmd", b |-> Len(cmd) + 1]
  OBVIOUS
<1>2. x \in Message /\ msgQ' = Append(msgQ, x) /\ SameItems(cmd, cmd')
  BY <1>1, PostTyped
<1>3. x.m = "cmd"
  BY <1>1
<1> QED
  BY <1>2, <1>3, KnownPushOther

LEMMA KnownLeave ==
    ASSUME Typed, Typed', Known, NEW c \in Clients, Leave(c)
    PROVE  Known'
<1>1. PICK x : x = [m |-> "leave", c |-> c]
  OBVIOUS
<1>2. msgQ' = Append(msgQ, x) /\ UNCHANGED <<fences, engine, cmd>>
  BY <1>1 DEF Leave, mapVars, engineVars
<1>3. x.m = "leave" /\ x \in Message
  BY <1>1 DEF Message
<1>4. SameItems(cmd, cmd')
  BY <1>2, SameItemsSelf DEF Typed
<1> QED
  BY <1>2, <1>3, <1>4, KnownPushOther

LEMMA KnownBreach ==
    ASSUME Typed, Typed', Known, NEW hw \in DOMAIN engine, Breach(hw)
    PROVE  Known'
<1>1. PICK x : x = [m |-> "breach", hw |-> hw, id |-> engine[hw].id]
  OBVIOUS
<1>2. msgQ' = Append(msgQ, x) /\ UNCHANGED <<fences, engine, cmd>>
  BY <1>1 DEF Breach, mapVars, engineVars
<1>3. x.m = "breach" /\ x.hw = hw /\ x.id = engine[hw].id
  BY <1>1
<1>4. x \in Message
  BY <1>1, FenceParts DEF Message, Typed, EngineTyped
<1>5. SameItems(cmd, cmd')
  BY <1>2, SameItemsSelf DEF Typed
<1>6. \A g, id : ~Loss(cmd', x, g, id)
  BY <1>3 DEF Loss
<1> QED
  BY <1>2, <1>3, <1>4, <1>5, <1>6, KnownPush

LEMMA KnownStep ==
    ASSUME Typed, Typed', Known, [Next]_vars
    PROVE  Known'
<1>1. CASE UNCHANGED vars
  BY <1>1, KnownStay DEF vars, mapVars, engineVars
<1>2. CASE Proc
  BY <1>2, KnownProc
<1>3. CASE EngineStep \/ EngineDown
  BY <1>3, KnownEngineStep
<1>4. ASSUME NEW c \in Clients, Leave(c) PROVE Known'
  BY <1>4, KnownLeave
<1>5. ASSUME NEW c \in Clients, NEW n \in AddCounts, addGeofencesCommand(c, n, FirstOpt)
      PROVE  Known'
  <2>1. PICK list : list = [i \in 1..n |-> Len(owner) + i]
    OBVIOUS
  <2>2. Post("add", c, list, FirstOpt) /\ UNCHANGED <<fences, engine>>
    BY <1>5, <2>1 DEF addGeofencesCommand, mapVars, engineVars
  <2>3. n \in Nat /\ Len(owner) \in Nat /\ Len(owner) + n <= MaxFences
    BY <1>5, NumbersAssumption DEF addGeofencesCommand, Typed, OthersTyped
  <2>4. \A i \in 1..n : Len(owner) + i \in Ids
    BY <2>3, Numbers DEF Ids
  <2>5. list \in Seq(Ids)
    BY <2>1, <2>3, <2>4
  <2>6. "add" \in Ops
    BY DEF Ops
  <2> QED
    BY <2>2, <2>5, <2>6, Numbers, KnownPost
<1>6. ASSUME NEW c \in Clients, NEW list \in Lists, NEW op \in {"remove", "pause", "resume", "modify"},
             NEW opt \in Opts, otherCommand(op, c, list, opt)
      PROVE  Known'
  <2>1. Post(op, c, list, opt) /\ UNCHANGED <<fences, engine>>
    BY <1>6 DEF otherCommand, mapVars, engineVars
  <2>2. list \in Seq(Ids) /\ op \in Ops
    BY ListTyped DEF Typed, Ops
  <2> QED
    BY <2>1, <2>2, KnownPost
<1>7. ASSUME NEW hw \in DOMAIN engine, Breach(hw) PROVE Known'
  BY <1>7, KnownBreach
<1> QED
  BY <1>1, <1>2, <1>3, <1>4, <1>5, <1>6, <1>7, Numbers DEF Next

LEMMA KnownInit == Init => Known
<1> SUFFICES ASSUME Init PROVE Known
  OBVIOUS
<1>1. DOMAIN engine = {} /\ Len(msgQ) = 0
  BY DEF Init
<1> QED
  BY <1>1 DEF Known, EngineIsKnown, BreachesAreKnown

\* A breach is reported for the geofence that was crossed (geofenceBreach): when its
\* message comes up the adapter has the hardware id as that of the same geofence, for any
\* number of clients, geofences, commands and restarts, whatever the engine refuses and
\* though it hands out a hardware id again.
THEOREM BreachIsKnownAlways == Spec => []BreachIsKnown
<1>1. Init => Typed /\ Known
  BY TypedInit, KnownInit
<1>2. (Typed /\ Known) /\ [Next]_vars => (Typed /\ Known)'
  BY TypedStep, KnownStep
<1>3. Typed /\ Known => BreachIsKnown
  <2> SUFFICES ASSUME Typed, Known, Arrived("breach")
               PROVE  LET b == Head(msgQ) IN b.hw \in DOMAIN fences /\ fences[b.hw].id = b.id
    BY DEF BreachIsKnown
  <2>1. msgQ # <<>> /\ Head(msgQ).m = "breach" /\ Head(msgQ) = msgQ[1] /\ 1 \in 1..Len(msgQ)
    BY PopParts DEF Arrived, Typed, MsgsTyped
  <2>2. Knows(fences, cmd, msgQ, msgQ[1].hw, msgQ[1].id, 1 - 1)
    BY <2>1 DEF Known, BreachesAreKnown
  <2>3. 1..(1 - 1) = {}
    OBVIOUS
  <2> QED
    BY <2>1, <2>2, <2>3 DEF Knows
<1> QED
  BY <1>1, <1>2, <1>3, PTL DEF Spec

-----------------------------------------------------------------------------
(* How items travel: through the call queue (1) to a lookup (2), through the *)
(* call queue again (3) to the engine's answer (4).  Queues keep the order,  *)
(* so that the last item of a command, which reports it, is behind all its   *)
(* others; and it is there until it does.                                    *)

\* At place n of its queue stage s has item i of command b; q holds messages, r calls.
At(q, r, s, n, b, i) ==
    \/ s = 1 /\ n \in 1..Len(r) /\ r[n].a = "queue" /\ r[n].b = b /\ r[n].i = i
    \/ s = 2 /\ n \in 1..Len(q) /\ q[n].m = "lookup" /\ q[n].b = b /\ q[n].i = i
    \/ s = 3 /\ n \in 1..Len(r) /\ r[n].a = "do" /\ r[n].b = b /\ r[n].i = i
    \/ s = 4 /\ n \in 1..Len(q) /\ q[n].m = "done" /\ q[n].b = b /\ q[n].i = i

\* The message x at place n is at stage s with item i of command b.
Sent(x, len, s, n, b, i) ==
    /\ n = len + 1 /\ x.b = b /\ x.i = i
    /\ (s = 2 /\ x.m = "lookup") \/ (s = 4 /\ x.m = "done")

\* The same of the call y.
Called(y, len, s, n, b, i) ==
    /\ n = len + 1 /\ y.b = b /\ y.i = i
    /\ (s = 1 /\ y.a = "queue") \/ (s = 3 /\ y.a = "do")

Ahead(s, n, s2, n2) == s > s2 \/ (s = s2 /\ n < n2)

\* The command itself waits in the queue.
Waits(q, b) == \E n \in 1..Len(q) : q[n].m = "cmd" /\ q[n].b = b

\* No item is behind the last of its command.
LastIsLast(k, q, r) ==
    \A b \in 1..Len(k), s, s2 \in 1..4, n, n2 \in Nat \ {0}, i \in Nat :
        /\ At(q, r, s, n, b, i) /\ At(q, r, s2, n2, b, Len(k[b].ids))
        /\ ~(s = s2 /\ n = n2)
        => Ahead(s, n, s2, n2)

\* An item's command is open.
ItemsAreLive(k, q, r) ==
    \A b \in 1..Len(k), s \in 1..4, n \in Nat \ {0}, i \in Nat :
        At(q, r, s, n, b, i) => k[b].live

\* A command that waits does so once, and none of its items is under way.
WaitsOnce(k, q, r) ==
    \A n \in 1..Len(q) : q[n].m = "cmd" =>
        /\ k[q[n].b].live
        /\ \A p \in 1..Len(q) : q[p].m = "cmd" /\ q[p].b = q[n].b => p = n
        /\ \A s \in 1..4, p \in Nat \ {0}, i \in Nat : ~At(q, r, s, p, q[n].b, i)

\* An open command waits or its last item is under way, but for a resume.
OpenIsUnderWay(k, q, r) ==
    \A b \in 1..Len(k) : k[b].live /\ k[b].op # "resume" =>
        \/ Waits(q, b)
        \/ \E s \in 1..4, n \in Nat \ {0} : At(q, r, s, n, b, Len(k[b].ids))

\* Only an addition is about several geofences.
OneItem(k) ==
    \A b \in 1..Len(k) : Len(k[b].ids) >= 1 /\ (k[b].op # "add" => Len(k[b].ids) = 1)

Flow(k, q, r) ==
    /\ LastIsLast(k, q, r) /\ ItemsAreLive(k, q, r) /\ WaitsOnce(k, q, r)
    /\ OpenIsUnderWay(k, q, r) /\ OneItem(k)

\* An item under way is one of its command's.
LEMMA AtTyped ==
    ASSUME NEW k \in Seq(Command), NEW q \in Seq(Message), NEW r \in Seq(Call),
           \A n \in 1..Len(q) : GoodMsg(k, q[n]), \A n \in 1..Len(r) : GoodCall(k, r[n]),
           NEW s, NEW n, NEW b, NEW i, At(q, r, s, n, b, i)
    PROVE  /\ s \in 1..4 /\ n \in Nat \ {0} /\ b \in 1..Len(k)
           /\ i \in 1..Len(k[b].ids) /\ i \in Nat
<1>1. b \in 1..Len(k) /\ i \in 1..Len(k[b].ids)
  BY DEF At, GoodMsg, GoodCall, HasItem
<1>2. s \in 1..4 /\ n \in Nat \ {0}
  BY DEF At
<1> QED
  BY <1>1, <1>2

\* One queue loses its first or gets another element.
LEMMA AtPopMsg ==
    ASSUME NEW q \in Seq(Message), q # <<>>, NEW r, NEW s \in 1..4, NEW n \in Nat \ {0},
           NEW b, NEW i
    PROVE  At(Tail(q), r, s, n, b, i) <=>
               At(q, r, s, IF s \in {2, 4} THEN n + 1 ELSE n, b, i)
<1>1. PICK t : t = Tail(q)
  OBVIOUS
<1>2. Len(t) = Len(q) - 1 /\ Len(q) \in Nat /\ \A j \in 1..Len(t) : t[j] = q[j + 1]
  BY <1>1, PopParts
<1>3. n \in 1..Len(t) <=> n + 1 \in 1..Len(q)
  BY <1>2
<1> QED
  BY <1>1, <1>2, <1>3 DEF At

LEMMA AtPopCall ==
    ASSUME NEW r \in Seq(Call), r # <<>>, NEW q, NEW s \in 1..4, NEW n \in Nat \ {0},
           NEW b, NEW i
    PROVE  At(q, Tail(r), s, n, b, i) <=>
               At(q, r, s, IF s \in {1, 3} THEN n + 1 ELSE n, b, i)
<1>1. PICK t : t = Tail(r)
  OBVIOUS
<1>2. Len(t) = Len(r) - 1 /\ Len(r) \in Nat /\ \A j \in 1..Len(t) : t[j] = r[j + 1]
  BY <1>1, PopParts
<1>3. n \in 1..Len(t) <=> n + 1 \in 1..Len(r)
  BY <1>2
<1> QED
  BY <1>1, <1>2, <1>3 DEF At

LEMMA AtPushMsg ==
    ASSUME NEW q \in Seq(Message), NEW x \in Message, NEW r, NEW s \in 1..4, NEW n \in Nat \ {0},
           NEW b, NEW i
    PROVE  At(Append(q, x), r, s, n, b, i) <=>
               \/ At(q, r, s, n, b, i)
               \/ /\ n = Len(q) + 1 /\ x.b = b /\ x.i = i
                  /\ (s = 2 /\ x.m = "lookup") \/ (s = 4 /\ x.m = "done")
<1>1. PICK t : t = Append(q, x)
  OBVIOUS
<1>2. /\ Len(t) = Len(q) + 1 /\ Len(q) \in Nat /\ t[Len(q) + 1] = x
      /\ \A j \in 1..Len(q) : t[j] = q[j]
  BY <1>1, PushParts
<1>3. n \in 1..Len(t) <=> n \in 1..Len(q) \/ n = Len(q) + 1
  BY <1>2
<1>4. n \in 1..Len(q) => n # Len(q) + 1
  BY <1>2
<1> QED
  BY <1>1, <1>2, <1>3, <1>4 DEF At

LEMMA AtPushCall ==
    ASSUME NEW r \in Seq(Call), NEW y \in Call, NEW q, NEW s \in 1..4, NEW n \in Nat \ {0},
           NEW b, NEW i
    PROVE  At(q, Append(r, y), s, n, b, i) <=>
               \/ At(q, r, s, n, b, i)
               \/ /\ n = Len(r) + 1 /\ y.b = b /\ y.i = i
                  /\ (s = 1 /\ y.a = "queue") \/ (s = 3 /\ y.a = "do")
<1>1. PICK t : t = Append(r, y)
  OBVIOUS
<1>2. /\ Len(t) = Len(r) + 1 /\ Len(r) \in Nat /\ t[Len(r) + 1] = y
      /\ \A j \in 1..Len(r) : t[j] = r[j]
  BY <1>1, PushParts
<1>3. n \in 1..Len(t) <=> n \in 1..Len(r) \/ n = Len(r) + 1
  BY <1>2
<1>4. n \in 1..Len(r) => n # Len(r) + 1
  BY <1>2
<1> QED
  BY <1>1, <1>2, <1>3, <1>4 DEF At

\* Every item under way was so before, in its queue d[s] places further back, but for the
\* first of stage S, which may have gone on to the end of the next.
CameFrom(q, r, q2, r2, d, S, N) ==
    \A s \in 1..4, n \in Nat \ {0}, b \in Nat, i \in Nat : At(q2, r2, s, n, b, i) =>
        \/ At(q, r, s, n + d[s], b, i)
        \/ /\ s = S + 1 /\ n = N /\ S \in 1..3 /\ d[S] = 1 /\ d[S + 1] = 0
           /\ At(q, r, S, 1, b, i)
           /\ \A p \in Nat \ {0}, c \in Nat, j \in Nat : At(q, r, S + 1, p, c, j) => p < N

LEMMA OrderKept ==
    ASSUME NEW k \in Seq(Command), NEW k2 \in Seq(Command), SameItems(k, k2),
           NEW q, NEW r, NEW q2, NEW r2, NEW d \in [1..4 -> {0, 1}], NEW S \in 0..3, NEW N \in Nat,
           CameFrom(q, r, q2, r2, d, S, N),
           \A s \in 1..4, n \in Nat \ {0}, b \in Nat, i \in Nat : At(q, r, s, n, b, i) =>
               b \in 1..Len(k),
           LastIsLast(k, q, r)
    PROVE  LastIsLast(k2, q2, r2)
<1> SUFFICES ASSUME NEW b \in 1..Len(k2), NEW s \in 1..4, NEW s2 \in 1..4,
                    NEW n \in Nat \ {0}, NEW n2 \in Nat \ {0}, NEW i \in Nat,
                    At(q2, r2, s, n, b, i), At(q2, r2, s2, n2, b, Len(k2[b].ids)),
                    ~(s = s2 /\ n = n2)
             PROVE  Ahead(s, n, s2, n2)
  BY ZenonT(30) DEF LastIsLast
<1>1. PICK l : l = Len(k2[b].ids)
  OBVIOUS
<1>2. b \in Nat /\ l \in Nat
  BY SMTT(30), <1>1, CommandParts
<1>3. d[s] \in {0, 1} /\ d[s2] \in {0, 1}
  OBVIOUS
<1>4. n + d[s] \in Nat \ {0} /\ n2 + d[s2] \in Nat \ {0}
  <2>1. \A e \in {0, 1} : n + e \in Nat \ {0} /\ n2 + e \in Nat \ {0}
    OBVIOUS
  <2> QED
    BY <1>3, <2>1
<1>5. \/ At(q, r, s, n + d[s], b, i)
      \/ /\ s = S + 1 /\ n = N /\ S \in 1..3 /\ d[S] = 1 /\ d[S + 1] = 0
         /\ At(q, r, S, 1, b, i)
         /\ \A p \in Nat \ {0}, c \in Nat, j \in Nat : At(q, r, S + 1, p, c, j) => p < N
  BY <1>2 DEF CameFrom
<1>6. \/ At(q, r, s2, n2 + d[s2], b, l)
      \/ /\ s2 = S + 1 /\ n2 = N /\ S \in 1..3 /\ d[S] = 1 /\ d[S + 1] = 0
         /\ At(q, r, S, 1, b, l)
         /\ \A p \in Nat \ {0}, c \in Nat, j \in Nat : At(q, r, S + 1, p, c, j) => p < N
  BY <1>1, <1>2 DEF CameFrom
<1>7. b \in 1..Len(k)
  <2>1. CASE At(q, r, s, n + d[s], b, i)
    BY <1>2, <1>4, <2>1
  <2>2. CASE S \in 1..3 /\ At(q, r, S, 1, b, i)
    BY <1>2, <2>2
  <2> QED
    BY <1>5, <2>1, <2>2
<1>8. Len(k[b].ids) = l
  BY <1>1, <1>7 DEF SameItems
<1>9. \A t, t2 \in 1..4, p, p2 \in Nat \ {0} :
          At(q, r, t, p, b, i) /\ At(q, r, t2, p2, b, l) /\ ~(t = t2 /\ p = p2)
              => Ahead(t, p, t2, p2)
  BY <1>7, <1>8 DEF LastIsLast
<1>10. CASE At(q, r, s, n + d[s], b, i) /\ At(q, r, s2, n2 + d[s2], b, l)
  <2>1. ~(s = s2 /\ n + d[s] = n2 + d[s2])
    BY <1>3
  <2>2. Ahead(s, n + d[s], s2, n2 + d[s2])
    BY <1>4, <1>9, <1>10, <2>1
  <2> QED
    BY <1>3, <2>2 DEF Ahead
<1>11. CASE /\ s = S + 1 /\ n = N /\ S \in 1..3 /\ d[S] = 1 /\ At(q, r, S, 1, b, i)
            /\ At(q, r, s2, n2 + d[s2], b, l)
  <2>1. ~(S = s2 /\ 1 = n2 + d[s2])
    BY <1>11
  <2>2. Ahead(S, 1, s2, n2 + d[s2])
    BY SMTT(30), <1>4, <1>9, <1>11, <2>1
  <2> QED
    BY <1>11, <2>2 DEF Ahead
<1>12. CASE /\ At(q, r, s, n + d[s], b, i)
            /\ s2 = S + 1 /\ n2 = N /\ S \in 1..3 /\ d[S] = 1 /\ d[S + 1] = 0
            /\ At(q, r, S, 1, b, l)
            /\ \A p \in Nat \ {0}, c \in Nat, j \in Nat : At(q, r, S + 1, p, c, j) => p < N
  <2>1. ~(s = S /\ n + d[s] = 1)
    BY <1>12
  <2>2. Ahead(s, n + d[s], S, 1)
    BY SMTT(30), <1>4, <1>9, <1>12, <2>1
  <2>3. s > S
    BY <1>4, <2>2 DEF Ahead
  <2>4. CASE s = S + 1
    <3>1. n + d[s] < N /\ d[s] = 0
      BY <1>2, <1>4, <1>12, <2>4
    <3> QED
      BY <1>12, <2>4, <3>1 DEF Ahead
  <2>5. CASE s # S + 1
    BY <1>12, <2>3, <2>5 DEF Ahead
  <2> QED
    BY <2>4, <2>5
<1> QED
  BY <1>5, <1>6, <1>10, <1>11, <1>12

\* No message is added to wait; those that wait have moved up.
WaitedBefore(q, q2, e) ==
    \A n \in 1..Len(q2) : q2[n].m = "cmd" => n + e \in 1..Len(q) /\ q[n + e] = q2[n]

FlowTyped(k, q, r) ==
    /\ k \in Seq(Command) /\ q \in Seq(Message) /\ r \in Seq(Call)
    /\ \A n \in 1..Len(q) : GoodMsg(k, q[n])
    /\ \A n \in 1..Len(r) : GoodCall(k, r[n])

\* No command but b0 (if there is such) is closed, and b0 has no item under way any more.
Closes(k, k2, q, q2, r2, b0) ==
    /\ b0 \in Nat
    /\ \A b \in 1..Len(k) : b # b0 => k2[b].live = k[b].live
    /\ b0 \in 1..Len(k) => /\ ~k2[b0].live /\ ~Waits(q, b0)
                           /\ \A s \in 1..4, n \in Nat \ {0}, i \in Nat : ~At(q2, r2, s, n, b0, i)

\* What waits goes on waiting, and a last item goes on, but for that of b0 or a resume.
GoesOn(k, q, r, q2, r2, b0) ==
    /\ \A b \in 1..Len(k) : Waits(q, b) => Waits(q2, b)
    /\ \A b \in 1..Len(k), s \in 1..4, n \in Nat \ {0} :
           At(q, r, s, n, b, Len(k[b].ids)) /\ b # b0 /\ k[b].op # "resume" =>
               \E s2 \in 1..4, n2 \in Nat \ {0} : At(q2, r2, s2, n2, b, Len(k[b].ids))

Shifts(d) == d \in [1..4 -> {0, 1}] /\ d[2] = d[4]

\* A step in which items move on, and command b0 (if there is such) is closed.
LEMMA FlowKept ==
    ASSUME NEW k, NEW k2, SameItems(k, k2), Len(k2) = Len(k),
           NEW q, NEW r, NEW q2, NEW r2, FlowTyped(k, q, r), FlowTyped(k2, q2, r2),
           NEW d, Shifts(d), NEW S \in 0..3, NEW N \in Nat, NEW b0,
           CameFrom(q, r, q2, r2, d, S, N), WaitedBefore(q, q2, d[2]),
           Closes(k, k2, q, q2, r2, b0), GoesOn(k, q, r, q2, r2, b0),
           Flow(k, q, r)
    PROVE  Flow(k2, q2, r2)
<1>0. /\ k \in Seq(Command) /\ q \in Seq(Message) /\ r \in Seq(Call)
      /\ \A n \in 1..Len(q) : GoodMsg(k, q[n])
      /\ \A n \in 1..Len(r) : GoodCall(k, r[n])
      /\ k2 \in Seq(Command) /\ q2 \in Seq(Message)
      /\ d \in [1..4 -> {0, 1}] /\ d[2] = d[4]
  BY DEF FlowTyped, Shifts
<1>1. \A b \in 1..Len(k) : k2[b].op = k[b].op /\ k2[b].ids = k[b].ids
  BY DEF SameItems
<1>2. /\ LastIsLast(k, q, r) /\ ItemsAreLive(k, q, r) /\ WaitsOnce(k, q, r)
      /\ OpenIsUnderWay(k, q, r) /\ OneItem(k)
  BY DEF Flow
<1>3. \A s \in 1..4, n \in Nat \ {0}, b \in Nat, i \in Nat : At(q, r, s, n, b, i) => b \in 1..Len(k)
  BY <1>0, AtTyped
<1>4. LastIsLast(k2, q2, r2)
  BY <1>0, <1>2, <1>3, OrderKept
<1>5. OneItem(k2)
  BY <1>1, <1>2 DEF OneItem
<1>6. ASSUME NEW b \in 1..Len(k), NEW s \in 1..4, NEW n \in Nat \ {0}, NEW i \in Nat,
             At(q2, r2, s, n, b, i)
      PROVE  \E s1 \in 1..4, n1 \in Nat \ {0} : At(q, r, s1, n1, b, i)
  <2>1. PICK e \in {0, 1} : e = d[s]
    BY <1>0
  <2>2. n + e \in Nat \ {0} /\ b \in Nat
    BY <2>1
  <2>3. \/ At(q, r, s, n + d[s], b, i)
        \/ S \in 1..3 /\ At(q, r, S, 1, b, i)
    BY <1>6, <2>2 DEF CameFrom
  <2>4. CASE At(q, r, s, n + d[s], b, i)
    BY <2>1, <2>2, <2>4
  <2>5. CASE S \in 1..3 /\ At(q, r, S, 1, b, i)
    BY <2>5
  <2> QED
    BY <2>3, <2>4, <2>5
<1>7. ItemsAreLive(k2, q2, r2)
  <2> SUFFICES ASSUME NEW b \in 1..Len(k), NEW s \in 1..4, NEW n \in Nat \ {0}, NEW i \in Nat,
                      At(q2, r2, s, n, b, i)
               PROVE  k2[b].live
    BY DEF ItemsAreLive
  <2>1. b # b0
    BY DEF Closes
  <2>2. k[b].live
    BY <1>2, <1>6 DEF ItemsAreLive
  <2> QED
    BY <2>1, <2>2 DEF Closes
<1>8. WaitsOnce(k2, q2, r2)
  <2> SUFFICES ASSUME NEW n \in 1..Len(q2), q2[n].m = "cmd"
               PROVE  /\ k2[q2[n].b].live
                      /\ \A p \in 1..Len(q2) : q2[p].m = "cmd" /\ q2[p].b = q2[n].b => p = n
                      /\ \A s \in 1..4, p \in Nat \ {0}, i \in Nat : ~At(q2, r2, s, p, q2[n].b, i)
    BY DEF WaitsOnce
  <2>1. PICK b : b = q2[n].b
    OBVIOUS
  <2>2. PICK e \in {0, 1} : e = d[2]
    BY <1>0
  <2>3. n + e \in 1..Len(q) /\ q[n + e] = q2[n]
    BY <2>2 DEF WaitedBefore
  <2>4. q[n + e].m = "cmd" /\ q[n + e].b = b
    BY <2>1, <2>3
  <2>5. /\ k[b].live
        /\ \A p \in 1..Len(q) : q[p].m = "cmd" /\ q[p].b = b => p = n + e
        /\ \A s \in 1..4, p \in Nat \ {0}, i \in Nat : ~At(q, r, s, p, b, i)
    BY <1>2, <2>3, <2>4 DEF WaitsOnce
  <2>6. b \in 1..Len(k)
    BY <1>0, <2>3, <2>4 DEF GoodMsg
  <2>7. Waits(q, b)
    BY <2>3, <2>4 DEF Waits
  <2>8. b # b0
    BY <2>6, <2>7 DEF Closes
  <2>9. \A p \in 1..Len(q2) : q2[p].m = "cmd" /\ q2[p].b = b => p = n
    <3> SUFFICES ASSUME NEW p \in 1..Len(q2), q2[p].m = "cmd", q2[p].b = b
                 PROVE  p = n
      OBVIOUS
    <3>1. p + e \in 1..Len(q) /\ q[p + e] = q2[p]
      BY <2>2 DEF WaitedBefore
    <3>2. p + e = n + e
      BY <2>5, <3>1
    <3> QED
      BY <3>2
  <2>10. \A s \in 1..4, p \in Nat \ {0}, i \in Nat : ~At(q2, r2, s, p, b, i)
    BY <1>6, <2>5, <2>6
  <2> QED
    BY <2>1, <2>5, <2>6, <2>8, <2>9, <2>10 DEF Closes
<1>9. OpenIsUnderWay(k2, q2, r2)
  <2> SUFFICES ASSUME NEW b \in 1..Len(k), k2[b].live, k2[b].op # "resume"
               PROVE  \/ Waits(q2, b)
                      \/ \E s \in 1..4, n \in Nat \ {0} : At(q2, r2, s, n, b, Len(k2[b].ids))
    BY DEF OpenIsUnderWay
  <2>1. b # b0 /\ k[b].live /\ k[b].op # "resume" /\ k2[b].ids = k[b].ids
    BY <1>1 DEF Closes
  <2>2. \/ Waits(q, b)
        \/ \E s \in 1..4, n \in Nat \ {0} : At(q, r, s, n, b, Len(k[b].ids))
    BY <1>2, <2>1 DEF OpenIsUnderWay
  <2> QED
    BY <2>1, <2>2 DEF GoesOn
<1> QED
  BY <1>4, <1>5, <1>7, <1>8, <1>9 DEF Flow

\* A message that is about no command goes, or one that is no command or item comes.
LEMMA FlowPopOther ==
    ASSUME NEW k, NEW q, NEW r, FlowTyped(k, q, r), q # <<>>,
           Head(q).m \notin {"cmd", "lookup", "done"}, Flow(k, q, r)
    PROVE  Flow(k, Tail(q), r)
<1>1. PICK d : d = [s \in 1..4 |-> IF s \in {2, 4} THEN 1 ELSE 0]
  OBVIOUS
<1>2. d \in [1..4 -> {0, 1}] /\ d[2] = d[4] /\ d[2] = 1
  BY <1>1
<1>3. /\ k \in Seq(Command) /\ q \in Seq(Message) /\ r \in Seq(Call)
      /\ \A n \in 1..Len(q) : GoodMsg(k, q[n])
      /\ \A n \in 1..Len(r) : GoodCall(k, r[n])
  BY DEF FlowTyped
<1>4. PICK q2 : q2 = Tail(q)
  OBVIOUS
<1>5. /\ q2 \in Seq(Message) /\ Len(q2) = Len(q) - 1 /\ Head(q) = q[1] /\ Len(q) \in Nat \ {0}
      /\ \A n \in 1..Len(q2) : q2[n] = q[n + 1] /\ n + 1 \in 1..Len(q)
  BY <1>3, <1>4, PopParts
<1>6. \A b, i : \A s \in 1..4, n \in Nat \ {0} :
          At(q2, r, s, n, b, i) <=> At(q, r, s, n + d[s], b, i)
  <2> SUFFICES ASSUME NEW s \in 1..4, NEW n \in Nat \ {0}, NEW b, NEW i
               PROVE  At(q2, r, s, n, b, i) <=> At(q, r, s, n + d[s], b, i)
    OBVIOUS
  <2>1. n + d[s] = IF s \in {2, 4} THEN n + 1 ELSE n
    BY <1>1
  <2>2. At(q2, r, s, n, b, i) <=> At(q, r, s, IF s \in {2, 4} THEN n + 1 ELSE n, b, i)
    BY <1>3, <1>4, AtPopMsg
  <2> QED
    BY <2>1, <2>2
<1>7. CameFrom(q, r, q2, r, d, 0, 0)
  BY <1>6 DEF CameFrom
<1>8. WaitedBefore(q, q2, d[2])
  BY <1>2, <1>5 DEF WaitedBefore
<1>9. \A b : Waits(q, b) => Waits(q2, b)
  <2> SUFFICES ASSUME NEW b, NEW n \in 1..Len(q), q[n].m = "cmd", q[n].b = b
               PROVE  Waits(q2, b)
    BY DEF Waits
  <2>1. n # 1
    BY <1>5
  <2>2. n - 1 \in 1..Len(q2) /\ q2[n - 1] = q[n]
    BY <1>5, <2>1
  <2> QED
    BY <2>2 DEF Waits
<1>10. ASSUME NEW b \in 1..Len(k), NEW s \in 1..4, NEW n \in Nat \ {0},
              At(q, r, s, n, b, Len(k[b].ids))
       PROVE  \E s2 \in 1..4, n2 \in Nat \ {0} : At(q2, r, s2, n2, b, Len(k[b].ids))
  <2>1. CASE s \in {1, 3}
    <3>1. d[s] = 0 /\ n + d[s] = n
      BY <1>1, <2>1
    <3> QED
      BY <1>6, <1>10, <3>1
  <2>2. CASE s \in {2, 4}
    <3>1. n # 1
      BY <1>5, <1>10, <2>2 DEF At
    <3>2. n - 1 \in Nat \ {0} /\ (n - 1) + d[s] = n
      BY <1>1, <2>2, <3>1
    <3> QED
      BY <1>6, <1>10, <3>2
  <2> QED
    BY <2>1, <2>2
<1>11. SameItems(k, k)
  BY <1>3 DEF SameItems
<1>12. Closes(k, k, q, q2, r, 0)
  BY DEF Closes
<1>13. GoesOn(k, q, r, q2, r, 0)
  BY <1>9, <1>10 DEF GoesOn
<1>14. FlowTyped(k, q2, r) /\ Shifts(d)
  BY <1>2, <1>3, <1>5 DEF FlowTyped, Shifts
<1>15. Flow(k, q2, r)
  BY <1>7, <1>8, <1>11, <1>12, <1>13, <1>14, FlowKept
<1> QED
  BY <1>4, <1>15

\* Nothing that counts comes or goes, but other messages and calls may come.
LEMMA FlowSame ==
    ASSUME NEW k, NEW q, NEW r, NEW q2, NEW r2, FlowTyped(k, q, r), FlowTyped(k, q2, r2),
           \A b, i : \A s \in 1..4, n \in Nat \ {0} :
               At(q2, r2, s, n, b, i) <=> At(q, r, s, n, b, i),
           \A n \in 1..Len(q) : n \in 1..Len(q2) /\ q2[n] = q[n],
           \A n \in 1..Len(q2) : q2[n].m = "cmd" => n \in 1..Len(q),
           Flow(k, q, r)
    PROVE  Flow(k, q2, r2)
<1>1. PICK d : d = [s \in 1..4 |-> 0]
  OBVIOUS
<1>2. Shifts(d) /\ \A s \in 1..4 : d[s] = 0
  BY <1>1 DEF Shifts
<1>3. ASSUME NEW s \in 1..4, NEW n \in Nat \ {0}, NEW b \in Nat, NEW i \in Nat,
             At(q2, r2, s, n, b, i)
      PROVE  At(q, r, s, n + d[s], b, i)
  <2>1. n + d[s] = n
    BY <1>2
  <2> QED
    BY <1>3, <2>1
<1>4. CameFrom(q, r, q2, r2, d, 0, 0)
  BY <1>3 DEF CameFrom
<1>5. WaitedBefore(q, q2, d[2])
  <2>1. \A n \in 1..Len(q2) : n + d[2] = n
    BY <1>2
  <2> QED
    BY <2>1 DEF WaitedBefore
<1>6. Closes(k, k, q, q2, r2, 0) /\ SameItems(k, k)
  BY DEF Closes, SameItems, FlowTyped
<1>7. GoesOn(k, q, r, q2, r2, 0)
  BY DEF GoesOn, Waits
<1> QED
  BY <1>2, <1>4, <1>5, <1>6, <1>7, FlowKept

LEMMA FlowPushOther ==
    ASSUME NEW k, NEW q, NEW r, FlowTyped(k, q, r), NEW x \in Message,
           x.m \notin {"cmd", "lookup", "done"}, Flow(k, q, r), FlowTyped(k, Append(q, x), r)
    PROVE  Flow(k, Append(q, x), r)
<1>1. q \in Seq(Message)
  BY DEF FlowTyped
<1>2. \A b, i : \A s \in 1..4, n \in Nat \ {0} :
          At(Append(q, x), r, s, n, b, i) <=> At(q, r, s, n, b, i)
  BY <1>1, AtPushMsg
<1>3. PICK q2 : q2 = Append(q, x)
  OBVIOUS
<1>4. /\ Len(q2) = Len(q) + 1 /\ Len(q) \in Nat /\ q2[Len(q) + 1] = x
      /\ \A j \in 1..Len(q) : q2[j] = q[j]
  BY <1>1, <1>3, PushParts
<1>5. \A n \in 1..Len(q) : n \in 1..Len(q2) /\ q2[n] = q[n]
  BY <1>4
<1>6. \A n \in 1..Len(q2) : q2[n].m = "cmd" => n \in 1..Len(q)
  BY <1>4
<1> QED
  BY <1>2, <1>3, <1>5, <1>6, FlowSame

\* Calls that are about no item come.
LEMMA FlowCalls ==
    ASSUME NEW k, NEW q, NEW r, FlowTyped(k, q, r), NEW c \in Seq(Call),
           \A n \in 1..Len(c) : c[n].a \notin {"queue", "do"}, Flow(k, q, r)
    PROVE  Flow(k, q, r \o c)
<1>1. r \in Seq(Call)
  BY DEF FlowTyped
<1>2. PICK r2 : r2 = r \o c
  OBVIOUS
<1>3. /\ r2 \in Seq(Call) /\ Len(r2) = Len(r) + Len(c) /\ Len(r) \in Nat /\ Len(c) \in Nat
      /\ \A n \in 1..Len(r) : r2[n] = r[n]
      /\ \A n \in 1..Len(c) : r2[Len(r) + n] = c[n]
  BY <1>1, <1>2, ConcatParts
<1>4. \A n \in 1..Len(r2) : n \in 1..Len(r) \/ r2[n].a \notin {"queue", "do"}
  <2> SUFFICES ASSUME NEW n \in 1..Len(r2), n \notin 1..Len(r)
               PROVE  r2[n].a \notin {"queue", "do"}
    OBVIOUS
  <2>1. n - Len(r) \in 1..Len(c) /\ n = Len(r) + (n - Len(r))
    BY <1>3
  <2>2. r2[n] = c[n - Len(r)]
    BY <1>3, <2>1
  <2> QED
    BY <2>1, <2>2
<1>5. FlowTyped(k, q, r2)
  <2> SUFFICES ASSUME NEW n \in 1..Len(r2)
               PROVE  GoodCall(k, r2[n])
    BY <1>3 DEF FlowTyped
  <2>1. CASE n \in 1..Len(r)
    BY <1>3, <2>1 DEF FlowTyped
  <2>2. CASE r2[n].a \notin {"queue", "do"}
    BY <2>2 DEF GoodCall
  <2> QED
    BY <1>4, <2>1, <2>2
<1>6. \A n \in 1..Len(r) : n \in 1..Len(r2)
  BY <1>3
<1>7. \A b, i : \A s \in 1..4, n \in Nat \ {0} :
          At(q, r2, s, n, b, i) <=> At(q, r, s, n, b, i)
  BY <1>3, <1>4, <1>6 DEF At
<1> QED
  BY <1>2, <1>5, <1>7, FlowSame

\* A call about no item goes.
LEMMA FlowPopCall ==
    ASSUME NEW k, NEW q, NEW r, FlowTyped(k, q, r), r # <<>>, Head(r).a \notin {"queue", "do"},
           Flow(k, q, r)
    PROVE  Flow(k, q, Tail(r)) /\ FlowTyped(k, q, Tail(r))
<1>1. PICK d : d = [s \in 1..4 |-> IF s \in {1, 3} THEN 1 ELSE 0]
  OBVIOUS
<1>2. Shifts(d) /\ d[2] = 0
  BY <1>1 DEF Shifts
<1>3. /\ k \in Seq(Command) /\ q \in Seq(Message) /\ r \in Seq(Call)
      /\ \A n \in 1..Len(q) : GoodMsg(k, q[n])
      /\ \A n \in 1..Len(r) : GoodCall(k, r[n])
  BY DEF FlowTyped
<1>4. PICK r2 : r2 = Tail(r)
  OBVIOUS
<1>5. /\ r2 \in Seq(Call) /\ Len(r2) = Len(r) - 1 /\ Head(r) = r[1] /\ Len(r) \in Nat \ {0}
      /\ \A n \in 1..Len(r2) : r2[n] = r[n + 1] /\ n + 1 \in 1..Len(r)
  BY <1>3, <1>4, PopParts
<1>6. \A b, i : \A s \in 1..4, n \in Nat \ {0} :
          At(q, r2, s, n, b, i) <=> At(q, r, s, n + d[s], b, i)
  <2> SUFFICES ASSUME NEW s \in 1..4, NEW n \in Nat \ {0}, NEW b, NEW i
               PROVE  At(q, r2, s, n, b, i) <=> At(q, r, s, n + d[s], b, i)
    OBVIOUS
  <2>1. n + d[s] = IF s \in {1, 3} THEN n + 1 ELSE n
    BY <1>1
  <2>2. At(q, r2, s, n, b, i) <=> At(q, r, s, IF s \in {1, 3} THEN n + 1 ELSE n, b, i)
    BY <1>3, <1>4, AtPopCall
  <2> QED
    BY <2>1, <2>2
<1>7. CameFrom(q, r, q, r2, d, 0, 0)
  BY <1>6 DEF CameFrom
<1>8. WaitedBefore(q, q, d[2])
  BY <1>2 DEF WaitedBefore
<1>9. ASSUME NEW b \in 1..Len(k), NEW s \in 1..4, NEW n \in Nat \ {0},
             At(q, r, s, n, b, Len(k[b].ids))
      PROVE  \E s2 \in 1..4, n2 \in Nat \ {0} : At(q, r2, s2, n2, b, Len(k[b].ids))
  <2>1. CASE s \in {2, 4}
    <3>1. d[s] = 0 /\ n + d[s] = n
      BY <1>1, <2>1
    <3> QED
      BY <1>6, <1>9, <3>1
  <2>2. CASE s \in {1, 3}
    <3>1. n # 1
      BY <1>5, <1>9, <2>2 DEF At
    <3>2. n - 1 \in Nat \ {0} /\ (n - 1) + d[s] = n
      BY <1>1, <2>2, <3>1
    <3> QED
      BY <1>6, <1>9, <3>2
  <2> QED
    BY <2>1, <2>2
<1>10. SameItems(k, k)
  BY <1>3 DEF SameItems
<1>11. Closes(k, k, q, q, r2, 0)
  BY DEF Closes
<1>12. GoesOn(k, q, r, q, r2, 0)
  BY <1>9 DEF GoesOn
<1>13. FlowTyped(k, q, r2)
  BY <1>3, <1>5 DEF FlowTyped
<1>14. Flow(k, q, r2)
  BY <1>2, <1>7, <1>8, <1>10, <1>11, <1>12, <1>13, FlowKept
<1> QED
  BY <1>4, <1>13, <1>14

\* The same as AtPushMsg and AtPushCall, by name.
LEMMA PushMsg ==
    ASSUME NEW q \in Seq(Message), NEW x \in Message, NEW r, NEW s \in 1..4, NEW n \in Nat \ {0},
           NEW b, NEW i
    PROVE  At(Append(q, x), r, s, n, b, i) <=> At(q, r, s, n, b, i) \/ Sent(x, Len(q), s, n, b, i)
  BY AtPushMsg DEF Sent

LEMMA PushCall ==
    ASSUME NEW r \in Seq(Call), NEW y \in Call, NEW q, NEW s \in 1..4, NEW n \in Nat \ {0},
           NEW b, NEW i
    PROVE  At(q, Append(r, y), s, n, b, i) <=> At(q, r, s, n, b, i) \/ Called(y, Len(r), s, n, b, i)
  BY AtPushCall DEF Called

\* The engine takes an item out of the call queue and answers.
LEMMA FlowToMessage ==
    ASSUME NEW k, NEW q, NEW r, FlowTyped(k, q, r), r # <<>>, NEW x \in Message,
           \/ Head(r).a = "queue" /\ x.m = "lookup"
           \/ Head(r).a = "do" /\ x.m = "done",
           x.b = Head(r).b, x.i = Head(r).i,
           FlowTyped(k, Append(q, x), Tail(r)), Flow(k, q, r)
    PROVE  Flow(k, Append(q, x), Tail(r))
<1>1. PICK d : d = [s \in 1..4 |-> IF s \in {1, 3} THEN 1 ELSE 0]
  OBVIOUS
<1>2. Shifts(d) /\ d[1] = 1 /\ d[3] = 1 /\ d[2] = 0 /\ d[4] = 0
  BY <1>1 DEF Shifts
<1>3. k \in Seq(Command) /\ q \in Seq(Message) /\ r \in Seq(Call)
  BY DEF FlowTyped
<1>4. PICK q2, r2 : q2 = Append(q, x) /\ r2 = Tail(r)
  OBVIOUS
<1>5. Head(r) = r[1] /\ 1 \in 1..Len(r)
  BY <1>3, PopParts
<1>6. PICK S \in {1, 3} : \/ S = 1 /\ r[1].a = "queue" /\ x.m = "lookup"
                          \/ S = 3 /\ r[1].a = "do" /\ x.m = "done"
  BY <1>5
<1>7. /\ Len(q2) = Len(q) + 1 /\ Len(q) \in Nat /\ q2[Len(q) + 1] = x
      /\ \A j \in 1..Len(q) : q2[j] = q[j]
  BY <1>3, <1>4, PushParts
<1>8. At(q, r, S, 1, x.b, x.i)
  BY <1>5, <1>6 DEF At
<1>9. ASSUME NEW s \in 1..4, NEW n \in Nat \ {0}, NEW b, NEW i
      PROVE  At(q2, r2, s, n, b, i) <=>
                 \/ At(q, r, s, n + d[s], b, i)
                 \/ n = Len(q) + 1 /\ x.b = b /\ x.i = i /\ s = S + 1
  <2>1. n + d[s] = IF s \in {1, 3} THEN n + 1 ELSE n
    BY <1>1
  <2>2. At(q, r2, s, n, b, i) <=> At(q, r, s, IF s \in {1, 3} THEN n + 1 ELSE n, b, i)
    BY <1>3, <1>4, AtPopCall
  <2>3. At(q2, r2, s, n, b, i) <=>
               \/ At(q, r2, s, n, b, i)
               \/ /\ n = Len(q) + 1 /\ x.b = b /\ x.i = i
                  /\ (s = 2 /\ x.m = "lookup") \/ (s = 4 /\ x.m = "done")
    <3>1. At(Append(q, x), r2, s, n, b, i) <=> At(q, r2, s, n, b, i) \/ Sent(x, Len(q), s, n, b, i)
      BY <1>3, PushMsg
    <3>2. Sent(x, Len(q), s, n, b, i) <=>
               /\ n = Len(q) + 1 /\ x.b = b /\ x.i = i
               /\ (s = 2 /\ x.m = "lookup") \/ (s = 4 /\ x.m = "done")
      BY DEF Sent
    <3> QED
      BY <1>4, <3>1, <3>2
  <2>4. (s = 2 /\ x.m = "lookup") \/ (s = 4 /\ x.m = "done") <=> s = S + 1
    BY <1>6
  <2> QED
    BY <2>1, <2>2, <2>3, <2>4
<1>10. \A p \in Nat \ {0}, c \in Nat, j \in Nat : At(q, r, S + 1, p, c, j) => p < Len(q) + 1
  BY <1>6, <1>7 DEF At
<1>11. CameFrom(q, r, q2, r2, d, S, Len(q) + 1)
  <2> SUFFICES ASSUME NEW s \in 1..4, NEW n \in Nat \ {0}, NEW b \in Nat, NEW i \in Nat,
                      At(q2, r2, s, n, b, i), ~At(q, r, s, n + d[s], b, i)
               PROVE  /\ s = S + 1 /\ n = Len(q) + 1 /\ S \in 1..3 /\ d[S] = 1 /\ d[S + 1] = 0
                      /\ At(q, r, S, 1, b, i)
    BY <1>10 DEF CameFrom
  <2>1. n = Len(q) + 1 /\ x.b = b /\ x.i = i /\ s = S + 1
    BY <1>9
  <2>2. S \in 1..3 /\ d[S] = 1 /\ d[S + 1] = 0
    BY <1>2, <1>6
  <2> QED
    BY <1>8, <2>1, <2>2
<1>12. \A n \in 1..Len(q2) : q2[n].m = "cmd" => n \in 1..Len(q) /\ q2[n] = q[n]
  BY <1>6, <1>7
<1>13. WaitedBefore(q, q2, d[2])
  <2>1. \A n \in 1..Len(q2) : n + d[2] = n
    BY <1>2
  <2> QED
    BY <1>12, <2>1 DEF WaitedBefore
<1>14. ASSUME NEW b \in 1..Len(k), NEW s \in 1..4, NEW n \in Nat \ {0}, NEW i,
              At(q, r, s, n, b, i)
      PROVE  \E s2 \in 1..4, n2 \in Nat \ {0} : At(q2, r2, s2, n2, b, i)
  <2>1. CASE s \in {2, 4}
    <3>1. d[s] = 0 /\ n + d[s] = n
      BY <1>1, <2>1
    <3> QED
      BY <1>9, <1>14, <3>1
  <2>2. CASE s \in {1, 3} /\ n # 1
    <3>1. n - 1 \in Nat \ {0} /\ (n - 1) + d[s] = n
      BY <1>1, <2>2
    <3> QED
      BY <1>9, <1>14, <3>1
  <2>3. CASE s \in {1, 3} /\ n = 1
    <3>1. b = x.b /\ i = x.i
      BY <1>5, <1>14, <2>3 DEF At
    <3>2. S + 1 \in 1..4 /\ Len(q) + 1 \in Nat \ {0}
      BY <1>6, <1>7
    <3>3. At(q2, r2, S + 1, Len(q) + 1, b, i)
      BY <1>9, <3>1, <3>2
    <3> QED
      BY <3>2, <3>3
  <2> QED
    BY <2>1, <2>2, <2>3
<1>15. \A b : Waits(q, b) => Waits(q2, b)
  BY <1>7 DEF Waits
<1>16. GoesOn(k, q, r, q2, r2, 0)
  BY <1>14, <1>15 DEF GoesOn
<1>17. Closes(k, k, q, q2, r2, 0) /\ SameItems(k, k)
  BY <1>3 DEF Closes, SameItems
<1>18. S \in 0..3 /\ Len(q) + 1 \in Nat
  BY <1>6, <1>7
<1>19. FlowTyped(k, q2, r2)
  BY <1>4
<1>20. Flow(k, q2, r2)
  BY <1>2, <1>11, <1>13, <1>16, <1>17, <1>18, <1>19, FlowKept
<1> QED
  BY <1>4, <1>20

\* A lookup whose item goes on to the engine.
LEMMA FlowToCall ==
    ASSUME NEW k, NEW k2, SameItems(k, k2), Len(k2) = Len(k),
           \A b \in 1..Len(k) : k2[b].live = k[b].live,
           NEW q, NEW r, FlowTyped(k, q, r), q # <<>>, Head(q).m = "lookup", NEW y \in Call,
           y.a = "do", y.b = Head(q).b, y.i = Head(q).i,
           FlowTyped(k2, Tail(q), Append(r, y)), Flow(k, q, r)
    PROVE  Flow(k2, Tail(q), Append(r, y))
<1>1. PICK d : d = [s \in 1..4 |-> IF s \in {2, 4} THEN 1 ELSE 0]
  OBVIOUS
<1>2. Shifts(d) /\ d[1] = 0 /\ d[3] = 0 /\ d[2] = 1 /\ d[4] = 1
  BY <1>1 DEF Shifts
<1>3. k \in Seq(Command) /\ q \in Seq(Message) /\ r \in Seq(Call)
  BY DEF FlowTyped
<1>4. PICK q2, r2 : q2 = Tail(q) /\ r2 = Append(r, y)
  OBVIOUS
<1>5. /\ Head(q) = q[1] /\ 1 \in 1..Len(q) /\ Len(q) \in Nat \ {0} /\ Len(q2) = Len(q) - 1
      /\ \A n \in 1..Len(q2) : q2[n] = q[n + 1] /\ n + 1 \in 1..Len(q)
  BY <1>3, <1>4, PopParts
<1>6. Len(r) \in Nat
  BY <1>3
<1>7. At(q, r, 2, 1, y.b, y.i)
  BY <1>5 DEF At
<1>8. ASSUME NEW s \in 1..4, NEW n \in Nat \ {0}, NEW b, NEW i
      PROVE  At(q2, r2, s, n, b, i) <=>
                 \/ At(q, r, s, n + d[s], b, i)
                 \/ n = Len(r) + 1 /\ y.b = b /\ y.i = i /\ s = 3
  <2>1. n + d[s] = IF s \in {2, 4} THEN n + 1 ELSE n
    BY <1>1
  <2>2. At(q2, r, s, n, b, i) <=> At(q, r, s, IF s \in {2, 4} THEN n + 1 ELSE n, b, i)
    BY <1>3, <1>4, AtPopMsg
  <2>3. At(q2, r2, s, n, b, i) <=>
               \/ At(q2, r, s, n, b, i)
               \/ /\ n = Len(r) + 1 /\ y.b = b /\ y.i = i
                  /\ (s = 1 /\ y.a = "queue") \/ (s = 3 /\ y.a = "do")
    <3>1. At(q2, Append(r, y), s, n, b, i) <=> At(q2, r, s, n, b, i) \/ Called(y, Len(r), s, n, b, i)
      BY <1>3, PushCall
    <3>2. Called(y, Len(r), s, n, b, i) <=>
               /\ n = Len(r) + 1 /\ y.b = b /\ y.i = i
               /\ (s = 1 /\ y.a = "queue") \/ (s = 3 /\ y.a = "do")
      BY DEF Called
    <3> QED
      BY <1>4, <3>1, <3>2
  <2> QED
    BY <2>1, <2>2, <2>3
<1>9. \A p \in Nat \ {0}, c \in Nat, j \in Nat : At(q, r, 3, p, c, j) => p < Len(r) + 1
  BY <1>6 DEF At
<1>10. CameFrom(q, r, q2, r2, d, 2, Len(r) + 1)
  <2> SUFFICES ASSUME NEW s \in 1..4, NEW n \in Nat \ {0}, NEW b \in Nat, NEW i \in Nat,
                      At(q2, r2, s, n, b, i), ~At(q, r, s, n + d[s], b, i)
               PROVE  /\ s = 3 /\ n = Len(r) + 1 /\ d[2] = 1 /\ d[3] = 0
                      /\ At(q, r, 2, 1, b, i)
    BY SMTT(30), <1>9 DEF CameFrom
  <2>1. n = Len(r) + 1 /\ y.b = b /\ y.i = i /\ s = 3
    BY <1>8
  <2> QED
    BY <1>2, <1>7, <2>1
<1>11. WaitedBefore(q, q2, d[2])
  BY <1>2, <1>5 DEF WaitedBefore
<1>12. ASSUME NEW b \in 1..Len(k), NEW s \in 1..4, NEW n \in Nat \ {0}, NEW i,
              At(q, r, s, n, b, i)
      PROVE  \E s2 \in 1..4, n2 \in Nat \ {0} : At(q2, r2, s2, n2, b, i)
  <2>1. CASE s \in {1, 3}
    <3>1. d[s] = 0 /\ n + d[s] = n
      BY <1>1, <2>1
    <3> QED
      BY <1>8, <1>12, <3>1
  <2>2. CASE s \in {2, 4} /\ n # 1
    <3>1. n - 1 \in Nat \ {0} /\ (n - 1) + d[s] = n
      BY <1>1, <2>2
    <3> QED
      BY <1>8, <1>12, <3>1
  <2>3. CASE s \in {2, 4} /\ n = 1
    <3>1. b = y.b /\ i = y.i
      BY <1>5, <1>12, <2>3 DEF At
    <3>2. Len(r) + 1 \in Nat \ {0}
      BY <1>6
    <3>3. At(q2, r2, 3, Len(r) + 1, b, i)
      BY <1>8, <3>1, <3>2
    <3> QED
      BY <3>2, <3>3
  <2> QED
    BY <2>1, <2>2, <2>3
<1>13. ASSUME NEW b, Waits(q, b) PROVE Waits(q2, b)
  <2>1. PICK n \in 1..Len(q) : q[n].m = "cmd" /\ q[n].b = b
    BY <1>13 DEF Waits
  <2>2. n # 1
    BY <1>5, <2>1
  <2>3. n - 1 \in 1..Len(q2) /\ q2[n - 1] = q[n]
    BY <1>5, <2>2
  <2> QED
    BY <2>1, <2>3 DEF Waits
<1>14. GoesOn(k, q, r, q2, r2, 0)
  BY <1>12, <1>13 DEF GoesOn
<1>15. Closes(k, k2, q, q2, r2, 0)
  BY DEF Closes
<1>16. Len(r) + 1 \in Nat /\ FlowTyped(k2, q2, r2)
  BY <1>4, <1>6
<1>17. Flow(k2, q2, r2)
  BY <1>2, <1>10, <1>11, <1>14, <1>15, <1>16, FlowKept
<1> QED
  BY <1>4, <1>17

\* An item comes up and goes no further.  If it is its command's last, that is closed, and
\* either it is a done one, with none behind it, or the command had one item only.
LEMMA FlowDrop ==
    ASSUME NEW k, NEW k2, SameItems(k, k2), Len(k2) = Len(k),
           NEW q, NEW r, FlowTyped(k, q, r), FlowTyped(k2, Tail(q), r), q # <<>>,
           NEW x, x = Head(q), x.m \in {"lookup", "done"},
           \A b \in 1..Len(k) : b # x.b => k2[b].live = k[b].live,
           \/ /\ k2[x.b].live = k[x.b].live
              /\ x.i # Len(k[x.b].ids) \/ k[x.b].op = "resume"
           \/ /\ ~k2[x.b].live /\ x.i = Len(k[x.b].ids)
              /\ x.m = "done" \/ Len(k[x.b].ids) = 1,
           Flow(k, q, r)
    PROVE  Flow(k2, Tail(q), r)
<1>1. PICK d : d = [s \in 1..4 |-> IF s \in {2, 4} THEN 1 ELSE 0]
  OBVIOUS
<1>2. d \in [1..4 -> {0, 1}] /\ d[2] = d[4] /\ d[2] = 1
  BY <1>1
<1>3. /\ k \in Seq(Command) /\ q \in Seq(Message) /\ r \in Seq(Call)
      /\ \A n \in 1..Len(q) : GoodMsg(k, q[n])
      /\ \A n \in 1..Len(r) : GoodCall(k, r[n])
  BY DEF FlowTyped
<1>4. PICK q2 : q2 = Tail(q)
  OBVIOUS
<1>5. /\ q2 \in Seq(Message) /\ Len(q2) = Len(q) - 1 /\ x = q[1] /\ Len(q) \in Nat \ {0}
      /\ \A n \in 1..Len(q2) : q2[n] = q[n + 1] /\ n + 1 \in 1..Len(q)
  BY <1>3, <1>4, PopParts
<1>6. \A b, i : \A s \in 1..4, n \in Nat \ {0} :
          At(q2, r, s, n, b, i) <=> At(q, r, s, n + d[s], b, i)
  <2> SUFFICES ASSUME NEW s \in 1..4, NEW n \in Nat \ {0}, NEW b, NEW i
               PROVE  At(q2, r, s, n, b, i) <=> At(q, r, s, n + d[s], b, i)
    OBVIOUS
  <2>1. n + d[s] = IF s \in {2, 4} THEN n + 1 ELSE n
    BY <1>1
  <2>2. At(q2, r, s, n, b, i) <=> At(q, r, s, IF s \in {2, 4} THEN n + 1 ELSE n, b, i)
    BY <1>3, <1>4, AtPopMsg
  <2> QED
    BY <2>1, <2>2
<1>7. CameFrom(q, r, q2, r, d, 0, 0)
  BY <1>6 DEF CameFrom
<1>8. WaitedBefore(q, q2, d[2])
  BY <1>2, <1>5 DEF WaitedBefore
<1>9. \A b : Waits(q, b) => Waits(q2, b)
  <2> SUFFICES ASSUME NEW b, NEW n \in 1..Len(q), q[n].m = "cmd", q[n].b = b
               PROVE  Waits(q2, b)
    BY DEF Waits
  <2>1. n # 1
    BY <1>5
  <2>2. n - 1 \in 1..Len(q2) /\ q2[n - 1] = q[n]
    BY <1>5, <2>1
  <2> QED
    BY <2>2 DEF Waits
<1>10. PICK S \in {2, 4} : At(q, r, S, 1, x.b, x.i) /\ (x.m = "done" => S = 4) /\ d[S] = 1
  BY <1>1, <1>5 DEF At
<1>11. x.b \in 1..Len(k) /\ x.b \in Nat /\ x.i \in Nat /\ S \in 1..4 /\ 1 \in Nat \ {0}
  BY <1>3, <1>10, AtTyped
<1>12. LastIsLast(k, q, r) /\ WaitsOnce(k, q, r)
  BY DEF Flow
<1>13. PICK b0 \in Nat :
           \/ /\ b0 = 0 /\ k2[x.b].live = k[x.b].live
              /\ x.i # Len(k[x.b].ids) \/ k[x.b].op = "resume"
           \/ /\ b0 = x.b /\ ~k2[x.b].live /\ x.i = Len(k[x.b].ids)
              /\ x.m = "done" \/ Len(k[x.b].ids) = 1
  BY <1>11
<1>14. ASSUME NEW b \in 1..Len(k), NEW s \in 1..4, NEW n \in Nat \ {0}, b # b0,
              At(q, r, s, n, b, Len(k[b].ids)), k[b].op # "resume"
       PROVE  \E s2 \in 1..4, n2 \in Nat \ {0} : At(q2, r, s2, n2, b, Len(k[b].ids))
  <2>1. CASE s \in {1, 3}
    <3>1. d[s] = 0 /\ n + d[s] = n
      BY <1>1, <2>1
    <3> QED
      BY <1>6, <1>14, <3>1
  <2>2. CASE s \in {2, 4}
    <3>1. n # 1
      <4>1. n = 1 => x.b = b /\ x.i = Len(k[b].ids)
        BY <1>5, <1>14, <2>2 DEF At
      <4> QED
        BY <1>13, <1>14, <4>1
    <3>2. n - 1 \in Nat \ {0} /\ (n - 1) + d[s] = n
      BY <1>1, <2>2, <3>1
    <3> QED
      BY <1>6, <1>14, <3>2
  <2> QED
    BY <2>1, <2>2
<1>15. ASSUME b0 = x.b, ~k2[x.b].live, x.i = Len(k[x.b].ids),
              x.m = "done" \/ Len(k[x.b].ids) = 1,
              NEW s \in 1..4, NEW n \in Nat \ {0}, NEW i \in Nat, At(q2, r, s, n, x.b, i)
       PROVE  FALSE
  <2>1. PICK n2 : n2 = n + d[s]
    OBVIOUS
  <2>2. n2 \in Nat \ {0} /\ ~(s = S /\ n2 = 1)
    BY <1>1, <1>10, <2>1
  <2>3. At(q, r, s, n2, x.b, i)
    BY <1>6, <1>15, <2>1
  <2>4. Ahead(s, n2, S, 1)
    BY <1>10, <1>11, <1>12, <1>15, <2>2, <2>3 DEF LastIsLast
  <2>5. CASE x.m = "done"
    BY <1>10, <2>2, <2>4, <2>5 DEF Ahead
  <2>6. CASE Len(k[x.b].ids) = 1
    <3>1. i = Len(k[x.b].ids)
      <4>1. PICK c : c = x.b
        OBVIOUS
      <4>2. At(q, r, s, n2, c, i)
        BY <2>3, <4>1
      <4>3. i \in 1..Len(k[c].ids)
        BY <1>3, <4>2, AtTyped
      <4>4. PICK l : l = Len(k[c].ids)
        OBVIOUS
      <4>5. l = 1
        BY <2>6, <4>1, <4>4
      <4>6. i = l
        BY <4>3, <4>4, <4>5
      <4> QED
        BY <4>1, <4>4, <4>6
    <3>2. Ahead(S, 1, s, n2)
      BY <1>10, <1>11, <1>12, <1>15, <2>2, <2>3, <3>1 DEF LastIsLast
    <3> QED
      BY <1>11, <2>2, <2>4, <3>2 DEF Ahead
  <2> QED
    BY <1>15, <2>5, <2>6
<1>16. ~Waits(q, x.b)
  BY <1>10, <1>11, <1>12 DEF Waits, WaitsOnce
<1>17. Closes(k, k2, q, q2, r, b0)
  <2>1. CASE b0 = 0 /\ k2[x.b].live = k[x.b].live
    BY <2>1 DEF Closes
  <2>2. CASE /\ b0 = x.b /\ ~k2[x.b].live /\ x.i = Len(k[x.b].ids)
             /\ x.m = "done" \/ Len(k[x.b].ids) = 1
    <3>1. \A s \in 1..4, n \in Nat \ {0}, i \in Nat : ~At(q2, r, s, n, x.b, i)
      BY <1>15, <2>2
    <3> QED
      BY <1>16, <2>2, <3>1 DEF Closes
  <2> QED
    BY <1>13, <2>1, <2>2
<1>18. GoesOn(k, q, r, q2, r, b0)
  BY <1>9, <1>14 DEF GoesOn
<1>19. FlowTyped(k2, q2, r) /\ Shifts(d)
  BY <1>2, <1>4 DEF Shifts
<1>20. Flow(k2, q2, r)
  BY <1>7, <1>8, <1>17, <1>18, <1>19, FlowKept
<1> QED
  BY <1>4, <1>20

\* A command comes up: its items go into the call queue.
LEMMA FlowOpen ==
    ASSUME NEW k, NEW q, NEW r, FlowTyped(k, q, r), q # <<>>, Head(q).m = "cmd",
           NEW c \in Seq(Call), NEW b0, b0 = Head(q).b, Len(c) = Len(k[b0].ids),
           \A j \in 1..Len(c) : c[j].a = "queue" /\ c[j].b = b0 /\ c[j].i = j,
           Flow(k, q, r)
    PROVE  Flow(k, Tail(q), r \o c)
<1>1. PICK d : d = [s \in 1..4 |-> IF s \in {2, 4} THEN 1 ELSE 0]
  OBVIOUS
<1>2. /\ k \in Seq(Command) /\ q \in Seq(Message) /\ r \in Seq(Call)
      /\ \A n \in 1..Len(q) : GoodMsg(k, q[n])
      /\ \A n \in 1..Len(r) : GoodCall(k, r[n])
  BY DEF FlowTyped
<1>3. PICK q2, r2 : q2 = Tail(q) /\ r2 = r \o c
  OBVIOUS
<1>4. /\ Len(q2) = Len(q) - 1 /\ Head(q) = q[1] /\ Len(q) \in Nat \ {0}
      /\ \A n \in 1..Len(q2) : q2[n] = q[n + 1] /\ n + 1 \in 1..Len(q)
  BY <1>2, <1>3, PopParts
<1>5. /\ Len(r2) = Len(r) + Len(c) /\ Len(r) \in Nat /\ Len(c) \in Nat
      /\ \A n \in 1..Len(r) : r2[n] = r[n]
      /\ \A n \in 1..Len(c) : r2[Len(r) + n] = c[n]
  BY SMTT(30), <1>2, <1>3, ConcatParts
<1>6. b0 \in 1..Len(k) /\ Len(c) >= 1
  <2>1. GoodMsg(k, q[1])
    BY <1>2, <1>4
  <2>2. b0 \in 1..Len(k)
    BY <1>4, <2>1 DEF GoodMsg
  <2> QED
    BY <2>2 DEF Flow, OneItem
<1>7. k[b0].live /\ \A s \in 1..4, p \in Nat \ {0}, i \in Nat : ~At(q, r, s, p, b0, i)
  BY <1>4 DEF Flow, WaitsOnce
<1>8. ASSUME NEW n \in Nat \ {0}
      PROVE  n \in 1..Len(r2) <=> n \in 1..Len(r) \/ n - Len(r) \in 1..Len(c)
  BY <1>5
<1>9. ASSUME NEW n \in Nat \ {0}, n - Len(r) \in 1..Len(c)
      PROVE  /\ r2[n].a = "queue" /\ r2[n].b = b0 /\ r2[n].i = n - Len(r)
             /\ n \notin 1..Len(r)
  <2>1. PICK j \in 1..Len(c) : j = n - Len(r)
    BY <1>9
  <2>2. n = Len(r) + j
    BY <1>5, <2>1
  <2>3. r2[n] = c[j]
    BY <1>5, <2>2
  <2> QED
    BY <1>5, <2>1, <2>2, <2>3
<1>10. ASSUME NEW s \in 1..4, NEW n \in Nat \ {0}, NEW b, NEW i
       PROVE  At(q, r2, s, n, b, i) <=>
                  \/ At(q, r, s, n, b, i)
                  \/ s = 1 /\ n - Len(r) \in 1..Len(c) /\ b = b0 /\ i = n - Len(r)
  <2>1. CASE n - Len(r) \in 1..Len(c)
    <3>1. /\ r2[n].a = "queue" /\ r2[n].b = b0 /\ r2[n].i = n - Len(r)
          /\ n \notin 1..Len(r) /\ n \in 1..Len(r2)
      BY <1>8, <1>9, <2>1
    <3> QED
      BY <2>1, <3>1 DEF At
  <2>2. CASE n - Len(r) \notin 1..Len(c)
    <3>1. n \in 1..Len(r2) <=> n \in 1..Len(r)
      BY <1>8, <2>2
    <3>2. n \in 1..Len(r) => r2[n] = r[n]
      BY <1>5
    <3> QED
      BY <2>2, <3>1, <3>2 DEF At
  <2> QED
    BY <2>1, <2>2
<1>11. ASSUME NEW s \in 1..4, NEW n \in Nat \ {0}, NEW b, NEW i
       PROVE  At(q2, r2, s, n, b, i) <=>
                  \/ At(q, r, s, n + d[s], b, i)
                  \/ s = 1 /\ n - Len(r) \in 1..Len(c) /\ b = b0 /\ i = n - Len(r)
  <2>1. n + d[s] = IF s \in {2, 4} THEN n + 1 ELSE n
    BY <1>1
  <2>2. PICK p \in Nat \ {0} : p = IF s \in {2, 4} THEN n + 1 ELSE n
    OBVIOUS
  <2>3. At(q2, r2, s, n, b, i) <=> At(q, r2, s, p, b, i)
    BY <1>2, <1>3, <2>2, AtPopMsg
  <2>4. At(q, r2, s, p, b, i) <=>
                  \/ At(q, r, s, p, b, i)
                  \/ s = 1 /\ p - Len(r) \in 1..Len(c) /\ b = b0 /\ i = p - Len(r)
    BY <1>10
  <2>5. s = 1 => p = n
    BY <2>2
  <2> QED
    BY <2>1, <2>2, <2>3, <2>4, <2>5
<1>12. \A s \in 1..4 : d[s] \in {0, 1}
  BY <1>1
<1>13. ASSUME NEW s \in 1..4, NEW n \in Nat \ {0} PROVE n + d[s] \in Nat \ {0}
  BY <1>1
\* What is under way of b0 has just come into the call queue, in order.
<1>14. ASSUME NEW s \in 1..4, NEW n \in Nat \ {0}, NEW i \in Nat, At(q2, r2, s, n, b0, i)
       PROVE  s = 1 /\ n - Len(r) \in 1..Len(c) /\ i = n - Len(r)
  <2>1. n + d[s] \in Nat \ {0}
    BY <1>13
  <2>2. ~At(q, r, s, n + d[s], b0, i)
    BY <1>7, <2>1
  <2> QED
    BY <1>11, <1>14, <2>2
<1>15. LastIsLast(k, q2, r2)
  <2> SUFFICES ASSUME NEW b \in 1..Len(k), NEW s \in 1..4, NEW s2 \in 1..4,
                      NEW n \in Nat \ {0}, NEW n2 \in Nat \ {0}, NEW i \in Nat,
                      At(q2, r2, s, n, b, i), At(q2, r2, s2, n2, b, Len(k[b].ids)),
                      ~(s = s2 /\ n = n2)
               PROVE  Ahead(s, n, s2, n2)
    BY DEF LastIsLast
  <2>1. CASE b = b0
    <3>1. /\ s = 1 /\ n - Len(r) \in 1..Len(c)
          /\ s2 = 1 /\ n2 - Len(r) = Len(c)
      BY <1>5, <1>14, <2>1
    <3>2. n < n2
      BY <1>5, <3>1
    <3> QED
      BY <3>1, <3>2 DEF Ahead
  <2>2. CASE b # b0
    <3>1. At(q, r, s, n + d[s], b, i) /\ At(q, r, s2, n2 + d[s2], b, Len(k[b].ids))
      BY <1>11, <2>2
    <3>2. ~(s = s2 /\ n + d[s] = n2 + d[s2])
      BY <1>12
    <3>3. Ahead(s, n + d[s], s2, n2 + d[s2])
      BY <1>13, <3>1, <3>2 DEF Flow, LastIsLast
    <3> QED
      BY <1>12, <3>3 DEF Ahead
  <2> QED
    BY <2>1, <2>2
<1>16. ItemsAreLive(k, q2, r2)
  <2> SUFFICES ASSUME NEW b \in 1..Len(k), NEW s \in 1..4, NEW n \in Nat \ {0}, NEW i \in Nat,
                      At(q2, r2, s, n, b, i), b # b0
               PROVE  k[b].live
    BY <1>7 DEF ItemsAreLive
  <2>1. n + d[s] \in Nat \ {0}
    BY <1>13
  <2>2. At(q, r, s, n + d[s], b, i)
    BY <1>11
  <2> QED
    BY <2>1, <2>2 DEF Flow, ItemsAreLive
<1>17. ASSUME NEW n \in 1..Len(q2), q2[n].m = "cmd"
       PROVE  n + 1 \in 1..Len(q) /\ q[n + 1] = q2[n] /\ q2[n].b # b0 /\ n \in Nat
  <2>1. n + 1 \in 1..Len(q) /\ q[n + 1] = q2[n] /\ n + 1 # 1
    BY <1>4
  <2>2. q[n + 1].m = "cmd" /\ q[1].m = "cmd" /\ q[1].b = b0 /\ 1 \in 1..Len(q)
    BY <1>4, <1>17, <2>1
  <2> QED
    BY <2>1, <2>2 DEF Flow, WaitsOnce
<1>18. WaitsOnce(k, q2, r2)
  <2> SUFFICES ASSUME NEW n \in 1..Len(q2), q2[n].m = "cmd"
               PROVE  /\ k[q2[n].b].live
                      /\ \A p \in 1..Len(q2) : q2[p].m = "cmd" /\ q2[p].b = q2[n].b => p = n
                      /\ \A s \in 1..4, p \in Nat \ {0}, i \in Nat : ~At(q2, r2, s, p, q2[n].b, i)
    BY DEF WaitsOnce
  <2>1. n + 1 \in 1..Len(q) /\ q[n + 1] = q2[n] /\ q2[n].b # b0 /\ n \in Nat
    BY <1>17
  <2>2. /\ k[q2[n].b].live
        /\ \A p \in 1..Len(q) : q[p].m = "cmd" /\ q[p].b = q2[n].b => p = n + 1
        /\ \A s \in 1..4, p \in Nat \ {0}, i \in Nat : ~At(q, r, s, p, q2[n].b, i)
    BY ZenonT(30), <2>1 DEF Flow, WaitsOnce
  <2>3. ASSUME NEW p \in 1..Len(q2), q2[p].m = "cmd", q2[p].b = q2[n].b PROVE p = n
    <3>1. p + 1 \in 1..Len(q) /\ q[p + 1] = q2[p]
      BY <1>4
    <3>2. p + 1 = n + 1
      BY <2>2, <2>3, <3>1
    <3> QED
      BY <2>1, <3>2
  <2>4. ASSUME NEW s \in 1..4, NEW p \in Nat \ {0}, NEW i \in Nat
        PROVE  ~At(q2, r2, s, p, q2[n].b, i)
    <3>1. ~At(q, r, s, p + d[s], q2[n].b, i)
      BY <1>13, <2>2
    <3> QED
      BY <1>11, <2>1, <3>1
  <2> QED
    BY <2>2, <2>3, <2>4
<1>19. OpenIsUnderWay(k, q2, r2)
  <2> SUFFICES ASSUME NEW b \in 1..Len(k), k[b].live, k[b].op # "resume", ~Waits(q2, b)
               PROVE  \E s \in 1..4, n \in Nat \ {0} : At(q2, r2, s, n, b, Len(k[b].ids))
    BY DEF OpenIsUnderWay
  <2>1. CASE b = b0
    <3>1. PICK n \in Nat \ {0} : n = Len(r) + Len(c)
      BY <1>5, <1>6
    <3>2. n - Len(r) \in 1..Len(c) /\ Len(k[b].ids) = n - Len(r)
      BY <1>5, <1>6, <2>1, <3>1
    <3>3. At(q2, r2, 1, n, b, Len(k[b].ids))
      BY <1>11, <2>1, <3>2
    <3> QED
      BY <3>3
  <2>2. CASE b # b0
    <3>1. ~Waits(q, b)
      <4> SUFFICES ASSUME NEW n \in 1..Len(q), q[n].m = "cmd", q[n].b = b PROVE FALSE
        BY DEF Waits
      <4>1. n # 1
        BY <1>4, <2>2
      <4>2. n - 1 \in 1..Len(q2) /\ q2[n - 1] = q[n]
        BY <1>4, <4>1
      <4> QED
        BY <4>2 DEF Waits
    <3>2. PICK s \in 1..4, n \in Nat \ {0} : At(q, r, s, n, b, Len(k[b].ids))
      BY <3>1 DEF Flow, OpenIsUnderWay
    <3>3. CASE s \in {1, 3}
      <4>1. n + d[s] = n
        BY <1>1, <3>3
      <4> QED
        BY <1>11, <3>2, <4>1
    <3>4. CASE s \in {2, 4}
      <4>1. n # 1
        BY <1>4, <3>2, <3>4 DEF At
      <4>2. n - 1 \in Nat \ {0} /\ (n - 1) + d[s] = n
        BY <1>1, <3>4, <4>1
      <4> QED
        BY <1>11, <3>2, <4>2
    <3> QED
      BY <3>3, <3>4
  <2> QED
    BY <2>1, <2>2
<1> QED
  BY <1>3, <1>15, <1>16, <1>18, <1>19 DEF Flow

\* A command is posted.
LEMMA FlowPost ==
    ASSUME NEW k, NEW k2, NEW q, NEW r, FlowTyped(k, q, r),
           Len(k2) = Len(k) + 1, \A b \in 1..Len(k) : k2[b] = k[b],
           k2[Len(k) + 1].live, Len(k2[Len(k) + 1].ids) >= 1,
           k2[Len(k) + 1].op # "add" => Len(k2[Len(k) + 1].ids) = 1,
           NEW x \in Message, x.m = "cmd", x.b = Len(k) + 1,
           Flow(k, q, r)
    PROVE  Flow(k2, Append(q, x), r)
<1>1. /\ k \in Seq(Command) /\ q \in Seq(Message) /\ r \in Seq(Call)
      /\ \A n \in 1..Len(q) : GoodMsg(k, q[n])
      /\ \A n \in 1..Len(r) : GoodCall(k, r[n])
  BY DEF FlowTyped
<1>2. PICK q2 : q2 = Append(q, x)
  OBVIOUS
<1>3. PICK l \in Nat : l = Len(k)
  BY SMTT(30), <1>1
<1>4. /\ Len(q2) = Len(q) + 1 /\ Len(q) \in Nat /\ q2[Len(q) + 1] = x
      /\ \A n \in 1..Len(q) : q2[n] = q[n]
  BY <1>1, <1>2, PushParts
<1>5. ASSUME NEW s \in 1..4, NEW n \in Nat \ {0}, NEW b, NEW i
      PROVE  At(q2, r, s, n, b, i) <=> At(q, r, s, n, b, i)
  <2>1. At(Append(q, x), r, s, n, b, i) <=> At(q, r, s, n, b, i) \/ Sent(x, Len(q), s, n, b, i)
    BY <1>1, PushMsg
  <2>2. ~Sent(x, Len(q), s, n, b, i)
    BY DEF Sent
  <2> QED
    BY <1>2, <2>1, <2>2
<1>6. ASSUME NEW s \in 1..4, NEW n \in Nat \ {0}, NEW b, NEW i, At(q, r, s, n, b, i)
      PROVE  b \in 1..l
  BY <1>1, <1>3, <1>6, AtTyped
<1>7. \A b \in 1..Len(k2) : b \in 1..l \/ b = l + 1
  BY <1>3
<1>8. \A b \in 1..l : k2[b] = k[b] /\ b # l + 1
  BY <1>3
<1>9. LastIsLast(k2, q2, r)
  <2> SUFFICES ASSUME NEW b \in 1..Len(k2), NEW s \in 1..4, NEW s2 \in 1..4,
                      NEW n \in Nat \ {0}, NEW n2 \in Nat \ {0}, NEW i \in Nat,
                      At(q2, r, s, n, b, i), At(q2, r, s2, n2, b, Len(k2[b].ids)),
                      ~(s = s2 /\ n = n2)
               PROVE  Ahead(s, n, s2, n2)
    BY ZenonT(30) DEF LastIsLast
  <2>1. At(q, r, s, n, b, i) /\ At(q, r, s2, n2, b, Len(k2[b].ids))
    BY <1>5
  <2>2. b \in 1..Len(k) /\ k2[b] = k[b]
    BY <1>3, <1>6, <1>8, <2>1
  <2> QED
    BY <2>1, <2>2 DEF Flow, LastIsLast
<1>10. ItemsAreLive(k2, q2, r)
  <2> SUFFICES ASSUME NEW b \in 1..Len(k2), NEW s \in 1..4, NEW n \in Nat \ {0}, NEW i \in Nat,
                      At(q2, r, s, n, b, i)
               PROVE  k2[b].live
    BY DEF ItemsAreLive
  <2>1. At(q, r, s, n, b, i)
    BY <1>5
  <2>2. b \in 1..Len(k) /\ k2[b] = k[b]
    BY <1>3, <1>6, <1>8, <2>1
  <2> QED
    BY <2>1, <2>2 DEF Flow, ItemsAreLive
<1>11. ASSUME NEW n \in 1..Len(q), q[n].m = "cmd" PROVE q[n].b \in 1..l
  BY <1>1, <1>3, <1>11 DEF GoodMsg
<1>12. ASSUME NEW n \in 1..Len(q2)
       PROVE  (n \in 1..Len(q) /\ q2[n] = q[n]) \/ (n = Len(q) + 1 /\ q2[n] = x)
  BY <1>4
<1>13. WaitsOnce(k2, q2, r)
  <2> SUFFICES ASSUME NEW n \in 1..Len(q2), q2[n].m = "cmd"
               PROVE  /\ k2[q2[n].b].live
                      /\ \A p \in 1..Len(q2) : q2[p].m = "cmd" /\ q2[p].b = q2[n].b => p = n
                      /\ \A s \in 1..4, p \in Nat \ {0}, i \in Nat : ~At(q2, r, s, p, q2[n].b, i)
    BY DEF WaitsOnce
  <2>1. CASE n \in 1..Len(q) /\ q2[n] = q[n]
    <3>1. PICK b \in 1..l : b = q2[n].b
      BY <1>11, <2>1
    <3>2. /\ k[b].live
          /\ \A p \in 1..Len(q) : q[p].m = "cmd" /\ q[p].b = b => p = n
          /\ \A s \in 1..4, p \in Nat \ {0}, i \in Nat : ~At(q, r, s, p, b, i)
      BY <2>1, <3>1 DEF Flow, WaitsOnce
    <3>3. \A p \in 1..Len(q2) : q2[p].m = "cmd" /\ q2[p].b = b => p = n
      BY <1>3, <1>8, <1>12, <3>2
    <3>4. \A s \in 1..4, p \in Nat \ {0}, i \in Nat : ~At(q2, r, s, p, b, i)
      BY <1>5, <3>2
    <3> QED
      BY <1>8, <3>1, <3>2, <3>3, <3>4
  <2>2. CASE n = Len(q) + 1 /\ q2[n] = x
    <3>1. q2[n].b = l + 1 /\ k2[l + 1].live
      BY <1>3, <2>2
    <3>2. \A p \in 1..Len(q2) : q2[p].m = "cmd" /\ q2[p].b = l + 1 => p = n
      BY <1>8, <1>11, <1>12, <2>2
    <3>3. \A s \in 1..4, p \in Nat \ {0}, i \in Nat : ~At(q2, r, s, p, l + 1, i)
      BY <1>5, <1>6, <1>8
    <3> QED
      BY <3>1, <3>2, <3>3
  <2> QED
    BY <1>12, <2>1, <2>2
<1>14. OpenIsUnderWay(k2, q2, r)
  <2> SUFFICES ASSUME NEW b \in 1..Len(k2), k2[b].live, k2[b].op # "resume", ~Waits(q2, b)
               PROVE  \E s \in 1..4, n \in Nat \ {0} : At(q2, r, s, n, b, Len(k2[b].ids))
    BY DEF OpenIsUnderWay
  <2>1. Len(q) + 1 \in 1..Len(q2)
    BY <1>4
  <2>2. b # l + 1
    BY <1>3, <1>4, <2>1 DEF Waits
  <2>3. b \in 1..Len(k) /\ k2[b] = k[b]
    BY <1>3, <1>7, <1>8, <2>2
  <2>4. ~Waits(q, b)
    <3>1. \A n \in 1..Len(q) : n \in 1..Len(q2) /\ q2[n] = q[n]
      BY <1>4
    <3> QED
      BY <3>1 DEF Waits
  <2>5. PICK s \in 1..4, n \in Nat \ {0} : At(q, r, s, n, b, Len(k[b].ids))
    BY <2>3, <2>4 DEF Flow, OpenIsUnderWay
  <2>6. At(q2, r, s, n, b, Len(k2[b].ids))
    BY <1>5, <2>3, <2>5
  <2> QED
    BY <2>6
<1>15. OneItem(k2)
  BY <1>3, <1>7, <1>8 DEF Flow, OneItem
<1> QED
  BY <1>2, <1>9, <1>10, <1>13, <1>14, <1>15 DEF Flow

-----------------------------------------------------------------------------
(* Every step keeps the items flowing.                                       *)

Flows == Flow(cmd, msgQ, apiQ)

LEMMA TypedFlow ==
    /\ Typed => FlowTyped(cmd, msgQ, apiQ)
    /\ Typed' => FlowTyped(cmd', msgQ', apiQ')
BY DEF Typed, MsgsTyped, CallsTyped, FlowTyped

\* A message that is about no item comes up, and calls about none are made.
LEMMA FlowHandler ==
    ASSUME Typed, Flows, cmd' = cmd, msgQ # <<>>, msgQ' = Tail(msgQ),
           Head(msgQ).m \notin {"cmd", "lookup", "done"}, Typed',
           apiQ' = apiQ \/ \E c \in Seq(Call) : /\ apiQ' = apiQ \o c
                                               /\ \A n \in 1..Len(c) : c[n].a \notin {"queue", "do"}
    PROVE  Flows'
<1>1. PICK k, q, r : k = cmd /\ q = msgQ /\ r = apiQ
  OBVIOUS
<1>2. FlowTyped(k, q, r) /\ Flow(k, q, r) /\ q # <<>> /\ Head(q).m \notin {"cmd", "lookup", "done"}
  BY <1>1, TypedFlow DEF Flows
<1>3. Flow(k, Tail(q), r)
  BY <1>2, FlowPopOther
<1>4. FlowTyped(k, Tail(q), r)
  <2>1. /\ k \in Seq(Command) /\ q \in Seq(Message) /\ r \in Seq(Call)
        /\ \A n \in 1..Len(q) : GoodMsg(k, q[n])
        /\ \A n \in 1..Len(r) : GoodCall(k, r[n])
    BY <1>2 DEF FlowTyped
  <2>2. FlowTyped(cmd', msgQ', apiQ')
    BY TypedFlow
  <2>3. /\ Tail(q) \in Seq(Message)
        /\ \A n \in 1..Len(Tail(q)) : GoodMsg(k, Tail(q)[n])
    BY <1>1, <2>2 DEF FlowTyped
  <2> QED
    BY <2>1, <2>3 DEF FlowTyped
<1>5. CASE apiQ' = apiQ
  BY <1>1, <1>3, <1>5 DEF Flows
<1>6. ASSUME NEW c \in Seq(Call), apiQ' = apiQ \o c,
             \A n \in 1..Len(c) : c[n].a \notin {"queue", "do"}
      PROVE  Flows'
  <2>1. Flow(k, Tail(q), r \o c)
    BY <1>3, <1>4, <1>6, FlowCalls
  <2> QED
    BY <1>1, <1>6, <2>1 DEF Flows
<1> QED
  BY <1>5, <1>6

LEMMA FlowLookup ==
    ASSUME Typed, Typed', Flows, Lookup
    PROVE  Flows'
<1>1. PICK x : x = Head(msgQ)
  OBVIOUS
<1>2. PICK k, k2, q, r, r2 : k = cmd /\ k2 = cmd' /\ q = msgQ /\ r = apiQ /\ r2 = apiQ'
  OBVIOUS
<1>3. /\ q # <<>> /\ x = Head(q) /\ x.m = "lookup" /\ msgQ' = Tail(q) /\ HasItem(k, x)
      /\ x \in Message /\ Len(k2) = Len(k) /\ SameItems(k, k2)
      /\ \A n \in 1..Len(k) : n # x.b => k2[n] = k[n]
      /\ \/ /\ \E hw \in AnyHw : r2 = Append(r, DoCall(x, hw))
            /\ k2[x.b].live = k[x.b].live
         \/ /\ k[x.b].op # "add" /\ r2 = r
            /\ k2[x.b].live = IF x.i = Len(k[x.b].ids) THEN FALSE ELSE k[x.b].live
  BY <1>1, <1>2, LookupParts
<1>4. FlowTyped(k, q, r) /\ FlowTyped(k2, Tail(q), r2) /\ Flow(k, q, r)
  BY <1>2, <1>3, TypedFlow DEF Flows
<1>5. x.b \in 1..Len(k) /\ x.i \in 1..Len(k[x.b].ids)
  BY <1>3 DEF HasItem
<1>6. ASSUME NEW hw \in AnyHw, r2 = Append(r, DoCall(x, hw)), k2[x.b].live = k[x.b].live
      PROVE  Flow(k2, Tail(q), r2)
  <2>1. PICK y : y = DoCall(x, hw)
    OBVIOUS
  <2>2. x.b \in Nat /\ x.i \in Nat
    BY <1>3, MessageParts
  <2>3. y \in Call /\ y.a = "do" /\ y.b = Head(q).b /\ y.i = Head(q).i
    BY <1>3, <2>1, <2>2 DEF DoCall, Call
  <2>4. \A b \in 1..Len(k) : k2[b].live = k[b].live
    BY <1>3, <1>6
  <2>5. r2 = Append(r, y)
    BY <1>6, <2>1
  <2>6. FlowTyped(k2, Tail(q), Append(r, y)) /\ Head(q).m = "lookup"
    BY <1>3, <1>4, <2>5
  <2> QED
    BY <1>3, <1>4, <2>3, <2>4, <2>5, <2>6, FlowToCall
<1>7. CASE /\ k[x.b].op # "add" /\ r2 = r
           /\ k2[x.b].live = IF x.i = Len(k[x.b].ids) THEN FALSE ELSE k[x.b].live
  <2>1. PICK b \in 1..Len(k) : b = x.b
    BY <1>5
  <2>2. Len(k[b].ids) = 1
    BY <1>4, <1>7, <2>1 DEF Flow, OneItem
  <2>3. PICK l : l = Len(k[b].ids)
    OBVIOUS
  <2>4. x.i \in 1..l /\ l = 1
    BY <1>5, <2>1, <2>2, <2>3
  <2>5. x.i = Len(k[x.b].ids) /\ Len(k[x.b].ids) = 1
    BY <2>1, <2>3, <2>4
  <2>6. ~k2[x.b].live
    BY <1>7, <2>5
  <2>7. FlowTyped(k2, Tail(q), r) /\ x.m \in {"lookup", "done"}
        /\ \A n \in 1..Len(k) : n # x.b => k2[n].live = k[n].live
    BY <1>3, <1>4, <1>7
  <2>8. Flow(k2, Tail(q), r)
    BY <1>3, <1>4, <2>5, <2>6, <2>7, FlowDrop
  <2> QED
    BY <1>2, <1>3, <1>7, <2>8 DEF Flows
<1> QED
  BY <1>2, <1>3, <1>6, <1>7 DEF Flows

LEMMA FlowDone ==
    ASSUME Typed, Typed', Flows, Done
    PROVE  Flows'
<1>1. PICK x : x = Head(msgQ)
  OBVIOUS
<1>2. PICK k, k2, q, r : k = cmd /\ k2 = cmd' /\ q = msgQ /\ r = apiQ
  OBVIOUS
<1>3. /\ q # <<>> /\ x = Head(q) /\ x.m = "done" /\ msgQ' = Tail(q) /\ apiQ' = r
      /\ Len(k2) = Len(k) /\ SameItems(k, k2)
      /\ \A n \in 1..Len(k) : n # x.b => k2[n] = k[n]
      /\ \/ k[x.b].op = "resume" /\ k2 = k
         \/ k2[x.b].live = IF x.i = Len(k[x.b].ids) THEN FALSE ELSE k[x.b].live
  BY <1>1, <1>2, DoneParts
<1>4. FlowTyped(k, q, r) /\ FlowTyped(k2, Tail(q), r) /\ Flow(k, q, r)
  BY <1>2, <1>3, TypedFlow DEF Flows
<1>5. \/ /\ k2[x.b].live = k[x.b].live
         /\ x.i # Len(k[x.b].ids) \/ k[x.b].op = "resume"
      \/ /\ ~k2[x.b].live /\ x.i = Len(k[x.b].ids)
         /\ x.m = "done" \/ Len(k[x.b].ids) = 1
  BY <1>3
<1>6. x.m \in {"lookup", "done"} /\ \A n \in 1..Len(k) : n # x.b => k2[n].live = k[n].live
  BY <1>3
<1>7. Flow(k2, Tail(q), r)
  BY <1>3, <1>4, <1>5, <1>6, FlowDrop
<1> QED
  BY <1>2, <1>3, <1>7 DEF Flows

LEMMA FlowProcCommand ==
    ASSUME Typed, Typed', Flows, ProcCommand
    PROVE  Flows'
<1>1. PICK b : b = Head(msgQ).b
  OBVIOUS
<1>2. PICK k, q, r : k = cmd /\ q = msgQ /\ r = apiQ
  OBVIOUS
<1>3. /\ cmd' = k /\ q # <<>> /\ Head(q).m = "cmd" /\ b = Head(q).b /\ msgQ' = Tail(q)
      /\ apiQ' = r \o [i \in DOMAIN k[b].ids |-> [a |-> "queue", b |-> b, i |-> i]]
  BY <1>1, <1>2 DEF ProcCommand, Arrived
<1>4. FlowTyped(k, q, r) /\ Flow(k, q, r)
  BY <1>2, TypedFlow DEF Flows
<1>5. b \in 1..Len(k) /\ k \in Seq(Command) /\ b \in Nat
  <2>1. k \in Seq(Command) /\ GoodMsg(k, Head(q))
    BY <1>2, <1>3, HeadMsg DEF Typed
  <2> QED
    BY <1>3, <2>1 DEF GoodMsg
<1>6. PICK n \in Nat : n = Len(k[b].ids) /\ DOMAIN k[b].ids = 1..n
  BY <1>5, CommandParts
<1>7. PICK c : c = [i \in 1..n |-> [a |-> "queue", b |-> b, i |-> i]]
  OBVIOUS
<1>8. \A i \in 1..n : [a |-> "queue", b |-> b, i |-> i] \in Call
  BY <1>5 DEF Call
<1>9. /\ c \in Seq(Call) /\ Len(c) = n
      /\ \A i \in 1..Len(c) : c[i] = [a |-> "queue", b |-> b, i |-> i]
  BY <1>7, <1>8
<1>10. \A i \in 1..Len(c) : c[i].a = "queue" /\ c[i].b = b /\ c[i].i = i
  BY <1>9
<1>11. Len(c) = Len(k[b].ids) /\ apiQ' = r \o c
  BY <1>3, <1>6, <1>7, <1>9
<1>12. Flow(k, Tail(q), r \o c)
  BY ZenonT(30), <1>3, <1>4, <1>9, <1>10, <1>11, FlowOpen
<1> QED
  BY <1>3, <1>11, <1>12 DEF Flows

LEMMA FlowProc ==
    ASSUME Typed, Typed', Flows, Proc
    PROVE  Flows'
<1>1. CASE ProcLeave
  <2>1. /\ cmd' = cmd /\ msgQ # <<>> /\ msgQ' = Tail(msgQ) /\ Head(msgQ).m = "leave"
        /\ stopClientSessions(Head(msgQ).c)
    BY <1>1 DEF ProcLeave, Arrived
  <2>2. PICK r \in Seq(Call) : apiQ' = apiQ \o r /\ \A n \in 1..Len(r) : r[n].a = "drop"
    BY <2>1, LeaveCalls
  <2> QED
    BY <2>1, <2>2, FlowHandler
<1>2. CASE Dropped
  BY <1>2, FlowHandler DEF Dropped, Arrived
<1>3. CASE ProcEngineUp
  <2>1. /\ cmd' = cmd /\ msgQ # <<>> /\ msgQ' = Tail(msgQ) /\ Head(msgQ).m = "engineUp"
        /\ restartGeofences
    BY <1>3 DEF ProcEngineUp, Arrived
  <2>2. PICK r \in Seq(Call) : apiQ' = apiQ \o r /\ \A n \in 1..Len(r) : r[n].a = "readd"
    BY <2>1, RestartCalls
  <2> QED
    BY <2>1, <2>2, FlowHandler
<1>4. CASE Readded
  <2>1. PICK x : x = Head(msgQ)
    OBVIOUS
  <2>2. /\ cmd' = cmd /\ msgQ # <<>> /\ msgQ' = Tail(msgQ) /\ x.m = "readded"
        /\ x.ok => x.hw \in HwIds
        /\ apiQ' = apiQ \/ (x.ok /\ apiQ' = Append(apiQ, [a |-> "pause", hw |-> x.hw]))
    BY <1>4, <2>1, ReaddedParts
  <2>3. CASE apiQ' = apiQ
    BY <2>1, <2>2, <2>3, FlowHandler
  <2>4. CASE x.ok /\ apiQ' = Append(apiQ, [a |-> "pause", hw |-> x.hw])
    <3>1. PICK y : y = [a |-> "pause", hw |-> x.hw]
      OBVIOUS
    <3>2. y \in Call /\ y.a = "pause"
      BY <2>2, <2>4, <3>1 DEF Call
    <3>3. apiQ \in Seq(Call)
      BY DEF Typed, CallsTyped
    <3>4. <<y>> \in Seq(Call) /\ Len(<<y>>) = 1 /\ <<y>>[1] = y
      BY <3>2
    <3>5. Append(apiQ, y) = apiQ \o <<y>>
      BY <3>2, <3>3
    <3>6. PICK c : c = <<y>>
      OBVIOUS
    <3>7. c \in Seq(Call) /\ Len(c) = 1 /\ c[1] = y
      BY <3>4, <3>6
    <3>8. \A n \in 1..Len(c) : c[n].a = "pause"
      BY <3>2, <3>7
    <3>9. apiQ' = apiQ \o c
      BY <2>4, <3>1, <3>5, <3>6
    <3> QED
      BY <2>1, <2>2, <3>7, <3>8, <3>9, FlowHandler
  <2> QED
    BY <2>2, <2>3, <2>4
<1>5. CASE ProcBreach
  BY <1>5, FlowHandler DEF ProcBreach, Arrived
<1> QED
  BY <1>1, <1>2, <1>3, <1>4, <1>5, FlowLookup, FlowDone, FlowProcCommand DEF Proc

\* A message that is about no item comes.
LEMMA FlowNews ==
    ASSUME Typed, Typed', Flows, UNCHANGED <<cmd, apiQ>>, NEW x \in Message,
           x.m \notin {"cmd", "lookup", "done"}, msgQ' = Append(msgQ, x)
    PROVE  Flows'
<1>1. PICK k, q, r : k = cmd /\ q = msgQ /\ r = apiQ
  OBVIOUS
<1>2. FlowTyped(k, q, r) /\ Flow(k, q, r) /\ FlowTyped(k, Append(q, x), r)
  BY <1>1, TypedFlow DEF Flows
<1>3. Flow(k, Append(q, x), r)
  BY <1>2, FlowPushOther
<1> QED
  BY <1>1, <1>3 DEF Flows

\* The engine answers a call that is about no item.
LEMMA FlowAnswer ==
    ASSUME Typed, Typed', Flows, cmd' = cmd, apiQ # <<>>, Head(apiQ).a \notin {"queue", "do"},
           NEW x \in Message, x.m \notin {"cmd", "lookup", "done"}, Reply(x)
    PROVE  Flows'
<1>1. PICK k, q, r : k = cmd /\ q = msgQ /\ r = apiQ
  OBVIOUS
<1>2. msgQ' = Append(q, x) /\ apiQ' = Tail(r)
  BY <1>1 DEF Reply
<1>3. FlowTyped(k, q, r) /\ Flow(k, q, r) /\ FlowTyped(k, Append(q, x), Tail(r))
  BY <1>1, <1>2, TypedFlow DEF Flows
<1>4. Flow(k, q, Tail(r)) /\ FlowTyped(k, q, Tail(r))
  BY <1>1, <1>3, FlowPopCall
<1>5. Flow(k, Append(q, x), Tail(r))
  BY <1>3, <1>4, FlowPushOther
<1> QED
  BY <1>1, <1>2, <1>5 DEF Flows

\* The engine takes an item on.
LEMMA FlowItem ==
    ASSUME Typed, Typed', Flows, cmd' = cmd, apiQ # <<>>, NEW x \in Message,
           \/ Head(apiQ).a = "queue" /\ x.m = "lookup"
           \/ Head(apiQ).a = "do" /\ x.m = "done",
           x.b = Head(apiQ).b, x.i = Head(apiQ).i, Reply(x)
    PROVE  Flows'
<1>1. PICK k, q, r : k = cmd /\ q = msgQ /\ r = apiQ
  OBVIOUS
<1>2. msgQ' = Append(q, x) /\ apiQ' = Tail(r)
  BY <1>1 DEF Reply
<1>3. FlowTyped(k, q, r) /\ Flow(k, q, r) /\ FlowTyped(k, Append(q, x), Tail(r))
  BY <1>1, <1>2, TypedFlow DEF Flows
<1>4. Flow(k, Append(q, x), Tail(r))
  BY <1>1, <1>3, FlowToMessage
<1> QED
  BY <1>1, <1>2, <1>4 DEF Flows

LEMMA FlowEngineStep ==
    ASSUME Typed, Typed', Flows, EngineStep
    PROVE  Flows'
<1>1. CASE EngineQueue
  <2>1. PICK x : x = [m |-> "lookup", b |-> Head(apiQ).b, i |-> Head(apiQ).i]
    OBVIOUS
  <2>2. /\ apiQ # <<>> /\ Head(apiQ).a = "queue" /\ cmd' = cmd /\ x \in Message /\ Reply(x)
    BY <1>1, <2>1, EngineQueueParts
  <2>3. x.m = "lookup" /\ x.b = Head(apiQ).b /\ x.i = Head(apiQ).i
    BY <2>1
  <2> QED
    BY <2>2, <2>3, FlowItem
<1>2. CASE EngineDo
  <2>1. PICK y : y = Head(apiQ)
    OBVIOUS
  <2>2. /\ apiQ # <<>> /\ y.a = "do" /\ HasItem(cmd, y) /\ y \in Call /\ cmd' = cmd
        /\ \/ \E hw \in HwIds : Reply(DoneMsg(y, hw, TRUE))
           \/ y.hw \in HwIds /\ Reply(DoneMsg(y, y.hw, TRUE))
           \/ Reply(DoneMsg(y, y.hw, FALSE))
    BY <1>2, <2>1, EngineDoParts
  <2>3. y.hw \in AnyHw /\ HwIds \subseteq AnyHw
    BY <2>2, CallParts DEF AnyHw
  <2>4. PICK hw \in AnyHw, ok \in BOOLEAN : Reply(DoneMsg(y, hw, ok)) /\ (ok => hw \in HwIds)
    BY <2>2, <2>3
  <2>5. PICK x : x = DoneMsg(y, hw, ok)
    OBVIOUS
  <2>6. x \in Message /\ x.m = "done" /\ x.b = y.b /\ x.i = y.i
    BY <2>2, <2>4, <2>5, DoneMsgTyped
  <2>7. Reply(x)
    BY <2>4, <2>5
  <2> QED
    BY <2>1, <2>2, <2>6, <2>7, FlowItem
<1>3. CASE EngineReadd
  <2>1. PICK old : old = Head(apiQ).old
    OBVIOUS
  <2>2. /\ apiQ # <<>> /\ Head(apiQ).a = "readd" /\ old \in FenceRecord /\ cmd' = cmd
        /\ \/ \E hw \in HwIds : Reply(ReaddMsg(old, hw, TRUE))
           \/ Reply(ReaddMsg(old, 0, FALSE))
    BY <1>3, <2>1, EngineReaddParts
  <2>3. PICK hw \in AnyHw, ok \in BOOLEAN : Reply(ReaddMsg(old, hw, ok)) /\ (ok => hw \in HwIds)
    BY <2>2 DEF AnyHw
  <2>4. PICK x : x = ReaddMsg(old, hw, ok)
    OBVIOUS
  <2>5. x \in Message /\ x.m = "readded"
    BY <2>2, <2>3, <2>4, ReaddMsgTyped
  <2>6. Reply(x)
    BY <2>3, <2>4
  <2> QED
    BY <2>2, <2>5, <2>6, FlowAnswer
<1>4. CASE EnginePause
  <2>1. PICK k, q, r : k = cmd /\ q = msgQ /\ r = apiQ
    OBVIOUS
  <2>2. r # <<>> /\ apiQ' = Tail(r) /\ cmd' = k /\ msgQ' = q
    BY <1>4, <2>1, EnginePauseParts
  <2>3. Head(r).a = "pause"
    BY <1>4, <2>1 DEF EnginePause
  <2>4. FlowTyped(k, q, r) /\ Flow(k, q, r)
    BY <2>1, TypedFlow DEF Flows
  <2>5. Flow(k, q, Tail(r))
    BY <2>2, <2>3, <2>4, FlowPopCall
  <2> QED
    BY <2>2, <2>5 DEF Flows
<1>5. CASE EngineDrop
  <2>1. PICK hw : hw = Head(apiQ).hw
    OBVIOUS
  <2>2. /\ apiQ # <<>> /\ Head(apiQ).a = "drop" /\ hw \in HwIds /\ cmd' = cmd
        /\ Reply(DropMsg(hw, TRUE)) \/ Reply(DropMsg(hw, FALSE))
    BY <1>5, <2>1, EngineDropParts
  <2>3. PICK ok \in BOOLEAN : Reply(DropMsg(hw, ok))
    BY <2>2
  <2>4. PICK x : x = DropMsg(hw, ok)
    OBVIOUS
  <2>5. x \in Message /\ x.m = "dropped"
    BY <2>2, <2>4, DropMsgTyped
  <2>6. Reply(x)
    BY <2>3, <2>4
  <2> QED
    BY <2>2, <2>5, <2>6, FlowAnswer
<1>6. CASE EngineUp
  <2>1. PICK x : x = [m |-> "engineUp"]
    OBVIOUS
  <2>2. x \in Message /\ x.m = "engineUp"
    BY <2>1 DEF Message
  <2>3. UNCHANGED <<cmd, apiQ>> /\ msgQ' = Append(msgQ, x)
    BY <1>6, <2>1 DEF EngineUp
  <2> QED
    BY <2>2, <2>3, FlowNews
<1> QED
  BY <1>1, <1>2, <1>3, <1>4, <1>5, <1>6 DEF EngineStep

LEMMA FlowPosted ==
    ASSUME Typed, Flows, NEW op \in Ops, NEW c \in Clients, NEW list \in Seq(Ids), NEW opt \in Opts,
           Len(list) >= 1, op # "add" => Len(list) = 1,
           Post(op, c, list, opt), apiQ' = apiQ
    PROVE  Flows'
<1>1. PICK k, k2, q, r : k = cmd /\ k2 = cmd' /\ q = msgQ /\ r = apiQ
  OBVIOUS
<1>2. PICK x : x = [m |-> "cmd", b |-> Len(k) + 1]
  OBVIOUS
<1>3. /\ Len(k2) = Len(k) + 1 /\ \A n \in 1..Len(k) : k2[n] = k[n]
      /\ k2[Len(k) + 1].op = op /\ k2[Len(k) + 1].ids = list /\ k2[Len(k) + 1].live
      /\ msgQ' = Append(q, x) /\ x \in Message
  BY <1>1, <1>2, PostTyped
<1>4. x.m = "cmd" /\ x.b = Len(k) + 1
  BY <1>2
<1>5. FlowTyped(k, q, r) /\ Flow(k, q, r)
  BY <1>1, TypedFlow DEF Flows
<1>6. Flow(k2, Append(q, x), r)
  BY <1>3, <1>4, <1>5, FlowPost
<1> QED
  BY <1>1, <1>3, <1>6 DEF Flows

LEMMA FlowAdd ==
    ASSUME Typed, Flows, NEW c \in Clients, NEW n \in AddCounts,
           addGeofencesCommand(c, n, FirstOpt)
    PROVE  Flows'
<1>1. n \in Nat \ {0}
  BY NumbersAssumption
<1>2. PICK list : list = [i \in 1..n |-> Len(owner) + i]
  OBVIOUS
<1>3. Len(owner) \in Nat /\ Len(owner) + n <= MaxFences
  BY DEF addGeofencesCommand, Typed, OthersTyped
<1>4. \A i \in 1..n : Len(owner) + i \in Ids
  BY <1>1, <1>3, Numbers DEF Ids
<1>5. list \in Seq(Ids) /\ Len(list) = n
  BY <1>1, <1>2, <1>4
<1>6. Post("add", c, list, FirstOpt) /\ apiQ' = apiQ
  BY <1>2 DEF addGeofencesCommand
<1>7. "add" \in Ops /\ FirstOpt \in Opts /\ Len(list) >= 1
  BY <1>1, <1>5, Numbers DEF Ops
<1> QED
  BY <1>5, <1>6, <1>7, FlowPosted

LEMMA FlowOther ==
    ASSUME Counts \subseteq {1}, Typed, Flows, NEW op \in {"remove", "pause", "resume", "modify"},
           NEW c \in Clients, NEW list \in Lists, NEW opt \in Opts, otherCommand(op, c, list, opt)
    PROVE  Flows'
<1>1. Post(op, c, list, opt) /\ apiQ' = apiQ
  BY DEF otherCommand
<1>2. list \in Seq(Ids) /\ Len(list) = 1
  BY ListTyped DEF Typed
<1>3. op \in Ops
  BY DEF Ops
<1> QED
  BY <1>1, <1>2, <1>3, FlowPosted

LEMMA FlowStep ==
    ASSUME Counts \subseteq {1}, Typed, Typed', Flows, [Next]_vars
    PROVE  Flows'
<1>1. CASE UNCHANGED vars
  BY <1>1 DEF vars, Flows
<1>2. CASE Proc
  BY <1>2, FlowProc
<1>3. CASE EngineStep
  BY <1>3, FlowEngineStep
<1>4. CASE EngineDown
  BY <1>4 DEF EngineDown, Flows
<1>5. ASSUME NEW c \in Clients, Leave(c) PROVE Flows'
  <2>1. PICK x : x = [m |-> "leave", c |-> c]
    OBVIOUS
  <2>2. x \in Message /\ x.m = "leave"
    BY <2>1 DEF Message
  <2>3. UNCHANGED <<cmd, apiQ>> /\ msgQ' = Append(msgQ, x)
    BY <1>5, <2>1 DEF Leave
  <2> QED
    BY <2>2, <2>3, FlowNews
<1>6. ASSUME NEW c \in Clients, NEW n \in AddCounts, addGeofencesCommand(c, n, FirstOpt)
      PROVE  Flows'
  BY <1>6, FlowAdd
<1>7. ASSUME NEW c \in Clients, NEW list \in Lists, NEW op \in {"remove", "pause", "resume"},
             otherCommand(op, c, list, FirstOpt)
      PROVE  Flows'
  BY <1>7, Numbers, FlowOther
<1>8. ASSUME NEW c \in Clients, NEW list \in Lists, NEW opt \in Opts,
             otherCommand("modify", c, list, opt)
      PROVE  Flows'
  BY <1>8, FlowOther
<1>9. ASSUME NEW hw \in DOMAIN engine, Breach(hw) PROVE Flows'
  <2>1. hw \in HwIds /\ engine[hw].id \in Ids
    BY FenceParts DEF Typed, EngineTyped
  <2>2. PICK id \in Ids : id = engine[hw].id
    BY <2>1
  <2>3. PICK x : x = [m |-> "breach", hw |-> hw, id |-> id]
    OBVIOUS
  <2>4. x \in Message /\ x.m = "breach"
    BY <2>1, <2>3 DEF Message
  <2>5. UNCHANGED <<cmd, apiQ>> /\ msgQ' = Append(msgQ, x)
    BY <1>9, <2>2, <2>3 DEF Breach
  <2> QED
    BY <2>4, <2>5, FlowNews
<1> QED
  BY <1>1, <1>2, <1>3, <1>4, <1>5, <1>6, <1>7, <1>8, <1>9 DEF Next

LEMMA FlowInit == Init => Flows
<1> SUFFICES ASSUME Init PROVE Flows
  OBVIOUS
<1>1. Len(cmd) = 0 /\ Len(msgQ) = 0 /\ Len(apiQ) = 0
  BY DEF Init
<1>2. \A b, i : \A s, n : ~At(msgQ, apiQ, s, n, b, i)
  BY <1>1 DEF At
<1> QED
  BY <1>1, <1>2
     DEF Flows, Flow, LastIsLast, ItemsAreLive, WaitsOnce, OpenIsUnderWay, OneItem

\* If no command but an addition is about several geofences, a command is reported, but for a
\* resume that is refused, and no answer comes in for one whose arrays have been deleted: for
\* any clients, commands and restarts, and whatever the engine refuses (reportResponse, and
\* the last callback of each command).
THEOREM ReportedOnceAlways ==
    ASSUME Counts \subseteq {1}
    PROVE  Spec => []ReportedOnce
<1>1. Init => Typed /\ Flows
  BY TypedInit, FlowInit
<1>2. Typed /\ Flows /\ [Next]_vars => Typed' /\ Flows'
  BY TypedStep, FlowStep
<1>3. Typed /\ Flows => ReportedOnce
  <2> SUFFICES ASSUME Typed, Flows PROVE ReportedOnce
    OBVIOUS
  <2>1. PICK k, q, r : k = cmd /\ q = msgQ /\ r = apiQ
    OBVIOUS
  <2>2. FlowTyped(k, q, r) /\ Flow(k, q, r)
    BY <2>1, TypedFlow DEF Flows
  <2>3. k \in Seq(Command) /\ q \in Seq(Message) /\ r \in Seq(Call)
    BY <2>2 DEF FlowTyped
  <2>4. ASSUME NEW n \in DOMAIN q, q[n].m \in {"lookup", "done"}
        PROVE  k[q[n].b].live
    <3>1. n \in 1..Len(q) /\ n \in Nat \ {0}
      BY <2>3
    <3>2. GoodMsg(k, q[n]) /\ q[n] \in Message
      BY <2>2, <2>3, <3>1 DEF FlowTyped
    <3>3. q[n].b \in 1..Len(k) /\ q[n].i \in Nat
      BY <2>4, <3>2, MessageParts DEF GoodMsg, HasItem
    <3>4. PICK s \in 1..4 : At(q, r, s, n, q[n].b, q[n].i)
      BY <2>4, <3>1 DEF At
    <3> QED
      BY <2>2, <3>1, <3>3, <3>4 DEF Flow, ItemsAreLive
  <2>5. ASSUME Quiet, NEW b \in DOMAIN k, k[b].live PROVE k[b].op = "resume"
    <3>1. Len(q) = 0 /\ Len(r) = 0 /\ b \in 1..Len(k)
      BY <2>1, <2>3, <2>5 DEF Quiet
    <3>2. ~Waits(q, b)
      BY <3>1 DEF Waits
    <3>3. \A s \in 1..4, n \in Nat \ {0} : ~At(q, r, s, n, b, Len(k[b].ids))
      BY <3>1 DEF At
    <3> QED
      BY <2>2, <2>5, <3>1, <3>2, <3>3 DEF Flow, OpenIsUnderWay
  <2> QED
    BY <2>1, <2>4, <2>5 DEF ReportedOnce
<1> QED
  BY <1>1, <1>2, <1>3, PTL DEF Spec
=============================================================================
