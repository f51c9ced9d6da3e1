--------------------------- MODULE RollbackProofs ---------------------------
(***************************************************************************)
(* The netplay rollback proved for every delay, prediction, depth of the   *)
(* snapshot ring, length of match, number of wrong rows and of rows        *)
(* sampled again: what a peer has committed was run with the true rows,    *)
(* its snapshots are its machine as it was, and a tip is committed only on *)
(* a state that both peers are in.                                         *)
(*                                                                         *)
(* The first invariant is one of each peer alone (Sound): whatever         *)
(* messages the link delivers, every operation on a record keeps it. What  *)
(* it needs to be inductive is that the snapshots are of one run with each *)
(* other, and not only with the machine (OneRun): a load goes back along   *)
(* it and a replay starts it again. Shape is what stays true between the   *)
(* load and the end of the replay, while the machine is older than its     *)
(* snapshots.                                                              *)
(*                                                                         *)
(* The second (Link) relates the peers by the messages between them: who   *)
(* has answered for a tip stands by that answer while it is in the         *)
(* episode. Since says what one peer may have become in a step.            *)
(***************************************************************************)
EXTENDS Rollback, FiniteSetTheorems, TLAPS

---------------------------------------------------------------------------
(* The invariant.                                                          *)

Epoch  == Peers \X Nat
Called == Epoch \ {NoEpoch}

Snapshots == UNION {[D -> Machine] : D \in SUBSET Tick}

\* The messages of an episode, as their receiver finds them.
Begin == {m \in [op : {"begin"}, epoch : Called, load : Tick, target : Tick] :
            m.load <= m.target}

Rows == [op : {"rows"}, epoch : Epoch, load : Tick, target : Tick, odd : SUBSET Tick]

Message ==
  Begin \cup Rows
        \cup [op : {"extend"}, epoch : Epoch, target : Tick]
        \cup [op : {"nack", "commit"}, epoch : Epoch]
        \cup [op : {"abort"}, epoch : Epoch, class : {"abort", "realign"}]
        \cup [op : {"base"}, epoch : Epoch, load : Tick, digest : Machine]
        \cup [op : {"post"}, epoch : Epoch, target : Tick, digest : Machine]

Post == [target : Tick, digest : Machine]

\* The sets of the fields, each by a name of its own.
Stages    == {"idle", "sealing", "verifying", "tiphold"}
SimTick   == 1 .. MaxTick
Horizon   == 0 .. MaxTick
Ticks     == SUBSET Tick
PadTicks  == SUBSET Int
PadRows   == SUBSET (Peers \X Tick)
Baselines == Machine \cup {None}
Answers   == Post \cup {None}
Grown     == 0 .. MaxExtends
Sent      == SUBSET Message

\* One peer's g_rb.
Peer ==
  [slot : Peers, stage : Stages, sim : SimTick, prepared : Nat, published : Horizon,
   resampled : PadTicks, known : Tick, held : Nat, guessed : Ticks, missed : Ticks,
   odd : PadRows, mach : Machine, snaps : Snapshots, initiator : BOOLEAN,
   epoch : Epoch, seq : Nat, load : Tick, target : Tick, rows : Ticks,
   sealed : PadRows, base : Baselines, peerBase : Baselines, peerPost : Answers,
   extends : Grown, cooldown : Nat, forkCap : Nat, forkSeen : BOOLEAN,
   lockstep : Nat, committed : Tick, out : Sent]

\* What an episode is in each stage, and that there is none when idle.
Episode(r) ==
  /\ r.missed \subseteq r.guessed
  /\ r.rows \subseteq Span(r)
  /\ \A x \in r.sealed : x[2] \in Span(r)
  /\ (r.stage = "idle") = (r.epoch = NoEpoch)
  /\ r.stage = "idle" => r.rows = {} /\ r.base = None /\ r.peerBase = None
                         /\ r.peerPost = None
  /\ r.load <= r.target
  /\ r.stage = "sealing" => r.load \in DOMAIN r.snaps
  /\ r.stage \in {"verifying", "tiphold"} => r.target < r.sim

\* A machine that knows nothing of tick t and later.
Before(mach, t) ==
  /\ mach.wrong \cup mach.skipped \subseteq 0 .. t - 1
  /\ \A x \in mach.odd : x[2] < t

\* The ring is not empty nor larger than it is, and a machine has run, or skipped,
\* the ticks before it.
Ring(r) ==
  /\ DOMAIN r.snaps # {} /\ Cardinality(DOMAIN r.snaps) <= Depth
  /\ Before(r.mach, r.sim)
  /\ \A s \in DOMAIN r.snaps : s < r.sim /\ Before(r.snaps[s], s)

\* Snapshot k of tick s is of the run that machine m is in, or was skipped by it.
OfRun(k, s, m) == k = AsOf(m, s) \/ {s - 1, s} \subseteq m.skipped

\* The snapshots and the machine are of one run.
OneRun(r) ==
  /\ \A s \in DOMAIN r.snaps : OfRun(r.snaps[s], s, r.mach)
  /\ \A s, u \in DOMAIN r.snaps : s < u => OfRun(r.snaps[s], s, r.snaps[u])

\* Without a fork no tick is skipped and what is committed is right.
Exact(r) ==
  ~r.forkSeen => /\ r.mach.skipped = {}
                 /\ r.committed < r.sim
                 /\ r.mach.wrong \cap 0 .. r.committed = {}

\* The record and its episode; the run that it holds; both.
Shape(r) == r \in Peer /\ Episode(r)

Run(r) == Ring(r) /\ OneRun(r) /\ Exact(r)

Sound(r) == Shape(r) /\ Run(r)

Envelope == [to : Peers, msg : Message]

IInv ==
  /\ st \in [Peers -> Peer]
  /\ \A p \in Peers : st[p].slot = p /\ Sound(st[p])
  /\ net \subseteq Envelope
  /\ misses \in 0 .. MaxMisses /\ again \in 0 .. MaxAgain

---------------------------------------------------------------------------
(* Finite sets of ticks.                                                   *)

\* A finite set that is not empty has a least and a greatest element.
LEMMA MinProperties ==
  ASSUME NEW S \in SUBSET Int, IsFiniteSet(S), S # {}
  PROVE  Min(S) \in S /\ \A y \in S : Min(S) <= y
<1> DEFINE Below(x) == {y \in S : y < x}
           All == {Below(x) : x \in S}
<1>1. All \subseteq FiniteSubsetsOf(S)
  BY FS_Subset DEF FiniteSubsetsOf
<1>0. All # {} /\ \A x \in S : Below(x) \in All
  OBVIOUS
<1>2. \E D \in All : \A E \in All : ~(<<E, D>> \in StrictSubsetOrdering(S))
  <2> HIDE DEF All
  <2>. QED BY <1>0, <1>1, FS_StrictSubsetOrderingWellFounded, WFMin
<1>2a. PICK D \in All : \A E \in All : ~(<<E, D>> \in StrictSubsetOrdering(S))
  BY <1>2
<1>3. PICK x \in S : D = Below(x)
  BY <1>2
<1>4. \A y \in S : x <= y
  <2> SUFFICES ASSUME NEW y \in S, y < x PROVE FALSE
    OBVIOUS
  <2>0. x \in Int /\ y \in Int /\ ~(y < y)
    OBVIOUS
  <2>1. Below(y) \subseteq Below(x)
    <3> SUFFICES ASSUME NEW z \in S, z < y PROVE z < x
      OBVIOUS
    <3>. QED BY <2>0
  <2>1a. y \in Below(x) /\ y \notin Below(y) /\ Below(x) \in SUBSET S
    BY <2>0
  <2>2. <<Below(y), D>> \in StrictSubsetOrdering(S)
    BY <2>1, <2>1a, <1>3 DEF StrictSubsetOrdering
  <2>. QED BY <2>2, <1>2a, <1>0
<1>. QED BY <1>4 DEF Min

\* The greatest likewise.
LEMMA MaxProperties ==
  ASSUME NEW S \in SUBSET Int, IsFiniteSet(S), S # {}
  PROVE  Max(S) \in S /\ \A y \in S : y <= Max(S)
<1> DEFINE Above(x) == {y \in S : y > x}
           All == {Above(x) : x \in S}
<1>1. All \subseteq FiniteSubsetsOf(S)
  BY FS_Subset DEF FiniteSubsetsOf
<1>0. All # {} /\ \A x \in S : Above(x) \in All
  OBVIOUS
<1>2. \E D \in All : \A E \in All : ~(<<E, D>> \in StrictSubsetOrdering(S))
  <2> HIDE DEF All
  <2>. QED BY <1>0, <1>1, FS_StrictSubsetOrderingWellFounded, WFMin
<1>2a. PICK D \in All : \A E \in All : ~(<<E, D>> \in StrictSubsetOrdering(S))
  BY <1>2
<1>3. PICK x \in S : D = Above(x)
  BY <1>2
<1>4. \A y \in S : y <= x
  <2> SUFFICES ASSUME NEW y \in S, y > x PROVE FALSE
    OBVIOUS
  <2>0. x \in Int /\ y \in Int /\ ~(y > y)
    OBVIOUS
  <2>1. Above(y) \subseteq Above(x)
    <3> SUFFICES ASSUME NEW z \in S, z > y PROVE z > x
      OBVIOUS
    <3>. QED BY <2>0
  <2>1a. y \in Above(x) /\ y \notin Above(y) /\ Above(x) \in SUBSET S
    BY <2>0
  <2>2. <<Above(y), D>> \in StrictSubsetOrdering(S)
    BY <2>1, <2>1a, <1>3 DEF StrictSubsetOrdering
  <2>. QED BY <2>2, <1>2a, <1>0
<1>. QED BY <1>4 DEF Max

\* The maximum of two numbers.
LEMMA MaxOfTwo ==
  ASSUME NEW a \in Int, NEW b \in Int
  PROVE  Max({a, b}) = IF a >= b THEN a ELSE b
BY DEF Max

\* The minimum of two numbers.
LEMMA MinOfTwo ==
  ASSUME NEW a \in Int, NEW b \in Int
  PROVE  Min({a, b}) = IF a <= b THEN a ELSE b
BY DEF Min

\* The ring keeps some of its ticks, no more than Depth, and every tick that fewer
\* than Depth others are after.
LEMMA NewestProperties ==
  ASSUME NEW T \in SUBSET Int, IsFiniteSet(T)
  PROVE  /\ Newest(T) \subseteq T
         /\ IsFiniteSet(Newest(T))
         /\ T # {} => Newest(T) # {}
         /\ Cardinality(Newest(T)) <= Depth
<1> USE RollbackAssumption
<1>1. Newest(T) \subseteq T /\ IsFiniteSet(Newest(T))
  BY FS_Subset DEF Newest
<1>2. ASSUME T # {} PROVE Newest(T) # {}
  <2>1. Max(T) \in T /\ \A u \in T : u <= Max(T)
    BY <1>2, MaxProperties
  <2>2. {u \in T : u > Max(T)} = {}
    <3> SUFFICES ASSUME NEW u \in T, u > Max(T) PROVE FALSE
      OBVIOUS
    <3>1. u \in Int /\ Max(T) \in Int /\ u <= Max(T)
      BY <2>1
    <3>. QED BY <3>1
  <2>3. Cardinality({u \in T : u > Max(T)}) < Depth
    BY <2>2, FS_EmptySet
  <2>. QED BY <2>1, <2>3 DEF Newest
<1>3. CASE Newest(T) = {}
  BY <1>1, <1>2, <1>3, FS_EmptySet
<1>4. CASE Newest(T) # {}
  <2> DEFINE m == Min(Newest(T))
             A == {u \in T : u > m}
  <2>1. m \in Newest(T) /\ \A y \in Newest(T) : m <= y
    BY <1>1, <1>4, MinProperties
  <2>2. Cardinality(A) < Depth /\ m \in T
    BY <2>1 DEF Newest
  <2>3. Newest(T) \subseteq A \cup {m}
    <3> SUFFICES ASSUME NEW y \in Newest(T), y # m PROVE y > m
      BY <1>1
    <3>1. y \in Int /\ m \in Int /\ m <= y
      BY <2>1, <2>2, <1>1
    <3>. QED BY <3>1
  <2>4. IsFiniteSet(A)
    BY FS_Subset
  <2>5. IsFiniteSet(A \cup {m}) /\ Cardinality(A \cup {m}) <= Cardinality(A) + 1
        /\ Cardinality(A) \in Nat
    <3> HIDE DEF A, m
    <3>1. Cardinality(A) \in Nat
      BY <2>4, FS_CardinalityType
    <3>2. IsFiniteSet(A \cup {m})
          /\ Cardinality(A \cup {m}) = IF m \in A THEN Cardinality(A) ELSE Cardinality(A) + 1
      BY <2>4, FS_AddElement
    <3>. QED BY <3>1, <3>2
  <2>6. Cardinality(Newest(T)) <= Cardinality(A \cup {m})
    BY <2>3, <2>5, FS_Subset
  <2>7. Cardinality(Newest(T)) \in Nat /\ Cardinality(A \cup {m}) \in Nat
    BY <1>1, <2>5, FS_CardinalityType
  <2>. QED BY <1>1, <1>2, <2>2, <2>5, <2>6, <2>7
<1>. QED BY <1>3, <1>4


\* The watched ticks are finitely many naturals.
LEMMA TickFinite == IsFiniteSet(Tick) /\ Tick \subseteq Nat /\ 0 \in Tick
<1>1. MaxTick \in Nat \ {0}
  BY RollbackAssumption
<1>2. IsFiniteSet(0 .. MaxTick - 1)
  BY <1>1, FS_Interval
<1>. QED BY <1>1, <1>2 DEF Tick

\* The ticks a ring keeps of some.
LEMMA KeysProperties ==
  ASSUME NEW U \in SUBSET Tick
  PROVE  /\ Newest(U) \subseteq U
         /\ U # {} => Newest(U) # {}
         /\ Cardinality(Newest(U)) <= Depth
<1>1. IsFiniteSet(U) /\ U \in SUBSET Int
  <2>1. IsFiniteSet(U)
    BY TickFinite, FS_Subset
  <2>. QED BY <2>1, TickFinite
<1>. QED BY <1>1, NewestProperties

\* A ring that holds the load of a span keeps the span's last tick.
LEMMA TargetStays ==
  ASSUME NEW D \in SUBSET Tick, NEW load \in D, NEW target \in Tick, load <= target,
         Cardinality(D) <= Depth
  PROVE  target \in Newest(D \cup load .. target)
<1>. DEFINE U == D \cup load .. target
            A == {u \in U : u > target}
<1>1. IsFiniteSet(D) /\ D \in SUBSET Int /\ load \in Int /\ target \in Int
  <2>1. IsFiniteSet(D)
    BY TickFinite, FS_Subset
  <2>. QED BY <2>1, TickFinite
<1>2. A \subseteq D \ {load}
  BY <1>1
<1>3. IsFiniteSet(D \ {load}) /\ Cardinality(D \ {load}) = Cardinality(D) - 1
      /\ Cardinality(D) \in Nat
  BY <1>1, FS_RemoveElement, FS_CardinalityType
<1>4. IsFiniteSet(A) /\ Cardinality(A) <= Cardinality(D \ {load})
  BY <1>2, <1>3, FS_Subset
<1>5. Cardinality(A) \in Nat
  BY <1>4, FS_CardinalityType
<1>6. Cardinality(A) < Depth
  BY <1>3, <1>4, <1>5, RollbackAssumption
<1>7. target \in U
  BY <1>1
<1>. QED BY <1>6, <1>7 DEF Newest

---------------------------------------------------------------------------
(* Machines as they were.                                                  *)

\* A row of a peer is of a watched tick.
LEMMA RowTick ==
  \A x \in Peers \X Tick : x[1] \in Peers /\ x[2] \in Tick /\ x[2] \in Nat
BY TickFinite

\* A machine as it was is a machine that knows nothing of the ticks after.
LEMMA AsOfMachine ==
  ASSUME NEW m \in Machine, NEW t
  PROVE  AsOf(m, t) \in Machine /\ AsOf(m, t).wrong \subseteq m.wrong
         /\ AsOf(m, t).skipped = m.skipped \cap 0 .. t - 1
         /\ AsOf(m, t).wrong = m.wrong \cap 0 .. t - 1
         /\ AsOf(m, t).odd = {x \in m.odd : x[2] < t}
<1>1. m.wrong \in SUBSET Tick /\ m.skipped \in SUBSET Tick /\ m.odd \in SUBSET (Peers \X Tick)
  BY DEF Machine
<1>. QED BY <1>1 DEF AsOf, Machine

\* Two machines are equal when all they know is.
LEMMA SameMachine ==
  ASSUME NEW a \in Machine, NEW b \in Machine,
         a.wrong = b.wrong, a.skipped = b.skipped, a.odd = b.odd
  PROVE  a = b
BY DEF Machine

\* A machine before t as it was at t is all of it.
LEMMA AsOfWhole ==
  ASSUME NEW m \in Machine, NEW t \in Nat
  PROVE  /\ Before(AsOf(m, t), t)
         /\ Before(m, t) => AsOf(m, t) = m
<1>1. Before(AsOf(m, t), t)
  BY AsOfMachine DEF Before
<1>2. ASSUME Before(m, t) PROVE AsOf(m, t) = m
  <2>1. m.wrong \cap 0 .. t - 1 = m.wrong /\ m.skipped \cap 0 .. t - 1 = m.skipped
        /\ {x \in m.odd : x[2] < t} = m.odd
    BY <1>2 DEF Before
  <2> DEFINE a == AsOf(m, t)
  <2>2. a \in Machine /\ a.wrong = m.wrong /\ a.skipped = m.skipped /\ a.odd = m.odd
    BY <2>1, AsOfMachine
  <2> HIDE DEF a
  <2>3. a = m
    BY <2>2, SameMachine
  <2>. QED BY <2>3 DEF a
<1>. QED BY <1>1, <1>2

\* A machine as it was at s, of one as it was later.
LEMMA AsOfTwice ==
  ASSUME NEW m \in Machine, NEW s \in Nat, NEW t \in Nat, s <= t
  PROVE  AsOf(AsOf(m, t), s) = AsOf(m, s)
<1> DEFINE a == AsOf(m, t)
<1>1. a \in Machine /\ a.skipped = m.skipped \cap 0 .. t - 1
      /\ a.wrong = m.wrong \cap 0 .. t - 1 /\ a.odd = {x \in m.odd : x[2] < t}
      /\ m.odd \subseteq Peers \X Tick
  BY AsOfMachine DEF Machine
<1>2. 0 .. s - 1 \subseteq 0 .. t - 1
  OBVIOUS
<1>3. \A x \in m.odd : x[2] < s => x[2] < t
  <2> SUFFICES ASSUME NEW x \in m.odd, x[2] < s PROVE x[2] < t
    OBVIOUS
  <2>1. x \in Peers \X Tick
    BY <1>1
  <2>2. x[2] \in Nat
    BY <2>1, RowTick
  <2>. QED BY <2>2
<1> HIDE DEF a
<1>4. /\ a.wrong \cap 0 .. s - 1 = m.wrong \cap 0 .. s - 1
      /\ a.skipped \cap 0 .. s - 1 = m.skipped \cap 0 .. s - 1
      /\ {x \in a.odd : x[2] < s} = {x \in m.odd : x[2] < s}
  BY <1>1, <1>2, <1>3
<1>5. AsOf(a, s) = AsOf(m, s)
  BY <1>4 DEF AsOf
<1>. QED BY <1>5 DEF a

\* Two machines that differ only from tick t on are the same before it.
LEMMA AsOfSame ==
  ASSUME NEW a \in Machine, NEW b \in Machine, NEW t \in Nat,
         a.wrong \cap 0 .. t - 1 = b.wrong \cap 0 .. t - 1,
         a.skipped \cap 0 .. t - 1 = b.skipped \cap 0 .. t - 1,
         \A x \in Peers \X Tick : x[2] < t => (x \in a.odd <=> x \in b.odd)
  PROVE  AsOf(a, t) = AsOf(b, t)
<1>1. a.odd \in SUBSET (Peers \X Tick) /\ b.odd \in SUBSET (Peers \X Tick)
  BY DEF Machine
<1>2. {x \in a.odd : x[2] < t} = {x \in b.odd : x[2] < t}
  BY <1>1
<1>. QED BY <1>2 DEF AsOf

\* A snapshot that is of the run of a machine is of the run of that machine as it was
\* later.
LEMMA OfRunAsOf ==
  ASSUME NEW m \in Machine, NEW k, NEW s \in Nat, NEW u \in Nat, s < u, OfRun(k, s, m)
  PROVE  OfRun(k, s, AsOf(m, u))
<1>1. CASE k = AsOf(m, s)
  <2>1. AsOf(AsOf(m, u), s) = AsOf(m, s)
    BY AsOfTwice
  <2>. QED BY <1>1, <2>1 DEF OfRun
<1>2. CASE {s - 1, s} \subseteq m.skipped
  <2>1. m.skipped \subseteq Nat
    BY TickFinite DEF Machine
  <2>2. s - 1 \in 0 .. u - 1 /\ s \in 0 .. u - 1
    BY <1>2, <2>1
  <2>3. AsOf(m, u).skipped = m.skipped \cap 0 .. u - 1
    BY AsOfMachine
  <2>. QED BY <1>2, <2>2, <2>3 DEF OfRun
<1>. QED BY <1>1, <1>2 DEF OfRun

---------------------------------------------------------------------------
(* Operations on one peer's record.                                        *)

\* The fields of a record, as they are declared.
LEMMA PeerFields ==
  ASSUME NEW r \in Peer
  PROVE  /\ r.slot \in Peers /\ r.stage \in Stages /\ r.sim \in 1 .. MaxTick
         /\ r.prepared \in Nat /\ r.published \in 0 .. MaxTick
         /\ r.resampled \in SUBSET Int /\ r.known \in Tick /\ r.held \in Nat
         /\ r.guessed \in SUBSET Tick /\ r.missed \in SUBSET Tick
         /\ r.odd \in SUBSET (Peers \X Tick) /\ r.mach \in Machine
         /\ r.snaps \in Snapshots /\ r.initiator \in BOOLEAN /\ r.epoch \in Epoch
         /\ r.seq \in Nat /\ r.load \in Tick /\ r.target \in Tick
         /\ r.rows \in SUBSET Tick /\ r.sealed \in SUBSET (Peers \X Tick)
         /\ r.base \in Machine \cup {None} /\ r.peerBase \in Machine \cup {None}
         /\ r.peerPost \in Post \cup {None} /\ r.extends \in 0 .. MaxExtends
         /\ r.cooldown \in Nat /\ r.forkCap \in Nat /\ r.forkSeen \in BOOLEAN
         /\ r.lockstep \in Nat /\ r.committed \in Tick /\ r.out \in SUBSET Message
BY DEF Peer, SimTick, Horizon, Ticks, PadTicks, PadRows, Baselines, Answers, Grown, Sent

\* Values that fields of an episode may take.
LEMMA FieldValues ==
  /\ 0 \in Tick /\ NoEpoch \in Epoch /\ 0 \in Grown /\ None \in Baselines
  /\ None \in Answers /\ {} \in Ticks /\ {} \in PadRows
  /\ "idle" \in Stages /\ "sealing" \in Stages /\ "verifying" \in Stages
  /\ "tiphold" \in Stages
<1>1. 0 \in Tick /\ 0 \in Grown
  BY TickFinite, RollbackAssumption DEF Grown
<1>2. NoEpoch \in Epoch
  BY DEF NoEpoch, Epoch, Peers
<1>3. /\ None \in Baselines /\ None \in Answers /\ {} \in Ticks /\ {} \in PadRows
  BY DEF Baselines, Answers, Ticks, PadRows
<1>. QED BY <1>1, <1>2, <1>3 DEF Stages

\* A ring's keys are ticks and its snapshots are machines.
LEMMA SnapsProperties ==
  ASSUME NEW snaps \in Snapshots
  PROVE  /\ DOMAIN snaps \subseteq Tick
         /\ \A s \in DOMAIN snaps : snaps[s] \in Machine
BY DEF Snapshots

\* An update that leaves the run alone, and the verdicts on it.
SameRun(r, c) ==
  /\ c.slot = r.slot
  /\ c.sim = r.sim /\ c.mach = r.mach /\ c.snaps = r.snaps
  /\ c.committed = r.committed /\ (c.forkSeen = r.forkSeen \/ c.forkSeen)

\* Such updates add up.
LEMMA SameRunTwice ==
  ASSUME NEW a, NEW b, NEW c, SameRun(a, b), SameRun(b, c)
  PROVE  SameRun(a, c)
BY DEF SameRun

\* Such an update keeps what the invariant says of the run.
LEMMA SameRunSound ==
  ASSUME NEW r, Sound(r), NEW c, Shape(c), SameRun(r, c)
  PROVE  Sound(c)
<1>1. Ring(r) /\ OneRun(r) /\ Exact(r)
  BY DEF Sound, Run
<1>2. Ring(c) /\ OneRun(c)
  BY <1>1 DEF Ring, OneRun, SameRun
<1>3. Exact(c)
  BY <1>1 DEF Exact, SameRun
<1>. QED BY <1>2, <1>3 DEF Sound, Run

\* An update of neither the run nor the episode.
SameEpisode(r, c) ==
  /\ c.stage = r.stage /\ c.epoch = r.epoch /\ c.load = r.load /\ c.target = r.target
  /\ c.rows = r.rows /\ c.sealed = r.sealed /\ c.base = r.base /\ c.guessed = r.guessed
  /\ c.missed = r.missed
  /\ c.peerBase \in {r.peerBase, None} /\ c.peerPost \in {r.peerPost, None}

\* Such updates add up.
LEMMA SameEpisodeTwice ==
  ASSUME NEW a, NEW b, NEW c, SameEpisode(a, b), SameEpisode(b, c)
  PROVE  SameEpisode(a, c)
BY DEF SameEpisode

\* Such an update keeps the shape of the episode.
LEMMA SameShape ==
  ASSUME NEW r, Shape(r), NEW c \in Peer, SameRun(r, c), SameEpisode(r, c)
  PROVE  Shape(c)
<1>1. Episode(r)
  BY DEF Shape
<1>2. Span(c) = Span(r)
  BY DEF SameEpisode, Span
<1>3. Episode(c)
  BY <1>1, <1>2 DEF Episode, SameEpisode, SameRun
<1>. QED BY <1>3 DEF Shape

\* Sending changes neither the run nor the episode.
LEMMA SendShape ==
  ASSUME NEW r, Shape(r), NEW m \in Message
  PROVE  /\ Shape(Send(r, m)) /\ SameRun(r, Send(r, m)) /\ SameEpisode(r, Send(r, m))
         /\ Send(r, m).forkSeen = r.forkSeen
<1>1. r \in Peer
  BY DEF Shape
<1>2. Send(r, m) \in Peer
  <2>1. r.out \cup {m} \in Sent
    BY <1>1, PeerFields DEF Sent
  <2>. QED BY <1>1, <2>1 DEF Send, Peer
<1>3. /\ SameRun(r, Send(r, m)) /\ SameEpisode(r, Send(r, m))
      /\ Send(r, m).forkSeen = r.forkSeen
  BY <1>1 DEF Send, Peer, SameRun, SameEpisode
<1>. QED BY <1>2, <1>3, SameShape

\* Sending keeps a peer sound.
LEMMA SendSound ==
  ASSUME NEW r, Sound(r), NEW m \in Message
  PROVE  Sound(Send(r, m))
BY SendShape, SameRunSound DEF Sound

\* rb_enter_lockstep() changes neither the run nor the episode.
LEMMA EnterLockstepShape ==
  ASSUME NEW r, Shape(r)
  PROVE  /\ Shape(EnterLockstep(r)) /\ SameEpisode(r, EnterLockstep(r))
         /\ SameRun(r, EnterLockstep(r)) /\ EnterLockstep(r).forkSeen = r.forkSeen
<1>1. r \in Peer
  BY DEF Shape
<1>2. Max({r.lockstep, r.sim + Lockstep}) \in Nat
  BY <1>1, PeerFields, MaxOfTwo, RollbackAssumption
<1>3. EnterLockstep(r) \in Peer
  BY <1>1, <1>2 DEF EnterLockstep, Peer
<1>4. SameRun(r, EnterLockstep(r)) /\ SameEpisode(r, EnterLockstep(r))
      /\ EnterLockstep(r).forkSeen = r.forkSeen
  BY <1>1 DEF EnterLockstep, Peer, SameRun, SameEpisode
<1>. QED BY <1>3, <1>4, SameShape

\* Clear() leaves the run alone.
LEMMA ClearShape ==
  ASSUME NEW r, Shape(r)
  PROVE  /\ Shape(Clear(r)) /\ Clear(r).stage = "idle"
         /\ SameRun(r, Clear(r)) /\ Clear(r).forkSeen = r.forkSeen
<1> DEFINE c == Clear(r)
<1>1. r \in Peer /\ Episode(r)
  BY DEF Shape
<1>2. /\ c.stage = "idle" /\ c.epoch = NoEpoch /\ c.load = 0 /\ c.target = 0
      /\ c.rows = {} /\ c.sealed = {} /\ c.base = None /\ c.peerBase = None
      /\ c.peerPost = None /\ c.missed = r.missed /\ c.guessed = r.guessed
      /\ SameRun(r, c) /\ c.forkSeen = r.forkSeen
  BY <1>1 DEF Clear, Peer, SameRun
<1>4. c \in Peer
  BY <1>1, FieldValues DEF Clear, Peer
<1>5. Episode(c)
  BY <1>1, <1>2 DEF Episode
<1>. QED BY <1>2, <1>4, <1>5 DEF Shape

\* rb_episode_clear() keeps a peer sound.
LEMMA ClearSound ==
  ASSUME NEW r, Sound(r)
  PROVE  Sound(Clear(r)) /\ Clear(r).stage = "idle" /\ Clear(r).slot = r.slot
BY ClearShape, SameRunSound DEF Sound, SameRun

\* rb_episode_abort() leaves the run alone.
LEMMA AbortShape ==
  ASSUME NEW r, Shape(r), NEW class \in {"abort", "realign"}
  PROVE  /\ Shape(Abort(r, class)) /\ Abort(r, class).stage = "idle"
         /\ SameRun(r, Abort(r, class)) /\ Abort(r, class).forkSeen = r.forkSeen
<1> DEFINE m == [op |-> "abort", epoch |-> r.epoch, class |-> class]
           s == Send(r, m)
           c == Clear(s)
           a == Abort(r, class)
<1>1. r \in Peer
  BY DEF Shape
<1>2. m \in Message
  BY <1>1, PeerFields DEF Message
<1>3. /\ Shape(s) /\ SameRun(r, s) /\ s.forkSeen = r.forkSeen
  <2> HIDE DEF m
  <2>. QED BY <1>2, SendShape
<1>4. /\ Shape(c) /\ c.stage = "idle" /\ SameRun(s, c) /\ c.forkSeen = s.forkSeen
  <2> HIDE DEF s
  <2>. QED BY <1>3, ClearShape
<1>5. a = [c EXCEPT !.cooldown = r.sim + Cooldown]
  BY DEF Abort
<1>6. c \in Peer /\ r.sim + Cooldown \in Nat
  BY <1>1, <1>4, PeerFields, RollbackAssumption DEF Shape
<1>7. /\ a \in Peer /\ a.stage = "idle"
      /\ SameRun(c, a) /\ SameEpisode(c, a) /\ a.forkSeen = c.forkSeen
  <2> HIDE DEF c, a
  <2>. QED BY <1>4, <1>5, <1>6 DEF Peer, SameRun, SameEpisode
<1>8. Shape(a)
  <2> HIDE DEF c, a
  <2>. QED BY <1>4, <1>7, SameShape
<1>9. SameRun(r, a)
  <2> HIDE DEF s, c, a
  <2>. QED BY <1>3, <1>4, <1>7, SameRunTwice
<1>. QED BY <1>3, <1>4, <1>7, <1>8, <1>9

\* rb_episode_abort() keeps a peer sound.
LEMMA AbortSound ==
  ASSUME NEW r, Sound(r), NEW class \in {"abort", "realign"}
  PROVE  Sound(Abort(r, class)) /\ SameRun(r, Abort(r, class))
BY AbortShape, SameRunSound DEF Sound

---------------------------------------------------------------------------
(* Opening and extending an episode.                                       *)

\* The watched ticks between two of them.
LEMMA TickRange ==
  ASSUME NEW a \in Tick, NEW b \in Tick
  PROVE  a .. b \in SUBSET Tick
BY RollbackAssumption DEF Tick

\* A record of which only the serial number of its calls changes.
LEMMA SeqSound ==
  ASSUME NEW r, Sound(r), NEW n \in Nat
  PROVE  /\ Sound([r EXCEPT !.seq = n]) /\ SameRun(r, [r EXCEPT !.seq = n])
         /\ SameEpisode(r, [r EXCEPT !.seq = n])
<1> DEFINE c == [r EXCEPT !.seq = n]
<1>1. r \in Peer
  BY DEF Sound, Shape
<1>2. c \in Peer /\ SameRun(r, c) /\ SameEpisode(r, c)
  BY <1>1 DEF Peer, SameRun, SameEpisode
<1> HIDE DEF c
<1>3. Sound(c)
  BY <1>2, SameShape, SameRunSound DEF Sound
<1>. QED BY <1>2, <1>3 DEF c

\* An opened episode is one.
LEMMA OpenedSound ==
  ASSUME NEW r, Sound(r), NEW e \in Called, NEW load \in DOMAIN r.snaps,
         NEW target \in Tick, load <= target, NEW initiator \in BOOLEAN,
         NEW R \in SUBSET (load .. target)
  PROVE  /\ Sound(Opened(r, e, load, target, initiator, R))
         /\ SameRun(r, Opened(r, e, load, target, initiator, R))
<1> DEFINE S == {x \in r.odd : x[2] \in load .. target /\ (x[1] = r.slot \/ x[2] \in R)}
           o == [r EXCEPT !.stage = "sealing", !.epoch = e, !.load = load,
                          !.target = target, !.initiator = initiator, !.extends = 0,
                          !.rows = R, !.sealed = S]
<1>0. Opened(r, e, load, target, initiator, R) = o
  BY DEF Opened
<1>1. r \in Peer /\ Episode(r)
  BY DEF Sound, Shape
<1>2. load \in Tick /\ R \in Ticks /\ S \in PadRows
  <2>1. load \in Tick /\ r.odd \in SUBSET (Peers \X Tick)
    BY <1>1, SnapsProperties, PeerFields
  <2>2. load .. target \subseteq Tick
    BY <2>1, TickRange
  <2>. QED BY <2>1, <2>2 DEF Ticks, PadRows
<1>2a. \A x \in S : x[2] \in load .. target
  OBVIOUS
<1> HIDE DEF S
<1>3. o \in Peer
  <2>1. e \in Epoch
    BY DEF Called
  <2>. QED BY <1>1, <1>2, <2>1, FieldValues DEF Peer
<1>4. /\ o.stage = "sealing" /\ o.epoch = e /\ o.load = load /\ o.target = target
      /\ o.rows = R /\ o.sealed = S /\ o.missed = r.missed /\ o.guessed = r.guessed
      /\ SameRun(r, o)
  BY <1>1 DEF Peer, SameRun
<1> HIDE DEF o
<1>5. Episode(o)
  BY <1>1, <1>2a, <1>4 DEF Episode, Span, SameRun, Called
<1>6. Sound(o)
  BY <1>3, <1>4, <1>5, SameRunSound DEF Shape
<1>. QED BY <1>0, <1>4, <1>6

\* The rows of the span as the other peer takes them.
LEMMA RowsMessage ==
  ASSUME NEW r \in Peer
  PROVE  [op |-> "rows", epoch |-> r.epoch, load |-> r.load, target |-> r.target,
          odd |-> {t \in Span(r) : <<r.slot, t>> \in r.sealed}] \in Message
<1> DEFINE O == {t \in Span(r) : <<r.slot, t>> \in r.sealed}
<1>1. r.epoch \in Epoch /\ r.load \in Tick /\ r.target \in Tick
  BY PeerFields
<1>2. O \in SUBSET Tick
  BY <1>1, TickRange DEF Span
<1> HIDE DEF O
<1>3. [op |-> "rows", epoch |-> r.epoch, load |-> r.load, target |-> r.target,
       odd |-> O] \in Rows
  BY <1>1, <1>2 DEF Rows
<1>. QED BY <1>3 DEF Message, O

\* Sending the rows of the span keeps a peer sound.
LEMMA SendRowsSound ==
  ASSUME NEW r, Sound(r)
  PROVE  /\ Sound(SendRows(r)) /\ SameRun(r, SendRows(r)) /\ SameEpisode(r, SendRows(r))
<1>1. r \in Peer /\ Shape(r)
  BY DEF Sound, Shape
<1> DEFINE m == [op |-> "rows", epoch |-> r.epoch, load |-> r.load, target |-> r.target,
                 odd |-> {t \in Span(r) : <<r.slot, t>> \in r.sealed}]
<1>2. m \in Message
  BY <1>1, RowsMessage
<1>3. SendRows(r) = Send(r, m)
  BY DEF SendRows
<1> HIDE DEF m
<1>. QED BY <1>1, <1>2, <1>3, SendShape, SendSound

\* Lifting an aged cap changes nothing but the cap.
LEMMA CapLiftedSound ==
  ASSUME NEW r, Sound(r)
  PROVE  /\ Sound(CapLifted(r)) /\ SameRun(r, CapLifted(r))
         /\ SameEpisode(r, CapLifted(r)) /\ CapLifted(r).seq = r.seq
<1> DEFINE k == IF r.forkCap <= Oldest(r) THEN 0 ELSE r.forkCap
           c == [r EXCEPT !.forkCap = k]
<1>1. r \in Peer
  BY DEF Sound, Shape
<1>2. k \in Nat
  BY <1>1, PeerFields
<1> HIDE DEF k
<1>3. c \in Peer /\ SameRun(r, c) /\ SameEpisode(r, c) /\ c.seq = r.seq
  BY <1>1, <1>2 DEF Peer, SameRun, SameEpisode
<1>4. CapLifted(r) = c
  BY <1>1 DEF CapLifted, k, Peer
<1> HIDE DEF c
<1>5. Sound(c)
  BY <1>3, SameShape, SameRunSound DEF Sound
<1>. QED BY <1>3, <1>4, <1>5

\* rb_vt_get_input_row() adds to the own history and changes nothing else.
LEMMA RowsReadSound ==
  ASSUME NEW r, Sound(r), NEW target \in Tick
  PROVE  /\ Sound(RowsRead(r, target)) /\ SameRun(r, RowsRead(r, target))
         /\ SameEpisode(r, RowsRead(r, target))
         /\ RowsRead(r, target).extends = r.extends
         /\ RowsRead(r, target).published = r.published
<1> DEFINE last == Min({target, r.published})
           odd == r.odd \cup {r.slot} \X (r.resampled \cap r.held + 1 .. last)
           held == Max({r.held, last})
           c == [r EXCEPT !.odd = odd, !.held = held]
<1>1. r \in Peer /\ r.slot \in Peers /\ r.held \in Nat /\ r.odd \in SUBSET (Peers \X Tick)
      /\ r.published \in Nat /\ target \in Nat
  <2>1. r \in Peer
    BY DEF Sound, Shape
  <2>. QED BY <2>1, PeerFields, TickFinite, RollbackAssumption
<1>2. last \in Nat /\ last <= target
  BY <1>1, MinOfTwo
<1>3. RowsRead(r, target) = c
  <2>1. [r EXCEPT !.odd = @ \cup {r.slot} \X (r.resampled \cap r.held + 1 .. last),
                  !.held = Max({@, last})] = c
    BY <1>1 DEF Peer
  <2>. QED BY <2>1 DEF RowsRead
<1> HIDE DEF last
<1>4. odd \in PadRows
  <2>1. r.held + 1 .. last \subseteq Tick
    BY <1>1, <1>2, RollbackAssumption DEF Tick
  <2>. QED BY <1>1, <2>1 DEF PadRows
<1>5. held \in Nat
  BY <1>1, <1>2, MaxOfTwo
<1> HIDE DEF odd, held
<1>6. /\ c \in Peer /\ SameRun(r, c) /\ SameEpisode(r, c) /\ c.extends = r.extends
      /\ c.published = r.published
  BY <1>1, <1>4, <1>5 DEF Peer, SameRun, SameEpisode
<1> HIDE DEF c
<1>7. Sound(c)
  BY <1>6, SameShape, SameRunSound DEF Sound
<1>. QED BY <1>3, <1>6, <1>7

\* A call is made over a snapshot before the wrong row t and reaches past it.
LEMMA CallSpan ==
  ASSUME NEW r \in Peer, NEW t \in Tick, NEW c \in Peer, c.snaps = r.snaps,
         LoadTicks(c, t) # {}
  PROVE  /\ Max(LoadTicks(c, t)) \in DOMAIN r.snaps /\ Max(LoadTicks(c, t)) <= t
         /\ Max({r.sim - 1, t}) \in Tick /\ t <= Max({r.sim - 1, t})
         /\ Max(LoadTicks(c, t)) <= Max({r.sim - 1, t})
         /\ Max(LoadTicks(c, t)) \in Tick
<1> DEFINE loads == LoadTicks(c, t)
           load == Max(loads)
           target == Max({r.sim - 1, t})
<1>1. DOMAIN r.snaps \subseteq Tick /\ loads \subseteq DOMAIN r.snaps
      /\ (\A u \in loads : u <= t) /\ loads # {}
  BY PeerFields, SnapsProperties DEF LoadTicks
<1> HIDE DEF loads
<1>2. IsFiniteSet(loads) /\ loads \in SUBSET Int /\ loads # {}
  <2>1. loads \in SUBSET Tick
    BY <1>1
  <2>2. IsFiniteSet(loads)
    BY <2>1, TickFinite, FS_Subset
  <2>3. loads \in SUBSET Int
    BY <2>1, TickFinite
  <2>4. loads # {}
    BY <1>1
  <2>. QED BY <2>2, <2>3, <2>4
<1>3. load \in loads
  BY <1>2, MaxProperties
<1>4. load \in DOMAIN r.snaps /\ load <= t /\ load \in Tick
  BY <1>1, <1>3
<1>5. target \in Tick /\ t <= target
  <2>1. r.sim \in 1 .. MaxTick /\ MaxTick \in Nat /\ t \in Int /\ r.sim - 1 \in Int
    BY PeerFields, TickFinite, RollbackAssumption
  <2>2. target = IF r.sim - 1 >= t THEN r.sim - 1 ELSE t
    BY <2>1, MaxOfTwo
  <2>. QED BY <2>1, <2>2 DEF Tick
<1> HIDE DEF load, target
<1>6. load <= target
  BY <1>4, <1>5, TickFinite
<1>. QED BY <1>4, <1>5, <1>6 DEF load, target, loads

\* rb_begin_episode() as the initiator keeps a peer sound, wherever the call ends.
LEMMA BeginAsInitiatorSound ==
  ASSUME NEW p \in Peers, NEW r, Sound(r), r.stage = "idle", NEW t \in Tick,
         NEW willing \in BOOLEAN
  PROVE  /\ Sound(BeginAsInitiator(p, r, t, willing))
         /\ SameRun(r, BeginAsInitiator(p, r, t, willing))
<1> DEFINE c == CapLifted(r)
           loads == LoadTicks(c, t)
           e == <<p, r.seq + 1>>
           target == Max({r.sim - 1, t})
           load == Max(loads)
           R == {u \in load .. target \ {t} : Confirmed(c, u)}
           b == BeginAsInitiator(p, r, t, willing)
<1>1. r \in Peer /\ Sound(c) /\ c \in Peer /\ SameRun(r, c) /\ SameEpisode(r, c)
      /\ c.seq = r.seq /\ r.seq \in Nat
  BY CapLiftedSound, PeerFields DEF Sound, Shape
<1>2. SameRun(r, r)
  BY DEF SameRun
<1> HIDE DEF c, loads
<1>3. CASE r.sim < r.cooldown
  BY <1>2, <1>3 DEF BeginAsInitiator
<1>4. CASE ~(r.sim < r.cooldown) /\ loads = {}
  BY <1>1, <1>4 DEF BeginAsInitiator, c, loads
<1>5. CASE ~(r.sim < r.cooldown) /\ loads # {} /\ ~willing
  <2>1. b = [c EXCEPT !.seq = c.seq + 1]
    BY <1>1, <1>5 DEF BeginAsInitiator, c, loads, Peer
  <2>2. c.seq + 1 \in Nat
    BY <1>1
  <2>3. Sound(b) /\ SameRun(c, b)
    <3> HIDE DEF b
    <3>. QED BY <1>1, <2>1, <2>2, SeqSound
  <2>4. SameRun(r, b)
    <3> HIDE DEF b
    <3>. QED BY <1>1, <2>3, SameRunTwice
  <2>. QED BY <2>3, <2>4
<1>6. CASE ~(r.sim < r.cooldown) /\ loads # {} /\ willing
  <2> DEFINE o == Opened(c, e, load, target, TRUE, R)
             q == [o EXCEPT !.seq = c.seq + 1]
             m == [op |-> "begin", epoch |-> e, load |-> load, target |-> target]
             s == Send(q, m)
  <2>1. /\ load \in DOMAIN c.snaps /\ target \in Tick /\ load <= target /\ load \in Tick
    BY <1>1, <1>6, CallSpan DEF loads, SameRun
  <2>2. e \in Called
    BY <1>1 DEF Called, Epoch, NoEpoch
  <2>3. R \in SUBSET (load .. target)
    OBVIOUS
  <2>4. c.stage = "idle"
    BY <1>1 DEF SameEpisode
  <2> HIDE DEF load, target, e, R
  <2>5. Sound(o) /\ SameRun(c, o) /\ o.seq = c.seq
    <3>1. o.seq = c.seq
      BY <1>1 DEF Opened, Peer
    <3>. QED BY <1>1, <2>1, <2>2, <2>3, <2>4, <3>1, OpenedSound
  <2>5a. b = SendRows(s)
    <3>1. [o EXCEPT !.seq = @ + 1] = q
      <4>1. o \in Peer
        BY <2>5 DEF Sound, Shape
      <4> HIDE DEF o
      <4>. QED BY <2>5, <4>1 DEF Peer
    <3>. QED BY <1>6, <3>1 DEF BeginAsInitiator, c, loads, load, target, e, R
  <2> HIDE DEF o
  <2>6. Sound(q) /\ SameRun(o, q)
    <3>1. c.seq + 1 \in Nat
      BY <1>1
    <3>. QED BY <2>5, <3>1, SeqSound
  <2>7. m \in Message
    BY <2>1, <2>2 DEF Message, Begin
  <2> HIDE DEF q, m
  <2>8. Sound(s) /\ SameRun(q, s)
    BY <2>6, <2>7, SendSound, SendShape DEF Sound
  <2> HIDE DEF s
  <2>9. Sound(SendRows(s)) /\ SameRun(s, SendRows(s))
    BY <2>8, SendRowsSound
  <2>10. SameRun(r, SendRows(s))
    <3>1. SameRun(r, o)
      BY <1>1, <2>5, SameRunTwice
    <3>2. SameRun(r, q)
      BY <2>6, <3>1, SameRunTwice
    <3>3. SameRun(r, s)
      BY <2>8, <3>2, SameRunTwice
    <3>. QED BY <2>9, <3>3, SameRunTwice
  <2>. QED BY <2>5a, <2>9, <2>10
<1>. QED BY <1>3, <1>4, <1>5, <1>6

\* A refusal changes only what is sent.
LEMMA NackSound ==
  ASSUME NEW r, Sound(r), NEW m, m.epoch \in Epoch
  PROVE  Sound(Nack(r, m)) /\ SameRun(r, Nack(r, m)) /\ SameEpisode(r, Nack(r, m))
<1> DEFINE n == [op |-> "nack", epoch |-> m.epoch]
<1>1. n \in Message
  BY DEF Message
<1> HIDE DEF n
<1>2. Sound(Send(r, n)) /\ SameRun(r, Send(r, n)) /\ SameEpisode(r, Send(r, n))
  BY <1>1, SendSound, SendShape DEF Sound
<1>. QED BY <1>2 DEF Nack, n

\* A follower takes an episode on only over a snapshot it has.
LEMMA BeginAsFollowerSound ==
  ASSUME NEW r, Sound(r), r.stage = "idle", NEW m \in Begin, NEW willing \in BOOLEAN
  PROVE  Sound(BeginAsFollower(r, m, willing)) /\ SameRun(r, BeginAsFollower(r, m, willing))
<1> DEFINE c == RowsRead(r, m.target)
           R == {u \in m.load .. m.target : Confirmed(c, u)}
           o == Opened(c, m.epoch, m.load, m.target, FALSE, R)
           b == BeginAsFollower(r, m, willing)
<1>1. /\ m.epoch \in Called /\ m.load \in Tick /\ m.target \in Tick /\ m.load <= m.target
      /\ m.epoch \in Epoch
  BY DEF Begin, Called
<1>2. Sound(c) /\ SameRun(r, c) /\ SameEpisode(r, c)
  BY <1>1, RowsReadSound
<1>3. c.stage = "idle" /\ c.snaps = r.snaps
  <2> HIDE DEF c
  <2>. QED BY <1>2 DEF SameEpisode, SameRun
<1>4. Sound(Nack(r, m)) /\ SameRun(r, Nack(r, m))
  BY <1>1, NackSound
<1>5. Sound(Nack(c, m)) /\ SameRun(r, Nack(c, m))
  <2> HIDE DEF c
  <2>1. Sound(Nack(c, m)) /\ SameRun(c, Nack(c, m))
    BY <1>1, <1>2, NackSound
  <2>. QED BY <1>2, <2>1, SameRunTwice
<1>6. ASSUME m.load \in DOMAIN r.snaps
      PROVE  Sound(SendRows(o)) /\ SameRun(r, SendRows(o))
  <2>1. R \in SUBSET (m.load .. m.target)
    OBVIOUS
  <2> HIDE DEF c, R
  <2>2. Sound(o) /\ SameRun(c, o)
    BY <1>1, <1>2, <1>3, <1>6, <2>1, OpenedSound
  <2> HIDE DEF o
  <2>3. Sound(SendRows(o)) /\ SameRun(o, SendRows(o))
    BY <2>2, SendRowsSound
  <2>. QED BY <1>2, <2>2, <2>3, SameRunTwice
<1>7. b \in {Nack(r, m), Nack(c, m), c, SendRows(o)}
      /\ (b = SendRows(o) => m.load \in DOMAIN r.snaps \/ b = Nack(r, m))
  BY DEF BeginAsFollower
<1> HIDE DEF c, o, b
<1>8. Sound(b) /\ SameRun(r, b)
  BY <1>2, <1>4, <1>5, <1>6, <1>7
<1>. QED BY <1>8 DEF b

\* An extended episode is one of the grown span.
LEMMA ExtendedSound ==
  ASSUME NEW r, Sound(r), NEW target \in Tick, MayExtend(r), r.target <= target
  PROVE  Sound(Extended(r, target)) /\ SameRun(r, Extended(r, target))
<1> DEFINE S == r.sealed \cup {x \in r.odd : x[1] = r.slot /\ x[2] \in r.target + 1 .. target}
           n == r.extends + 1
           c == [r EXCEPT !.stage = "sealing", !.target = target, !.extends = n,
                          !.sealed = S,
                          !.base = None, !.peerBase = None, !.peerPost = None]
<1>1. r \in Peer /\ Episode(r)
  BY DEF Sound, Shape
<1>2. n \in Grown
  <2>1. r.extends \in 0 .. MaxExtends /\ r.extends < MaxExtends /\ MaxExtends \in Nat
    BY <1>1, PeerFields, RollbackAssumption DEF MayExtend
  <2>. QED BY <2>1 DEF Grown
<1>3. S \in PadRows
  <2>1. r.odd \in SUBSET (Peers \X Tick) /\ r.sealed \in SUBSET (Peers \X Tick)
    BY <1>1, PeerFields
  <2>. QED BY <2>1 DEF PadRows
<1>4. r.load \in Nat /\ r.target \in Nat /\ target \in Nat /\ r.load <= r.target
  BY <1>1, PeerFields, TickFinite DEF Episode
<1>5. r.load .. r.target \subseteq r.load .. target /\ r.load <= target
      /\ r.target + 1 .. target \subseteq r.load .. target
  BY <1>4
<1>6. \A x \in S : x[2] \in r.load .. target
  <2>1. \A x \in r.sealed : x[2] \in r.load .. r.target
    BY <1>1 DEF Episode, Span
  <2>. QED BY <1>5, <2>1
<1>7. Extended(r, target) = SendRows(c)
  <2>1. c = [r EXCEPT !.stage = "sealing", !.target = target, !.extends = @ + 1,
                      !.sealed = @ \cup {x \in r.odd : /\ x[1] = r.slot
                                                       /\ x[2] \in r.target + 1 .. target},
                      !.base = None, !.peerBase = None, !.peerPost = None]
    BY <1>1 DEF Peer
  <2>. QED BY <2>1 DEF Extended
<1> HIDE DEF S, n
<1>8. c \in Peer
  BY <1>1, <1>2, <1>3, FieldValues DEF Peer
<1>9. /\ c.stage = "sealing" /\ c.epoch = r.epoch /\ c.load = r.load
      /\ c.target = target /\ c.rows = r.rows /\ c.sealed = S /\ c.missed = r.missed
      /\ c.guessed = r.guessed /\ SameRun(r, c)
  BY <1>1 DEF Peer, SameRun
<1> HIDE DEF c
<1>10. Episode(c)
  <2>1. c.epoch # NoEpoch
    BY <1>1, <1>9 DEF Episode, MayExtend
  <2>2. c.rows \subseteq Span(c) /\ \A x \in c.sealed : x[2] \in Span(c)
    BY <1>1, <1>5, <1>6, <1>9 DEF Episode, Span
  <2>3. c.load \in DOMAIN c.snaps
    BY <1>9 DEF MayExtend, SameRun
  <2>. QED BY <1>1, <1>5, <1>9, <2>1, <2>2, <2>3 DEF Episode
<1>11. Sound(c)
  BY <1>8, <1>9, <1>10, SameRunSound DEF Shape
<1>12. Sound(SendRows(c)) /\ SameRun(c, SendRows(c))
  BY <1>11, SendRowsSound
<1>. QED BY <1>7, <1>9, <1>12, SameRunTwice

---------------------------------------------------------------------------
(* Late rows.                                                              *)

\* Rows that become history: the run is the same, and the rows still missed are fewer.
LEMMA PromotedSound ==
  ASSUME NEW r, Sound(r), NEW T
  PROVE  /\ Sound(Promoted(r, T)) /\ SameRun(r, Promoted(r, T))
         /\ Promoted(r, T).missed = r.missed \ T /\ Promoted(r, T).stage = r.stage
         /\ Promoted(r, T).target = r.target
<1> DEFINE g == r.guessed \ T
           n == r.missed \ T
           c == [r EXCEPT !.guessed = g, !.missed = n]
<1>1. r \in Peer /\ Episode(r)
  BY DEF Sound, Shape
<1>2. g \in Ticks /\ n \in Ticks /\ n \subseteq g
  BY <1>1, PeerFields DEF Ticks, Episode
<1>3. Promoted(r, T) = c
  BY <1>1 DEF Promoted, Peer
<1> HIDE DEF g
<1>4. c \in Peer
  <2> HIDE DEF n
  <2>. QED BY <1>1, <1>2 DEF Peer
<1>5. /\ c.missed = n /\ c.stage = r.stage /\ c.guessed = g /\ c.load = r.load
      /\ c.target = r.target /\ SameRun(r, c) /\ c.rows = r.rows /\ c.sealed = r.sealed
      /\ c.epoch = r.epoch /\ c.base = r.base /\ c.peerBase = r.peerBase
      /\ c.peerPost = r.peerPost
  <2> HIDE DEF n
  <2>. QED BY <1>1 DEF Peer, SameRun
<1> HIDE DEF c
<1>6. Episode(c)
  <2> HIDE DEF n
  <2>. QED BY <1>1, <1>2, <1>5 DEF Episode, Span, SameRun
<1>7. Sound(c)
  BY <1>4, <1>5, <1>6, SameRunSound DEF Shape
<1>. QED BY <1>3, <1>5, <1>7

\* The row found wrong is taken on or dropped in every stage.
LEMMA OnWrongRowSound ==
  ASSUME NEW p \in Peers, NEW r, Sound(r), NEW t \in Tick, NEW willing \in BOOLEAN
  PROVE  Sound(OnWrongRow(p, r, t, willing)) /\ SameRun(r, OnWrongRow(p, r, t, willing))
<1> DEFINE target == Max({t, r.target})
           m == [op |-> "extend", epoch |-> r.epoch, target |-> target]
           s == Send(r, m)
<1>1. r \in Peer
  BY DEF Sound, Shape
<1>2. CASE r.stage = "idle"
  BY <1>2, BeginAsInitiatorSound DEF OnWrongRow
<1>3. CASE /\ r.stage # "idle"
           /\ t \notin Span(r) /\ r.stage = "tiphold" /\ CanExtend(r, target, willing)
  <2>1. target \in Tick /\ r.target <= target
    <3>1. t \in Nat /\ r.target \in Nat /\ r.target \in Tick
      BY <1>1, TickFinite, PeerFields
    <3>2. target = IF t >= r.target THEN t ELSE r.target
      BY <3>1, MaxOfTwo
    <3> HIDE DEF target
    <3>. QED BY <3>1, <3>2
  <2>2. OnWrongRow(p, r, t, willing) = Extended(s, target)
    BY <1>3 DEF OnWrongRow
  <2> HIDE DEF target
  <2>3. m \in Message
    BY <1>1, <2>1, PeerFields DEF Message
  <2> HIDE DEF m
  <2>4. Sound(s) /\ SameRun(r, s) /\ s.stage = r.stage /\ s.extends = r.extends
        /\ s.load = r.load /\ s.snaps = r.snaps /\ s.target = r.target
    <3>1. s.stage = r.stage /\ s.extends = r.extends
          /\ s.load = r.load /\ s.snaps = r.snaps /\ s.target = r.target
      BY <1>1 DEF Send, Peer
    <3>. QED BY <2>3, <3>1, SendSound, SendShape DEF Sound
  <2>5. MayExtend(s)
    BY <1>3, <2>4 DEF CanExtend, MayExtend
  <2> HIDE DEF s
  <2>6. Sound(Extended(s, target)) /\ SameRun(s, Extended(s, target))
    BY <2>1, <2>4, <2>5, ExtendedSound
  <2>. QED BY <2>2, <2>4, <2>6, SameRunTwice
<1>4. CASE /\ r.stage # "idle"
           /\ ~(t \notin Span(r) /\ r.stage = "tiphold" /\ CanExtend(r, target, willing))
  <2>1. OnWrongRow(p, r, t, willing) = r
    BY <1>4 DEF OnWrongRow
  <2>. QED BY <2>1 DEF SameRun
<1>. QED BY <1>2, <1>3, <1>4

\* The first wrong row found is one of a tick that has run.
LEMMA FoundFirst ==
  ASSUME NEW r \in Peer, Late(r) \cap r.missed # {}
  PROVE  /\ Min(Late(r) \cap r.missed) \in Late(r) \cap r.missed
         /\ Min(Late(r) \cap r.missed) \in Tick /\ Min(Late(r) \cap r.missed) < r.sim
<1> DEFINE found == Late(r) \cap r.missed
<1>1. found \in SUBSET Tick /\ (\A u \in found : u < r.sim) /\ found # {}
  BY PeerFields DEF Late
<1> HIDE DEF found
<1>2. IsFiniteSet(found) /\ found \in SUBSET Int
  BY <1>1, TickFinite, FS_Subset
<1>3. Min(found) \in found
  BY <1>1, <1>2, MinProperties
<1>. QED BY <1>1, <1>3 DEF found

\* rb_reconcile_wire() keeps a peer sound.
LEMMA ReconcileSound ==
  ASSUME NEW p \in Peers, NEW r, Sound(r), NEW willing \in BOOLEAN
  PROVE  Sound(Reconcile(p, r, willing)) /\ SameRun(r, Reconcile(p, r, willing))
<1> DEFINE found == Late(r) \cap r.missed
           t == Min(found)
<1>1. CASE found = {}
  <2> DEFINE T == Late(r)
  <2>1. Reconcile(p, r, willing) = Promoted(r, T)
    BY <1>1 DEF Reconcile
  <2> HIDE DEF T
  <2>. QED BY <2>1, PromotedSound
<1>2. CASE found # {}
  <2> DEFINE T == {u \in Late(r) : u <= t}
             c == Promoted(r, T)
  <2>1. t \in Tick
    BY <1>2, FoundFirst DEF Sound, Shape
  <2>2. Reconcile(p, r, willing) = OnWrongRow(p, c, t, willing)
    BY <1>2 DEF Reconcile
  <2> HIDE DEF t, T
  <2>3. Sound(c) /\ SameRun(r, c)
    BY PromotedSound
  <2> HIDE DEF c
  <2>4. Sound(OnWrongRow(p, c, t, willing)) /\ SameRun(c, OnWrongRow(p, c, t, willing))
    BY <2>1, <2>3, OnWrongRowSound
  <2>. QED BY <2>2, <2>3, <2>4, SameRunTwice
<1>. QED BY <1>1, <1>2

---------------------------------------------------------------------------
(* The episode pump.                                                       *)

\* A comparison of the baselines ends the episode as a fork, or changes nothing else.
LEMMA CompareBaseShape ==
  ASSUME NEW r, Shape(r)
  PROVE  /\ Shape(CompareBase(r)) /\ SameRun(r, CompareBase(r))
         /\ \/ /\ SameEpisode(r, CompareBase(r)) /\ CompareBase(r).forkSeen = r.forkSeen
               /\ CompareBase(r).peerPost = r.peerPost
            \/ CompareBase(r).stage = "idle" /\ CompareBase(r).forkSeen = TRUE
<1>1. r \in Peer
  BY DEF Shape
<1>2. CASE r.base = None \/ r.peerBase = None
  <2>1. SameRun(r, r) /\ SameEpisode(r, r)
    BY DEF SameRun, SameEpisode
  <2>. QED BY <1>2, <2>1 DEF CompareBase
<1>3. CASE ~(r.base = None \/ r.peerBase = None)
  <2> DEFINE c == [r EXCEPT !.peerBase = None]
             k == IF c.forkCap = 0 \/ r.load < c.forkCap THEN r.load ELSE c.forkCap
             d == [c EXCEPT !.forkCap = k, !.forkSeen = TRUE]
             l == EnterLockstep(d)
             a == Abort(l, "abort")
  <2>1. c \in Peer /\ SameRun(r, c) /\ SameEpisode(r, c) /\ c.forkSeen = r.forkSeen
        /\ c.peerPost = r.peerPost
    BY <1>1, FieldValues DEF Peer, SameRun, SameEpisode
  <2>2. CompareBase(r) = IF Agree(r.base, r.peerBase) THEN c ELSE a
    <3>1. [c EXCEPT !.forkCap = IF @ = 0 \/ r.load < @ THEN r.load ELSE @,
                    !.forkSeen = TRUE] = d
      <4> HIDE DEF c
      <4>. QED BY <2>1 DEF Peer
    <3>. QED BY <1>3, <3>1 DEF CompareBase
  <2> HIDE DEF c
  <2>3. Shape(c)
    BY <2>1, SameShape
  <2>4. k \in Nat
    BY <1>1, <2>1, TickFinite, PeerFields
  <2> HIDE DEF k
  <2>5. d \in Peer /\ SameRun(c, d) /\ SameEpisode(c, d) /\ d.forkSeen = TRUE
    BY <2>1, <2>4 DEF Peer, SameRun, SameEpisode
  <2> HIDE DEF d
  <2>6. Shape(d)
    BY <2>3, <2>5, SameShape
  <2>7. Shape(l) /\ SameRun(d, l) /\ l.forkSeen = TRUE
    BY <2>5, <2>6, EnterLockstepShape
  <2> HIDE DEF l
  <2>8. Shape(a) /\ a.stage = "idle" /\ SameRun(l, a) /\ a.forkSeen = TRUE
    BY <2>7, AbortShape
  <2> HIDE DEF a
  <2>9. SameRun(r, a)
    <3>1. SameRun(r, d)
      BY <2>1, <2>5, SameRunTwice
    <3>2. SameRun(r, l)
      BY <2>7, <3>1, SameRunTwice
    <3>. QED BY <2>8, <3>2, SameRunTwice
  <2>. QED BY <2>1, <2>2, <2>3, <2>8, <2>9
<1>. QED BY <1>2, <1>3

\* The machine is at the load tick and the episode was ended as a fork: the ticks from
\* there to sim are skipped, and the snapshots of the run given up are between them.
LEMMA ForkedAtLoadSound ==
  ASSUME NEW r, Sound(r), r.load \in DOMAIN r.snaps, NEW c, Shape(c),
         c.stage = "idle", c.forkSeen = TRUE,
         c.mach = r.snaps[r.load], c.snaps = r.snaps, c.sim = r.sim
  PROVE  Sound([c EXCEPT !.mach.skipped = @ \cup r.load .. (r.sim - 1)])
<1> DEFINE K == r.load .. (r.sim - 1)
           mach == [c.mach EXCEPT !.skipped = @ \cup K]
           f == [c EXCEPT !.mach.skipped = @ \cup r.load .. (r.sim - 1)]
<1>1. /\ r \in Peer /\ c \in Peer /\ Episode(c) /\ Ring(r) /\ OneRun(r)
      /\ DOMAIN r.snaps \subseteq Tick /\ \A s \in DOMAIN r.snaps : r.snaps[s] \in Machine
  <2>1. r \in Peer /\ c \in Peer /\ Episode(c) /\ Ring(r) /\ OneRun(r)
    BY DEF Sound, Run, Shape
  <2>. QED BY <2>1, PeerFields, SnapsProperties
<1>2. r.load \in Nat /\ r.sim \in 1 .. MaxTick /\ r.load < r.sim /\ MaxTick \in Nat
      /\ c.mach \in Machine
  BY <1>1, TickFinite, RollbackAssumption, PeerFields DEF Ring
<1>3. K \subseteq Tick /\ K \subseteq 0 .. r.sim - 1
  BY <1>2 DEF Tick
<1>4. /\ mach.wrong = c.mach.wrong /\ mach.skipped = c.mach.skipped \cup K
      /\ mach.odd = c.mach.odd /\ mach \in Machine
  <2> HIDE DEF K
  <2>. QED BY <1>2, <1>3 DEF Machine
<1>5. f = [c EXCEPT !.mach = mach]
  BY <1>1 DEF Peer
<1>5a. \A s \in Nat : r.load < s /\ s < r.sim => {s - 1, s} \subseteq K
  BY <1>2
<1> HIDE DEF mach, K, f
<1>6. /\ f \in Peer /\ f.mach = mach /\ f.snaps = r.snaps /\ f.sim = r.sim
      /\ f.missed = c.missed /\ f.stage = "idle" /\ f.forkSeen = TRUE
      /\ f.load = c.load /\ f.target = c.target /\ f.guessed = c.guessed
      /\ f.rows = c.rows /\ f.sealed = c.sealed /\ f.epoch = c.epoch
      /\ f.base = c.base /\ f.peerBase = c.peerBase /\ f.peerPost = c.peerPost
  BY <1>1, <1>4, <1>5 DEF Peer
<1>7. Episode(f)
  BY <1>1, <1>6 DEF Episode, Span
<1>8. Ring(f)
  <2>1. Before(r.snaps[r.load], r.load)
    BY <1>1 DEF Ring
  <2>2. mach.wrong \cup mach.skipped \subseteq 0 .. r.sim - 1
    <3>1. 0 .. r.load - 1 \subseteq 0 .. r.sim - 1
      BY <1>2
    <3>. QED BY <1>3, <1>4, <2>1, <3>1 DEF Before
  <2>3. \A x \in mach.odd : x[2] < r.sim
    <3> SUFFICES ASSUME NEW x \in c.mach.odd PROVE x[2] < r.sim
      BY <1>4
    <3>1. x[2] < r.load
      BY <2>1 DEF Before
    <3>2. x[2] \in Nat
      BY <1>2, RowTick DEF Machine
    <3>. QED BY <1>2, <3>1, <3>2
  <2>4. Before(mach, r.sim)
    BY <2>2, <2>3 DEF Before
  <2>. QED BY <1>1, <1>6, <2>4 DEF Ring
<1>9. OneRun(f)
  <2>1. ASSUME NEW s \in DOMAIN r.snaps PROVE OfRun(r.snaps[s], s, mach)
    <3>1. s \in Nat /\ s < r.sim
      BY <1>1, TickFinite DEF Ring
    <3>2. CASE s < r.load
      <4>1. OfRun(r.snaps[s], s, c.mach)
        BY <1>1, <3>2 DEF OneRun
      <4>2. AsOf(mach, s) = AsOf(c.mach, s)
        <5>1. K \cap 0 .. s - 1 = {}
          BY <1>2, <3>1, <3>2 DEF K
        <5>2. mach.skipped \cap 0 .. s - 1 = c.mach.skipped \cap 0 .. s - 1
          BY <1>4, <5>1
        <5>. QED BY <1>2, <1>4, <3>1, <5>2, AsOfSame
      <4>. QED BY <1>4, <4>1, <4>2 DEF OfRun
    <3>3. CASE s = r.load
      <4>1. AsOf(c.mach, s) = c.mach
        BY <1>1, <1>2, <3>1, <3>3, AsOfWhole DEF Ring
      <4>2. AsOf(mach, s) = AsOf(c.mach, s)
        <5>1. K \cap 0 .. s - 1 = {}
          BY <1>2, <3>1, <3>3 DEF K
        <5>2. mach.skipped \cap 0 .. s - 1 = c.mach.skipped \cap 0 .. s - 1
          BY <1>4, <5>1
        <5>. QED BY <1>2, <1>4, <3>1, <5>2, AsOfSame
      <4>. QED BY <3>3, <4>1, <4>2 DEF OfRun
    <3>4. CASE s > r.load
      BY <1>2, <1>4, <1>5a, <3>1, <3>4 DEF OfRun
    <3>. QED BY <1>2, <3>1, <3>2, <3>3, <3>4
  <2>. QED BY <1>1, <1>6, <2>1 DEF OneRun
<1>10. Exact(f)
  BY <1>6 DEF Exact
<1>11. Sound(f)
  BY <1>6, <1>7, <1>8, <1>9, <1>10 DEF Sound, Run, Shape
<1>. QED BY <1>11 DEF f

\* Ring `all` holds the old snapshots and those of the ticks T that machine m has run.
MergedRing(all, snaps, T, m) ==
  /\ all \in Snapshots /\ DOMAIN all # {} /\ Cardinality(DOMAIN all) <= Depth
  /\ DOMAIN all = Newest(DOMAIN snaps \cup T)
  /\ DOMAIN all \subseteq DOMAIN snaps \cup T
  /\ \A s \in DOMAIN all : /\ s \in T => all[s] = AsOf(m, s)
                           /\ s \notin T => all[s] = snaps[s]

\* The ring after a run over ticks T: some of the old snapshots and the new ones.
LEMMA SavedProperties ==
  ASSUME NEW snaps \in Snapshots, NEW T \in SUBSET Tick, NEW m \in Machine,
         DOMAIN snaps # {}
  PROVE  MergedRing(Saved(snaps, T, m), snaps, T, m)
<1> DEFINE all == Saved(snaps, T, m)
           U == DOMAIN snaps \cup T
<1>1. U \in SUBSET Tick /\ U # {} /\ \A s \in DOMAIN snaps : snaps[s] \in Machine
  BY SnapsProperties
<1> HIDE DEF U
<1>2. Newest(U) \subseteq U /\ Newest(U) # {} /\ Cardinality(Newest(U)) <= Depth
  BY <1>1, KeysProperties
<1>3. all = [s \in Newest(U) |-> IF s \in T THEN AsOf(m, s) ELSE snaps[s]]
  BY DEF Saved, U
<1> HIDE DEF all
<1>4. DOMAIN all = Newest(U)
  BY <1>3
<1>5. \A s \in DOMAIN all : /\ s \in T => all[s] = AsOf(m, s)
                            /\ s \notin T => all[s] = snaps[s]
  BY <1>3
<1>6. \A s \in Newest(U) : all[s] \in Machine
  <2> SUFFICES ASSUME NEW s \in Newest(U) PROVE all[s] \in Machine
    OBVIOUS
  <2>1. CASE s \in T
    <3>1. AsOf(m, s) \in Machine
      BY AsOfMachine
    <3>. QED BY <1>4, <1>5, <2>1, <3>1
  <2>2. CASE s \notin T
    BY <1>1, <1>2, <1>4, <1>5, <2>2 DEF U
  <2>. QED BY <2>1, <2>2
<1>7. all \in [Newest(U) -> Machine]
  BY <1>3, <1>4, <1>6
<1>8. all \in Snapshots
  BY <1>1, <1>2, <1>7 DEF Snapshots
<1>. QED BY <1>2, <1>4, <1>5, <1>8 DEF all, U, MergedRing

\* What a span that runs again makes of a machine at its load tick.
LEMMA ReranMachine ==
  ASSUME NEW l \in Peer, Episode(l), Before(l.mach, l.load)
  PROVE  /\ Reran(l, l.mach) \in Machine /\ Before(Reran(l, l.mach), l.target + 1)
         /\ Reran(l, l.mach).wrong = l.mach.wrong
         /\ Reran(l, l.mach).skipped = l.mach.skipped
         /\ \A s \in Nat : s <= l.load => AsOf(Reran(l, l.mach), s) = AsOf(l.mach, s)
<1> DEFINE m == Reran(l, l.mach)
<1>1. /\ l.mach \in Machine /\ l.sealed \in SUBSET (Peers \X Tick)
      /\ l.load \in Nat /\ l.target \in Nat /\ l.load <= l.target
      /\ \A x \in l.sealed : x[2] \in l.load .. l.target
  BY PeerFields, TickFinite DEF Episode, Span
<1>2. /\ m \in Machine /\ m.wrong = l.mach.wrong /\ m.skipped = l.mach.skipped
      /\ m.odd = l.mach.odd \cup l.sealed
  BY <1>1 DEF Reran, Machine
<1> HIDE DEF m
<1>3. Before(m, l.target + 1)
  <2>1. 0 .. l.load - 1 \subseteq 0 .. (l.target + 1) - 1
    BY <1>1
  <2>2. \A x \in m.odd : x[2] < l.target + 1
    <3> SUFFICES ASSUME NEW x \in m.odd PROVE x[2] < l.target + 1
      OBVIOUS
    <3>1. x[2] \in Nat
      BY <1>2, RowTick DEF Machine
    <3>2. CASE x \in l.mach.odd
      BY <1>1, <3>1, <3>2 DEF Before
    <3>3. CASE x \in l.sealed
      BY <1>1, <3>1, <3>3
    <3>. QED BY <1>2, <3>2, <3>3
  <2>. QED BY <1>2, <2>1, <2>2 DEF Before
<1>4. ASSUME NEW s \in Nat, s <= l.load PROVE AsOf(m, s) = AsOf(l.mach, s)
  <2>1. \A x \in Peers \X Tick : x[2] < s => (x \in m.odd <=> x \in l.mach.odd)
    <3> SUFFICES ASSUME NEW x \in l.sealed PROVE ~(x[2] < s)
      BY <1>2
    <3>. QED BY <1>1, <1>4
  <2>. QED BY <1>1, <1>2, <1>4, <2>1, AsOfSame
<1>. QED BY <1>2, <1>3, <1>4 DEF m

\* The span ran again with sealed rows: every snapshot of it is the new machine's, no
\* snapshot of the run that was thrown away is left after it, and those before it are
\* of the run that the machine has come back to.
LEMMA ReplayedSound ==
  ASSUME NEW r, Sound(r), r.load \in DOMAIN r.snaps, NEW l, Shape(l),
         r.stage = "sealing", l.stage = "sealing", l.load = r.load, l.slot = r.slot,
         l.mach = r.snaps[r.load], l.snaps = r.snaps, l.committed = r.committed,
         l.forkSeen = r.forkSeen
  PROVE  Sound(EnterVerify(Replayed(l))) /\ EnterVerify(Replayed(l)).slot = r.slot
<1> DEFINE mach == Reran(l, l.mach)
           all == Saved(l.snaps, Span(l), mach)
           D == {u \in DOMAIN all : u <= l.target}
           snaps == [t \in D |-> all[t]]
           committed == Min({l.committed, l.target})
           w == [l EXCEPT !.snaps = snaps, !.mach = mach, !.sim = l.target + 1,
                          !.committed = committed]
           v == [w EXCEPT !.stage = "verifying"]
           m == [op |-> "post", epoch |-> w.epoch, target |-> w.target, digest |-> w.mach]
<1>1. /\ r \in Peer /\ l \in Peer /\ Episode(l) /\ Ring(r) /\ OneRun(r) /\ Exact(r)
      /\ r.snaps \in Snapshots /\ DOMAIN r.snaps \subseteq Tick /\ l.mach \in Machine
      /\ \A s \in DOMAIN r.snaps : r.snaps[s] \in Machine
  <2>1. r \in Peer /\ l \in Peer /\ Episode(l) /\ Ring(r) /\ OneRun(r) /\ Exact(r)
    BY DEF Sound, Run, Shape
  <2>2. r.snaps \in Snapshots /\ l.mach \in Machine
    BY <2>1, PeerFields
  <2>. QED BY <2>1, <2>2, SnapsProperties
<1>2. /\ l.load \in Tick /\ l.target \in Tick /\ l.load <= l.target
      /\ l.committed \in Tick /\ Span(l) \subseteq Tick
      /\ l.load \in Nat /\ l.target \in Nat /\ l.committed \in Nat
  <2>1. l.load \in Tick /\ l.target \in Tick /\ l.load <= l.target /\ l.committed \in Tick
    BY <1>1, PeerFields DEF Episode
  <2>. QED BY <2>1, TickRange, TickFinite DEF Span
<1>3. /\ mach \in Machine /\ Before(mach, l.target + 1) /\ mach.wrong = l.mach.wrong
      /\ mach.skipped = l.mach.skipped
      /\ \A s \in Nat : s <= l.load => AsOf(mach, s) = AsOf(l.mach, s)
  <2>1. Before(l.mach, l.load)
    BY <1>1 DEF Ring
  <2>. QED BY <1>1, <2>1, ReranMachine
<1>3a. Replayed(l) = w
  BY <1>1 DEF Replayed, Peer
<1> HIDE DEF mach
<1>4. /\ all \in Snapshots /\ DOMAIN all # {} /\ Cardinality(DOMAIN all) <= Depth
      /\ DOMAIN all = Newest(DOMAIN r.snaps \cup Span(l))
      /\ DOMAIN all \subseteq DOMAIN r.snaps \cup Span(l)
      /\ \A s \in DOMAIN all : /\ s \in Span(l) => all[s] = AsOf(mach, s)
                               /\ s \notin Span(l) => all[s] = r.snaps[s]
  <2>1. /\ l.snaps = r.snaps /\ l.snaps \in Snapshots /\ DOMAIN l.snaps # {}
        /\ Span(l) \in SUBSET Tick
    BY <1>1, <1>2 DEF Ring
  <2>2. MergedRing(all, l.snaps, Span(l), mach)
    BY <1>3, <2>1, SavedProperties
  <2>. QED BY <2>1, <2>2 DEF MergedRing
<1> HIDE DEF all
<1>5. l.target \in DOMAIN all
  <2>1. Cardinality(DOMAIN r.snaps) <= Depth /\ DOMAIN r.snaps \in SUBSET Tick
    BY <1>1 DEF Ring
  <2>2. l.target \in Newest(DOMAIN r.snaps \cup l.load .. l.target)
    BY <1>2, <2>1, TargetStays
  <2>. QED BY <1>4, <2>2 DEF Span
<1>6. /\ D \in SUBSET Tick /\ l.target \in D /\ snaps \in Snapshots /\ DOMAIN snaps = D
      /\ Cardinality(D) <= Depth
  <2>1. DOMAIN all \in SUBSET Tick /\ \A s \in DOMAIN all : all[s] \in Machine
    BY <1>4, SnapsProperties
  <2>2. l.target \in D
    BY <1>2, <1>5
  <2>3. D \in SUBSET DOMAIN all
    OBVIOUS
  <2>3a. IsFiniteSet(DOMAIN all)
    BY <2>1, TickFinite, FS_Subset
  <2>4. Cardinality(D) <= Cardinality(DOMAIN all) /\ IsFiniteSet(D)
    <3> HIDE DEF D
    <3>. QED BY <2>3, <2>3a, FS_Subset
  <2>5. Cardinality(D) \in Nat /\ Cardinality(DOMAIN all) \in Nat
    <3> HIDE DEF D
    <3>. QED BY <2>3a, <2>4, FS_CardinalityType
  <2>6. snaps \in [D -> Machine] /\ D \in SUBSET Tick
    BY <2>1
  <2>7. snaps \in Snapshots /\ DOMAIN snaps = D
    <3> HIDE DEF D, snaps
    <3>. QED BY <2>6 DEF Snapshots
  <2>8. Cardinality(D) <= Depth
    <3> HIDE DEF D
    <3>. QED BY <1>4, <2>4, <2>5, RollbackAssumption
  <2>. QED BY <2>2, <2>6, <2>7, <2>8
\* A snapshot is the machine's in the span and an old one before it.
<1>7. \A s \in D : /\ s \in Nat /\ s <= l.target
                   /\ \/ s \in Span(l) /\ l.load <= s /\ snaps[s] = AsOf(mach, s)
                      \/ s \in DOMAIN r.snaps /\ s < l.load /\ snaps[s] = r.snaps[s]
  <2> SUFFICES ASSUME NEW s \in D
               PROVE  /\ s \in Nat /\ s <= l.target
                      /\ \/ s \in Span(l) /\ l.load <= s /\ snaps[s] = AsOf(mach, s)
                         \/ s \in DOMAIN r.snaps /\ s < l.load /\ snaps[s] = r.snaps[s]
    OBVIOUS
  <2>1. s \in Nat /\ s \in DOMAIN all /\ snaps[s] = all[s] /\ s <= l.target
    BY <1>6, TickFinite
  <2> HIDE DEF D, snaps
  <2>2. CASE s \in Span(l)
    BY <1>2, <1>4, <2>1, <2>2 DEF Span
  <2>3. CASE s \notin Span(l)
    BY <1>2, <1>4, <2>1, <2>3 DEF Span
  <2>. QED BY <2>2, <2>3
<1>8. /\ committed \in Tick /\ committed \in Nat /\ committed <= l.committed
      /\ committed <= l.target
  <2>1. committed = IF l.committed <= l.target THEN l.committed ELSE l.target
    BY <1>2, MinOfTwo
  <2> HIDE DEF committed
  <2>. QED BY <1>2, <2>1
<1> HIDE DEF snaps, committed, D
<1>9. /\ v \in Peer /\ v.snaps = snaps /\ v.sim = l.target + 1 /\ v.committed = committed
      /\ v.stage = "verifying" /\ v.mach = mach /\ v.load = l.load
      /\ v.target = l.target /\ v.missed = l.missed /\ v.slot = r.slot
      /\ v.forkSeen = r.forkSeen /\ v.guessed = l.guessed /\ v.rows = l.rows
      /\ v.sealed = l.sealed /\ v.epoch = l.epoch /\ v.base = l.base
      /\ v.peerBase = l.peerBase /\ v.peerPost = l.peerPost
      /\ w.epoch = l.epoch /\ w.target = l.target /\ w.mach = mach
  <2>1. l.target + 1 \in SimTick
    BY <1>2, RollbackAssumption DEF Tick, SimTick
  <2>2. w \in Peer
    BY <1>1, <1>3, <1>6, <1>8, <2>1 DEF Peer
  <2>3. /\ w.snaps = snaps /\ w.sim = l.target + 1 /\ w.committed = committed
        /\ w.mach = mach /\ w.load = l.load /\ w.slot = r.slot
        /\ w.target = l.target /\ w.missed = l.missed
        /\ w.forkSeen = r.forkSeen /\ w.guessed = l.guessed /\ w.rows = l.rows
        /\ w.sealed = l.sealed /\ w.epoch = l.epoch /\ w.base = l.base
        /\ w.peerBase = l.peerBase /\ w.peerPost = l.peerPost
    BY <1>1 DEF Peer
  <2> HIDE DEF w
  <2>4. v \in Peer
    BY <2>2, FieldValues DEF Peer
  <2>. QED BY <2>2, <2>3, <2>4 DEF Peer
<1>9a. EnterVerify(w) = Send(v, m)
  BY <1>9 DEF EnterVerify
<1> HIDE DEF v
<1>10. Episode(v)
  <2>1. v.target < v.sim
    BY <1>2, <1>9
  <2>. QED BY <1>1, <1>9, <2>1 DEF Episode, Span
<1>11. Ring(v)
  <2>1. ASSUME NEW s \in D PROVE s < v.sim /\ Before(snaps[s], s)
    <3>1. CASE snaps[s] = AsOf(mach, s)
      BY <1>2, <1>3, <1>7, <1>9, <3>1, AsOfWhole
    <3>2. CASE s \in DOMAIN r.snaps /\ snaps[s] = r.snaps[s]
      BY <1>1, <1>2, <1>7, <1>9, <3>2 DEF Ring
    <3>. QED BY <1>7, <3>1, <3>2
  <2>. QED BY <1>3, <1>6, <1>9, <2>1 DEF Ring
<1>12. OneRun(v)
  <2>1. ASSUME NEW s \in D PROVE OfRun(snaps[s], s, mach)
    <3>1. CASE snaps[s] = AsOf(mach, s)
      BY <3>1 DEF OfRun
    <3>2. CASE s \in DOMAIN r.snaps /\ s < l.load /\ snaps[s] = r.snaps[s]
      <4>1. OfRun(r.snaps[s], s, l.mach)
        BY <1>1, <3>2 DEF OneRun
      <4>2. AsOf(mach, s) = AsOf(l.mach, s)
        BY <1>2, <1>3, <1>7, <3>2
      <4>. QED BY <1>3, <3>2, <4>1, <4>2 DEF OfRun
    <3>. QED BY <1>7, <3>1, <3>2
  <2>2. ASSUME NEW s \in D, NEW u \in D, s < u PROVE OfRun(snaps[s], s, snaps[u])
    <3>0. s \in Nat /\ u \in Nat
      BY <1>7
    <3>1. CASE snaps[u] = AsOf(mach, u)
      BY <1>3, <2>1, <2>2, <3>0, <3>1, OfRunAsOf
    <3>2. CASE u \in DOMAIN r.snaps /\ u < l.load /\ snaps[u] = r.snaps[u]
      <4>1. s < l.load
        BY <1>2, <2>2, <3>0, <3>2
      <4>2. s \in DOMAIN r.snaps /\ snaps[s] = r.snaps[s]
        BY <1>2, <1>7, <3>0, <4>1
      <4>. QED BY <1>1, <2>2, <3>2, <4>2 DEF OneRun
    <3>. QED BY <1>7, <3>1, <3>2
  <2>. QED BY <1>6, <1>9, <2>1, <2>2 DEF OneRun
\* Without a fork the snapshot was the machine's, and so is what was wrong in it.
<1>13. Exact(v)
  <2> SUFFICES ASSUME ~v.forkSeen
               PROVE  /\ v.mach.skipped = {}
                      /\ v.committed < v.sim
                      /\ v.mach.wrong \cap 0 .. v.committed = {}
    BY DEF Exact
  <2>1. r.mach.skipped = {} /\ r.mach.wrong \cap 0 .. r.committed = {} /\ r.mach \in Machine
    BY <1>1, <1>9, PeerFields DEF Exact
  <2>2. l.mach = AsOf(r.mach, l.load)
    BY <1>1, <2>1 DEF OneRun, OfRun
  <2>3. l.mach.skipped = {} /\ l.mach.wrong \subseteq r.mach.wrong
    <3>1. /\ AsOf(r.mach, l.load).wrong \subseteq r.mach.wrong
          /\ AsOf(r.mach, l.load).skipped = r.mach.skipped \cap 0 .. l.load - 1
      BY <2>1, AsOfMachine
    <3>. QED BY <2>1, <2>2, <3>1
  <2>4. committed < l.target + 1 /\ 0 .. committed \subseteq 0 .. r.committed
    BY <1>2, <1>8
  <2>. QED BY <1>3, <1>9, <2>1, <2>3, <2>4
<1>14. Sound(v)
  BY <1>9, <1>10, <1>11, <1>12, <1>13 DEF Sound, Run, Shape
<1>15. m \in Message
  <2>1. w.epoch \in Epoch
    BY <1>1, <1>9, PeerFields
  <2>. QED BY <1>2, <1>3, <1>9, <2>1 DEF Message
<1> HIDE DEF m, w
<1>16. Sound(Send(v, m)) /\ SameRun(v, Send(v, m))
  BY <1>14, <1>15, SendSound, SendShape DEF Sound
<1>. QED BY <1>3a, <1>9, <1>9a, <1>16 DEF SameRun

\* Load, compare the baselines, and run the span again if they agree.
LEMMA ReplaySound ==
  ASSUME NEW r, Sound(r), r.stage = "sealing"
  PROVE  Sound(Replay(r)) /\ Replay(r).slot = r.slot
<1> DEFINE k == r.snaps[r.load]
           b == [r EXCEPT !.mach = k, !.base = k]
           m == [op |-> "base", epoch |-> r.epoch, load |-> r.load, digest |-> b.mach]
           s == Send(b, m)
           c == CompareBase(s)
           f == [c EXCEPT !.mach.skipped = @ \cup r.load .. (r.sim - 1)]
<1>1. r \in Peer /\ Episode(r) /\ r.snaps \in Snapshots
  BY PeerFields DEF Sound, Shape
<1>2. r.load \in DOMAIN r.snaps /\ k \in Machine /\ k \in Baselines
  BY <1>1, SnapsProperties DEF Episode, Baselines
<1>3. Loaded(r) = IF c.stage = "idle" THEN f ELSE c
  BY DEF Loaded
<1> HIDE DEF k
<1>4. b \in Peer /\ b.mach = k /\ b.base = k
      /\ b.snaps = r.snaps /\ b.sim = r.sim /\ b.committed = r.committed
      /\ b.forkSeen = r.forkSeen /\ b.stage = r.stage /\ b.epoch = r.epoch
      /\ b.load = r.load /\ b.target = r.target /\ b.rows = r.rows
      /\ b.sealed = r.sealed /\ b.slot = r.slot
      /\ b.guessed = r.guessed /\ b.missed = r.missed
      /\ b.peerBase = r.peerBase /\ b.peerPost = r.peerPost
  BY <1>1, <1>2 DEF Peer
<1> HIDE DEF b
<1>5. Shape(b)
  <2>1. Episode(b)
    BY <1>1, <1>2, <1>4 DEF Episode, Span
  <2>. QED BY <1>4, <2>1 DEF Shape
<1>6. m \in Message
  BY <1>1, <1>2, <1>4, PeerFields DEF Message
<1> HIDE DEF m
<1>7. Shape(s) /\ SameRun(b, s) /\ SameEpisode(b, s) /\ s.forkSeen = b.forkSeen
  BY <1>5, <1>6, SendShape
<1> HIDE DEF s
<1>8. /\ Shape(c) /\ SameRun(s, c)
      /\ \/ SameEpisode(s, c) /\ c.forkSeen = s.forkSeen
         \/ c.stage = "idle" /\ c.forkSeen = TRUE
  BY <1>7, CompareBaseShape
<1> HIDE DEF c
<1>9. /\ c.mach = r.snaps[r.load] /\ c.snaps = r.snaps /\ c.sim = r.sim
      /\ c.committed = r.committed /\ c.slot = r.slot
  BY <1>4, <1>7, <1>8 DEF SameRun, k
<1>10. CASE c.stage = "idle"
  <2>1. c.forkSeen = TRUE
    BY <1>1, <1>4, <1>7, <1>8, <1>10 DEF SameEpisode
  <2>2. Sound(f)
    BY <1>2, <1>8, <1>9, <1>10, <2>1, ForkedAtLoadSound
  <2>3. f.stage = "idle" /\ f.slot = c.slot
    BY <1>8, <1>10 DEF Shape, Peer
  <2>. QED BY <1>2, <1>3, <1>9, <1>10, <2>2, <2>3 DEF Replay
<1>11. CASE c.stage # "idle"
  <2>1. /\ c.stage = "sealing" /\ c.load = r.load /\ c.target = r.target
        /\ c.forkSeen = r.forkSeen
    BY <1>4, <1>7, <1>8, <1>11 DEF SameEpisode
  <2>2. Sound(EnterVerify(Replayed(c))) /\ EnterVerify(Replayed(c)).slot = r.slot
    BY <1>2, <1>8, <1>9, <2>1, ReplayedSound
  <2>. QED BY <1>2, <1>3, <1>11, <2>2 DEF Replay
<1>. QED BY <1>10, <1>11


\* The digests agreed: nothing wrong is left in the run unless a fork went before.
LEMMA CommitSound ==
  ASSUME NEW r, Sound(r), r.stage = "verifying", r.mach.wrong = {}, NEW willing \in BOOLEAN
  PROVE  Sound(Commit(r, willing)) /\ Commit(r, willing).slot = r.slot
<1> DEFINE c == Promoted(r, Span(r))
           odd == {x \in c.odd : x[2] \notin Span(r)} \cup r.sealed
           committed == Max({c.committed, r.target})
           d == [c EXCEPT !.odd = odd, !.forkCap = 0, !.committed = committed]
           h == [d EXCEPT !.stage = "tiphold"]
           n == IF willing THEN h ELSE Clear(d)
           m == [op |-> "commit", epoch |-> n.epoch]
<1>1. Sound(c) /\ SameRun(r, c) /\ c.stage = r.stage /\ c.target = r.target
  BY PromotedSound
<1>1a. r \in Peer /\ Commit(r, willing) = Send(n, m)
  <2>1. c \in Peer /\ r \in Peer
    BY <1>1 DEF Sound, Shape
  <2> DEFINE dd == [c EXCEPT !.odd = {x \in @ : x[2] \notin Span(r)} \cup r.sealed,
                             !.forkCap = 0, !.committed = Max({@, r.target})]
  <2>2. dd = d
    <3> HIDE DEF c
    <3>. QED BY <2>1 DEF Peer
  <2>3. Commit(r, willing) = Send(IF willing THEN [dd EXCEPT !.stage = "tiphold"] ELSE Clear(dd),
              [op |-> "commit",
               epoch |-> (IF willing THEN [dd EXCEPT !.stage = "tiphold"] ELSE Clear(dd)).epoch])
    BY DEF Commit
  <2> HIDE DEF d, dd
  <2>. QED BY <2>1, <2>2, <2>3
<1> HIDE DEF c
<1>2. /\ c \in Peer /\ Episode(c) /\ Ring(c) /\ OneRun(c) /\ Exact(c)
      /\ c.mach = r.mach /\ c.slot = r.slot
  BY <1>1 DEF Sound, Run, Shape, SameRun
<1>3. /\ committed \in Tick /\ (c.forkSeen \/ committed < c.sim)
      /\ c.target < c.sim
  <2>1. /\ c.committed \in Tick /\ r.target \in Tick /\ c.committed \in Nat
        /\ r.target \in Nat /\ c.sim \in Nat
    BY <1>1a, <1>2, PeerFields, TickFinite, RollbackAssumption
  <2>2. committed = IF c.committed >= r.target THEN c.committed ELSE r.target
    BY <2>1, MaxOfTwo
  <2>3. r.target < c.sim /\ c.target < c.sim
    BY <1>1, <1>2 DEF Episode
  <2> HIDE DEF committed
  <2>. QED BY <1>2, <2>1, <2>2, <2>3 DEF Exact
<1>4. odd \in PadRows
  <2>1. c.odd \in SUBSET (Peers \X Tick) /\ r.sealed \in SUBSET (Peers \X Tick)
    BY <1>1a, <1>2, PeerFields
  <2>. QED BY <2>1 DEF PadRows
<1> HIDE DEF odd, committed
<1>5. /\ d \in Peer /\ d.stage = c.stage /\ d.committed = committed
      /\ d.sim = c.sim /\ d.mach = c.mach /\ d.snaps = c.snaps /\ d.slot = c.slot
      /\ d.forkSeen = c.forkSeen /\ SameEpisode(c, d)
  BY <1>2, <1>3, <1>4 DEF Peer, SameEpisode
<1> HIDE DEF d
<1>6. Sound(d)
  <2>1. Span(d) = Span(c)
    BY <1>5 DEF SameEpisode, Span
  <2>2. Episode(d)
    BY <1>2, <1>5, <2>1 DEF Episode, SameEpisode
  <2>3. Ring(d) /\ OneRun(d)
    BY <1>2, <1>5 DEF Ring, OneRun
  <2>4. Exact(d)
    <3>1. ~c.forkSeen => c.mach.skipped = {} /\ committed < c.sim
      BY <1>2, <1>3 DEF Exact
    <3>. QED BY <1>2, <1>5, <3>1 DEF Exact
  <2>. QED BY <1>5, <2>2, <2>3, <2>4 DEF Sound, Run, Shape
<1>7. Sound(h) /\ SameRun(d, h)
  <2>1. /\ h \in Peer /\ h.stage = "tiphold" /\ SameRun(d, h) /\ h.epoch = d.epoch
        /\ h.load = d.load /\ h.target = d.target /\ h.rows = d.rows
        /\ h.sealed = d.sealed /\ h.base = d.base /\ h.peerBase = d.peerBase
        /\ h.peerPost = d.peerPost /\ h.guessed = d.guessed /\ h.missed = d.missed
    BY <1>5, FieldValues DEF Peer, SameRun
  <2>2. d.stage = "verifying" /\ Episode(d) /\ h.sim = d.sim
    BY <1>1, <1>5, <1>6, <2>1 DEF Sound, Shape, SameRun
  <2> HIDE DEF h
  <2>3. Episode(h)
    BY <2>1, <2>2 DEF Episode, Span
  <2>. QED BY <1>6, <2>1, <2>3, SameRunSound DEF Shape
<1>8. Sound(Clear(d)) /\ Clear(d).slot = d.slot
  BY <1>6, ClearSound
<1>9. Sound(n) /\ n.slot = r.slot
  <2>1. h.slot = d.slot
    BY <1>7 DEF SameRun
  <2> HIDE DEF h
  <2>. QED BY <1>2, <1>5, <1>7, <1>8, <2>1
<1> HIDE DEF n
<1>10. m \in Message
  BY <1>9, PeerFields DEF Message, Sound, Shape
<1> HIDE DEF m
<1>11. Sound(Send(n, m)) /\ SameRun(n, Send(n, m))
  BY <1>9, <1>10, SendSound, SendShape DEF Sound
<1>. QED BY <1>1a, <1>9, <1>11 DEF SameRun

\* A POST that is no answer is forgotten.
LEMMA PostForgotten ==
  ASSUME NEW r, Sound(r)
  PROVE  /\ Sound([r EXCEPT !.peerPost = None]) /\ SameRun(r, [r EXCEPT !.peerPost = None])
<1> DEFINE c == [r EXCEPT !.peerPost = None]
<1>1. r \in Peer
  BY DEF Sound, Shape
<1>2. c \in Peer /\ SameRun(r, c) /\ SameEpisode(r, c)
  BY <1>1, FieldValues DEF Peer, SameRun, SameEpisode
<1> HIDE DEF c
<1>3. Sound(c)
  BY <1>2, SameShape, SameRunSound DEF Sound
<1>. QED BY <1>2, <1>3 DEF c

\* The comparison of the digests, whatever its outcome, keeps a peer sound.
LEMMA VerifySound ==
  ASSUME NEW r, Sound(r), r.stage = "verifying", NEW expired \in BOOLEAN,
         NEW willing \in BOOLEAN
  PROVE  Sound(Verify(r, expired, willing)) /\ Verify(r, expired, willing).slot = r.slot
<1>1. CASE PostForTip(r) /\ Agree(r.mach, r.peerPost.digest)
  BY <1>1, CommitSound DEF Verify, Agree
<1>2. CASE PostForTip(r) /\ ~Agree(r.mach, r.peerPost.digest)
  <2> DEFINE f == [r EXCEPT !.forkSeen = TRUE]
             l == EnterLockstep(f)
  <2>1. r \in Peer
    BY DEF Sound, Shape
  <2>2. f \in Peer /\ SameRun(r, f) /\ SameEpisode(r, f)
    BY <2>1 DEF Peer, SameRun, SameEpisode
  <2>3. Sound(f)
    <3> HIDE DEF f
    <3>. QED BY <2>2, SameShape, SameRunSound DEF Sound
  <2>4. Shape(l) /\ SameRun(f, l)
    <3> HIDE DEF f
    <3>. QED BY <2>3, EnterLockstepShape DEF Sound
  <2>5. Sound(l)
    <3> HIDE DEF f, l
    <3>. QED BY <2>3, <2>4, SameRunSound
  <2>6. Sound(Abort(l, "abort")) /\ SameRun(l, Abort(l, "abort"))
    <3> HIDE DEF l
    <3>. QED BY <2>5, AbortSound
  <2>7. Verify(r, expired, willing) = Abort(l, "abort")
    BY <1>2 DEF Verify
  <2> HIDE DEF f, l
  <2>. QED BY <2>2, <2>4, <2>6, <2>7 DEF SameRun
<1>3. CASE ~PostForTip(r)
  <2>1. Verify(r, expired, willing) \in {Abort(r, "abort"), [r EXCEPT !.peerPost = None]}
    BY <1>3 DEF Verify
  <2>. QED BY <2>1, AbortSound, PostForgotten DEF SameRun
<1>. QED BY <1>1, <1>2, <1>3

\* rb_pump_episode() keeps a peer sound in every stage.
LEMMA PumpSound ==
  ASSUME NEW r, Sound(r), NEW expired \in BOOLEAN, NEW willing \in BOOLEAN
  PROVE  Sound(Pump(r, expired, willing)) /\ Pump(r, expired, willing).slot = r.slot
<1>1. CASE r.stage = "sealing"
  <2>1. Sound(Abort(r, "abort")) /\ Abort(r, "abort").slot = r.slot
    BY AbortSound DEF SameRun
  <2>2. Sound(Seal(r, expired)) /\ Seal(r, expired).slot = r.slot
    BY <1>1, <2>1, ReplaySound DEF Seal
  <2>. QED BY <1>1, <2>2 DEF Pump
<1>2. CASE r.stage = "verifying"
  BY <1>2, VerifySound DEF Pump
<1>3. CASE r.stage = "tiphold"
  <2>1. Sound(HoldTip(r, expired)) /\ HoldTip(r, expired).slot = r.slot
    BY ClearSound DEF HoldTip
  <2>. QED BY <1>3, <2>1 DEF Pump
<1>4. CASE r.stage \notin {"sealing", "verifying", "tiphold"}
  <2>1. Pump(r, expired, willing) = r
    BY <1>4 DEF Pump
  <2>. QED BY <2>1
<1>. QED BY <1>1, <1>2, <1>3, <1>4

---------------------------------------------------------------------------
(* Live ticks.                                                             *)

\* More rows of the other peer are known.
LEMMA KnownSound ==
  ASSUME NEW r, Sound(r), NEW k \in Tick
  PROVE  Sound([r EXCEPT !.known = k]) /\ SameRun(r, [r EXCEPT !.known = k])
<1> DEFINE c == [r EXCEPT !.known = k]
<1>1. r \in Peer
  BY DEF Sound, Shape
<1>2. c \in Peer /\ SameRun(r, c) /\ SameEpisode(r, c)
  BY <1>1 DEF Peer, SameRun, SameEpisode
<1> HIDE DEF c
<1>3. Sound(c)
  BY <1>2, SameShape, SameRunSound DEF Sound
<1>. QED BY <1>2, <1>3 DEF c

\* More own rows are published, or one again.
LEMMA PreparedSound ==
  ASSUME NEW r, Sound(r), NEW differs \in BOOLEAN
  PROVE  Sound(Prepared(r, differs)) /\ SameRun(r, Prepared(r, differs))
<1> DEFINE w == r.sim + Delay
           n == Min({w, MaxTick})
           k == Max({r.published, n})
           R == IF differs THEN r.resampled \cup {w} ELSE r.resampled \ {w}
           c == [r EXCEPT !.prepared = r.sim, !.published = k, !.resampled = R]
<1>1. r \in Peer
  BY DEF Sound, Shape
<1>2. /\ r.sim \in 1 .. MaxTick /\ r.published \in 0 .. MaxTick /\ w \in Nat
      /\ MaxTick \in Nat /\ r.resampled \in SUBSET Int
  BY <1>1, PeerFields, RollbackAssumption
<1>3. CASE r.prepared = r.sim
  <2>1. Prepared(r, differs) = r
    BY <1>3 DEF Prepared
  <2>. QED BY <2>1 DEF SameRun
<1>4. CASE r.prepared # r.sim
  <2>1. Prepared(r, differs) = c
    <3>1. [r EXCEPT !.prepared = r.sim,
                    !.published = Max({@, Min({w, MaxTick})}),
                    !.resampled = IF differs THEN @ \cup {w} ELSE @ \ {w}] = c
      <4> HIDE DEF w
      <4>. QED BY <1>1 DEF Peer
    <3>. QED BY <1>4, <3>1 DEF Prepared
  <2> HIDE DEF w
  <2>2. n \in 0 .. MaxTick
    <3>1. n = IF w <= MaxTick THEN w ELSE MaxTick
      BY <1>2, MinOfTwo
    <3> HIDE DEF n
    <3>. QED BY <1>2, <3>1
  <2> HIDE DEF n
  <2>3. k \in Horizon
    <3>1. k = IF r.published >= n THEN r.published ELSE n
      BY <1>2, <2>2, MaxOfTwo
    <3> HIDE DEF k
    <3>. QED BY <1>2, <2>2, <3>1 DEF Horizon
  <2>4. R \in PadTicks /\ r.sim \in Nat
    BY <1>2 DEF PadTicks
  <2> HIDE DEF k, R
  <2>5. c \in Peer /\ SameRun(r, c) /\ SameEpisode(r, c)
    BY <1>1, <2>3, <2>4 DEF Peer, SameRun, SameEpisode
  <2> HIDE DEF c
  <2>6. Sound(c)
    BY <2>5, SameShape, SameRunSound DEF Sound
  <2>. QED BY <2>1, <2>5, <2>6
<1>. QED BY <1>3, <1>4

\* A machine that ran wrong rows of ticks W and odd rows O.
WithRows(m, W, O) == [m EXCEPT !.wrong = @ \cup W, !.odd = @ \cup O]

\* The machine that has run one more tick is, before that tick, what it was.
LEMMA FrameMachine ==
  ASSUME NEW m \in Machine, NEW t \in Tick, Before(m, t), NEW p \in Peers,
         NEW W \in SUBSET {t}, NEW O \in SUBSET {<<p, t>>}
  PROVE  /\ WithRows(m, W, O) \in Machine /\ Before(WithRows(m, W, O), t + 1)
         /\ WithRows(m, W, O).skipped = m.skipped
         /\ WithRows(m, W, O).wrong \cap 0 .. t - 1 \subseteq m.wrong
         /\ \A s \in Nat : s <= t => AsOf(WithRows(m, W, O), s) = AsOf(m, s)
<1> DEFINE n == WithRows(m, W, O)
<1>1. /\ n.wrong = m.wrong \cup W /\ n.skipped = m.skipped /\ n.odd = m.odd \cup O
      /\ n \in Machine /\ t \in Nat
  <2>1. <<p, t>> \in Peers \X Tick
    OBVIOUS
  <2>. QED BY <2>1, TickFinite DEF Machine, WithRows
<1> HIDE DEF n
<1>2. /\ m.wrong \cup m.skipped \subseteq 0 .. t - 1 /\ \A x \in m.odd : x[2] < t
  BY DEF Before
<1>3. 0 .. t - 1 \subseteq 0 .. (t + 1) - 1 /\ t \in 0 .. (t + 1) - 1 /\ t \notin 0 .. t - 1
      /\ 0 .. (t + 1) - 1 = 0 .. t
  BY <1>1
<1>4. \A x \in n.odd : x[2] < t + 1
  <2> SUFFICES ASSUME NEW x \in n.odd PROVE x[2] < t + 1
    OBVIOUS
  <2>1. x[2] \in Nat
    BY <1>1, RowTick DEF Machine
  <2>2. CASE x \in m.odd
    BY <1>1, <1>2, <2>1, <2>2
  <2>3. CASE x \in O
    BY <1>1, <2>3
  <2>. QED BY <1>1, <2>2, <2>3
<1>5. Before(n, t + 1)
  BY <1>1, <1>2, <1>3, <1>4 DEF Before
<1>6. ASSUME NEW s \in Nat, s <= t PROVE AsOf(n, s) = AsOf(m, s)
  <2>1. t \notin 0 .. s - 1
    BY <1>1, <1>6
  <2>2. \A x \in Peers \X Tick : x[2] < s => (x \in n.odd <=> x \in m.odd)
    <3> SUFFICES ASSUME NEW x \in O PROVE ~(x[2] < s)
      BY <1>1
    <3>. QED BY <1>1, <1>6
  <2>3. n.wrong \cap 0 .. s - 1 = m.wrong \cap 0 .. s - 1
        /\ n.skipped \cap 0 .. s - 1 = m.skipped \cap 0 .. s - 1
    BY <1>1, <2>1
  <2>. QED BY <1>1, <2>2, <2>3, AsOfSame
<1>. QED BY <1>1, <1>2, <1>3, <1>5, <1>6 DEF n

\* What a frame does to the run, with the wrong row it may run invented: the snapshot is
\* of the machine before the tick, and the wrong row is missed in the history.
LEMMA FrameSound ==
  ASSUME NEW r, Sound(r), r.stage # "sealing", r.sim < MaxTick,
         NEW wrong \in BOOLEAN, wrong => ~HasRow(r)
  PROVE  Sound(Frame(r, wrong)) /\ Frame(r, wrong).slot = r.slot
<1> DEFINE t == r.sim
           own == {<<r.slot, u>> : u \in r.resampled \cap {t}}
           W == IF wrong THEN {t} ELSE {}
           snaps == Saved(r.snaps, {t}, r.mach)
           guessed == IF ~HasRow(r) THEN r.guessed \cup {t} ELSE r.guessed \ {t}
           missed == IF wrong THEN r.missed \cup {t} ELSE r.missed \ {t}
           odd == {x \in r.odd : x[2] # t} \cup own
           held == Max({r.held, t})
           mach == WithRows(r.mach, W, own)
           lockstep == IF t + 1 >= r.lockstep THEN 0 ELSE r.lockstep
           f == [r EXCEPT !.snaps = snaps, !.guessed = guessed, !.missed = missed,
                          !.odd = odd, !.held = held, !.mach = mach, !.sim = t + 1,
                          !.lockstep = lockstep]
<1>1. /\ r \in Peer /\ Episode(r) /\ Ring(r) /\ OneRun(r) /\ Exact(r)
      /\ r.snaps \in Snapshots /\ r.mach \in Machine
      /\ DOMAIN r.snaps \subseteq Tick
      /\ \A s \in DOMAIN r.snaps : r.snaps[s] \in Machine
  <2>1. r \in Peer /\ Episode(r) /\ Ring(r) /\ OneRun(r) /\ Exact(r)
    BY DEF Sound, Shape, Run
  <2>2. r.snaps \in Snapshots /\ r.mach \in Machine
    BY <2>1, PeerFields
  <2>. QED BY <2>1, <2>2, SnapsProperties
<1>2. t \in Tick /\ t \in Nat /\ t + 1 \in SimTick /\ r.slot \in Peers
  <2>1. r.sim \in 1 .. MaxTick /\ MaxTick \in Nat /\ r.slot \in Peers
    BY <1>1, PeerFields, RollbackAssumption
  <2>. QED BY <2>1 DEF Tick, SimTick
<1>3. own \in SUBSET {<<r.slot, t>>} /\ W \in SUBSET {t}
  OBVIOUS
<1>4. Frame(r, wrong) = f
  <2>1. [r.mach EXCEPT !.wrong = IF wrong THEN @ \cup {t} ELSE @, !.odd = @ \cup own] = mach
    <3>1. (IF wrong THEN r.mach.wrong \cup {t} ELSE r.mach.wrong) = r.mach.wrong \cup W
      OBVIOUS
    <3>. QED BY <1>1, <3>1 DEF Machine, WithRows
  <2> DEFINE g == [r EXCEPT
                     !.snaps = Saved(@, {t}, r.mach),
                     !.guessed = IF ~HasRow(r) THEN @ \cup {t} ELSE @ \ {t},
                     !.missed = IF wrong THEN @ \cup {t} ELSE @ \ {t},
                     !.odd = {x \in @ : x[2] # t} \cup own,
                     !.held = Max({@, t}),
                     !.mach = [r.mach EXCEPT !.wrong = IF wrong THEN @ \cup {t} ELSE @,
                                             !.odd = @ \cup own],
                     !.sim = t + 1]
             h == [r EXCEPT !.snaps = snaps, !.guessed = guessed, !.missed = missed,
                            !.odd = odd, !.held = held, !.mach = mach, !.sim = t + 1]
  <2>2. Frame(r, wrong) = [g EXCEPT !.lockstep = IF g.sim >= @ THEN 0 ELSE @]
    BY DEF Frame
  <2>4. g = h
    <3> HIDE DEF own, mach
    <3>. QED BY <1>1, <2>1 DEF Peer
  <2>5. h.sim = t + 1 /\ h.lockstep = r.lockstep
    <3> HIDE DEF snaps, guessed, missed, odd, held, mach
    <3>. QED BY <1>1 DEF Peer
  <2>6. f = [h EXCEPT !.lockstep = lockstep]
    <3> HIDE DEF snaps, guessed, missed, odd, held, mach, lockstep
    <3>. QED BY <1>1 DEF Peer
  <2> HIDE DEF g, h, f
  <2>. QED BY <2>2, <2>4, <2>5, <2>6
<1>5. MergedRing(snaps, r.snaps, {t}, r.mach)
  BY <1>1, <1>2, SavedProperties DEF Ring
<1>6. r.mach = AsOf(r.mach, t) /\ Before(r.mach, t)
  BY <1>1, <1>2, AsOfWhole DEF Ring
<1>7. /\ snaps \in Snapshots /\ DOMAIN snaps # {} /\ Cardinality(DOMAIN snaps) <= Depth
      /\ \A s \in DOMAIN snaps :
           /\ s \in Nat /\ s <= t
           /\ \/ s = t /\ snaps[s] = r.mach
              \/ s \in DOMAIN r.snaps /\ s < t /\ snaps[s] = r.snaps[s]
  <2> HIDE DEF snaps
  <2>1. /\ snaps \in Snapshots /\ DOMAIN snaps # {} /\ Cardinality(DOMAIN snaps) <= Depth
        /\ DOMAIN snaps \subseteq DOMAIN r.snaps \cup {t}
        /\ \A s \in DOMAIN snaps : /\ s \in {t} => snaps[s] = AsOf(r.mach, s)
                                   /\ s \notin {t} => snaps[s] = r.snaps[s]
    BY <1>5 DEF MergedRing
  <2>2. \A s \in DOMAIN r.snaps : s \in Nat /\ s < t
    BY <1>1, TickFinite DEF Ring
  <2>3. \A s \in DOMAIN snaps :
           /\ s \in Nat /\ s <= t
           /\ \/ s = t /\ snaps[s] = r.mach
              \/ s \in DOMAIN r.snaps /\ s < t /\ snaps[s] = r.snaps[s]
    <3> SUFFICES ASSUME NEW s \in DOMAIN snaps
                 PROVE  /\ s \in Nat /\ s <= t
                        /\ \/ s = t /\ snaps[s] = r.mach
                           \/ s \in DOMAIN r.snaps /\ s < t /\ snaps[s] = r.snaps[s]
      OBVIOUS
    <3>1. CASE s = t
      BY <1>2, <1>6, <2>1, <3>1
    <3>2. CASE s # t
      BY <1>2, <2>1, <2>2, <3>2
    <3>. QED BY <3>1, <3>2
  <2>. QED BY <2>1, <2>3
<1>8. /\ guessed \in Ticks /\ missed \in Ticks /\ missed \subseteq guessed
      /\ lockstep \in Nat /\ held \in Nat /\ odd \in PadRows
  <2>1. /\ r.missed \subseteq r.guessed /\ r.guessed \in SUBSET Tick /\ r.lockstep \in Nat
        /\ r.held \in Nat /\ r.odd \in SUBSET (Peers \X Tick)
    BY <1>1, PeerFields DEF Episode
  <2>2. missed \subseteq guessed /\ guessed \in SUBSET Tick
    BY <1>2, <2>1
  <2>3. held \in Nat
    BY <1>2, <2>1, MaxOfTwo
  <2>4. odd \in PadRows
    <3>1. <<r.slot, t>> \in Peers \X Tick
      BY <1>2
    <3> HIDE DEF own
    <3>. QED BY <1>3, <2>1, <3>1 DEF PadRows
  <2>5. guessed \in Ticks /\ missed \in Ticks
    BY <2>2 DEF Ticks
  <2>. QED BY <2>1, <2>2, <2>3, <2>4, <2>5
<1>9. /\ mach \in Machine /\ Before(mach, t + 1) /\ mach.skipped = r.mach.skipped
      /\ mach.wrong \cap 0 .. t - 1 \subseteq r.mach.wrong
      /\ \A s \in Nat : s <= t => AsOf(mach, s) = AsOf(r.mach, s)
  <2> HIDE DEF own, W, t
  <2>. QED BY <1>1, <1>2, <1>3, <1>6, FrameMachine
<1> HIDE DEF own, W, snaps, guessed, missed, odd, held, mach, lockstep
<1>10. /\ f \in Peer /\ f.snaps = snaps /\ f.guessed = guessed /\ f.missed = missed
      /\ f.mach = mach /\ f.sim = t + 1 /\ f.stage = r.stage /\ f.epoch = r.epoch
      /\ f.load = r.load /\ f.target = r.target /\ f.rows = r.rows /\ f.base = r.base
      /\ f.peerBase = r.peerBase /\ f.peerPost = r.peerPost /\ f.sealed = r.sealed
      /\ f.committed = r.committed /\ f.forkSeen = r.forkSeen /\ f.slot = r.slot
  <2> HIDE DEF t
  <2>1. f \in Peer
    BY <1>1, <1>2, <1>7, <1>8, <1>9 DEF Peer
  <2>. QED BY <1>1, <2>1 DEF Peer
<1> HIDE DEF f
<1>11. Episode(f)
  <2>1. Span(f) = Span(r)
    BY <1>10 DEF Span
  <2>2. f.stage \in {"verifying", "tiphold"} => f.target < f.sim
    <3>1. r.target \in Nat
      BY <1>1, TickFinite, PeerFields
    <3>. QED BY <1>1, <1>2, <1>10, <3>1 DEF Episode
  <2>3. f.stage # "sealing"
    BY <1>10
  <2>. QED BY <1>1, <1>8, <1>10, <2>1, <2>2, <2>3 DEF Episode
<1>12. Ring(f)
  <2>1. ASSUME NEW s \in DOMAIN snaps PROVE s < t + 1 /\ Before(snaps[s], s)
    <3>1. s < t + 1
      BY <1>2, <1>7
    <3>2. CASE s = t /\ snaps[s] = r.mach
      BY <1>6, <3>1, <3>2
    <3>3. CASE s \in DOMAIN r.snaps /\ snaps[s] = r.snaps[s]
      BY <1>1, <3>1, <3>3 DEF Ring
    <3>. QED BY <1>7, <3>2, <3>3
  <2>. QED BY <1>7, <1>9, <1>10, <2>1 DEF Ring
<1>13. OneRun(f)
  <2>1. ASSUME NEW s \in DOMAIN snaps PROVE OfRun(snaps[s], s, mach)
    <3>0. s \in Nat /\ s <= t /\ AsOf(mach, s) = AsOf(r.mach, s)
      BY <1>7, <1>9
    <3>1. CASE s = t /\ snaps[s] = r.mach
      BY <1>6, <3>0, <3>1 DEF OfRun
    <3>2. CASE s \in DOMAIN r.snaps /\ snaps[s] = r.snaps[s]
      <4>1. OfRun(r.snaps[s], s, r.mach)
        BY <1>1, <3>2 DEF OneRun
      <4>. QED BY <1>9, <3>0, <3>2, <4>1 DEF OfRun
    <3>. QED BY <1>7, <3>1, <3>2
  <2>2. ASSUME NEW s \in DOMAIN snaps, NEW u \in DOMAIN snaps, s < u
        PROVE  OfRun(snaps[s], s, snaps[u])
    <3>0. s \in Nat /\ u \in Nat /\ u <= t /\ s < t
      BY <1>2, <1>7, <2>2
    <3>1. s \in DOMAIN r.snaps /\ snaps[s] = r.snaps[s]
      BY <1>2, <1>7, <3>0
    <3>2. CASE u = t /\ snaps[u] = r.mach
      BY <1>1, <3>1, <3>2 DEF OneRun
    <3>3. CASE u \in DOMAIN r.snaps /\ snaps[u] = r.snaps[u]
      BY <1>1, <2>2, <3>1, <3>3 DEF OneRun
    <3>. QED BY <1>7, <3>2, <3>3
  <2>. QED BY <1>10, <2>1, <2>2 DEF OneRun
<1>14. Exact(f)
  <2> SUFFICES ASSUME ~r.forkSeen
               PROVE  /\ mach.skipped = {} /\ r.committed < t + 1
                      /\ mach.wrong \cap 0 .. r.committed = {}
    BY <1>10 DEF Exact
  <2>1. /\ r.mach.skipped = {} /\ r.committed < t
        /\ r.mach.wrong \cap 0 .. r.committed = {} /\ r.committed \in Nat
    BY <1>1, PeerFields, TickFinite DEF Exact
  <2>2. 0 .. r.committed \subseteq 0 .. t - 1
    BY <1>2, <2>1
  <2>. QED BY <1>2, <1>9, <2>1, <2>2
<1>. QED BY <1>4, <1>10, <1>11, <1>12, <1>13, <1>14 DEF Sound, Run, Shape

---------------------------------------------------------------------------
(* Messages.                                                               *)

\* A BEGIN is followed, taken instead of the own call, or refused.
LEMMA OnBeginSound ==
  ASSUME NEW p \in Peers, NEW r, Sound(r), NEW m \in Begin, NEW willing \in BOOLEAN
  PROVE  Sound(OnBegin(p, r, m, willing)) /\ OnBegin(p, r, m, willing).slot = r.slot
<1>1. m.epoch \in Epoch
  BY DEF Begin, Called
<1>2. CASE r.stage = "idle"
  BY <1>2, BeginAsFollowerSound DEF OnBegin, SameRun
<1>3. CASE r.stage # "idle" /\ r.initiator /\ Other(p) < p
  <2>1. Sound(Clear(r)) /\ Clear(r).stage = "idle" /\ Clear(r).slot = r.slot
    BY ClearSound
  <2>2. /\ Sound(BeginAsFollower(Clear(r), m, willing))
        /\ SameRun(Clear(r), BeginAsFollower(Clear(r), m, willing))
    BY <2>1, BeginAsFollowerSound
  <2>. QED BY <1>3, <2>1, <2>2 DEF OnBegin, SameRun
<1>4. CASE r.stage # "idle" /\ ~(r.initiator /\ Other(p) < p)
  <2>1. Sound(Nack(r, m)) /\ SameRun(r, Nack(r, m))
    BY <1>1, NackSound
  <2>. QED BY <1>4, <2>1 DEF OnBegin, SameRun
<1>. QED BY <1>2, <1>3, <1>4

\* The peer's grown tip is followed, or the episode ended, after the own rows for it have
\* been read.
LEMMA OnExtendSound ==
  ASSUME NEW r, Sound(r), NEW m, m.epoch \in Epoch, m.target \in Tick,
         NEW willing \in BOOLEAN
  PROVE  Sound(OnExtend(r, m, willing)) /\ SameRun(r, OnExtend(r, m, willing))
<1> DEFINE target == Max({m.target, r.target})
           c == IF MayExtend(r) THEN RowsRead(r, target) ELSE r
           x == OnExtend(r, m, willing)
<1>1. r \in Peer
  BY DEF Sound, Shape
<1>2. target \in Tick /\ r.target <= target
  <2>1. r.target \in Tick /\ r.target \in Nat /\ m.target \in Nat
    BY <1>1, TickFinite, PeerFields
  <2>2. target = IF m.target >= r.target THEN m.target ELSE r.target
    BY <2>1, MaxOfTwo
  <2> HIDE DEF target
  <2>. QED BY <2>1, <2>2
<1>3. x \in {Extended(c, target), Abort(c, "realign"), Nack(r, m)}
      /\ (x = Extended(c, target) => MayExtend(c) \/ x \in {Abort(c, "realign"), Nack(r, m)})
  BY DEF OnExtend, CanExtend
<1> HIDE DEF target, x
<1>4. Sound(c) /\ SameRun(r, c) /\ c.target = r.target
  <2>1. SameRun(r, r)
    BY DEF SameRun
  <2>2. /\ Sound(RowsRead(r, target)) /\ SameRun(r, RowsRead(r, target))
        /\ RowsRead(r, target).target = r.target
    BY <1>2, RowsReadSound DEF SameEpisode
  <2>. QED BY <2>1, <2>2
<1> HIDE DEF c
<1>5. ASSUME MayExtend(c) PROVE Sound(Extended(c, target)) /\ SameRun(r, Extended(c, target))
  <2>1. Sound(Extended(c, target)) /\ SameRun(c, Extended(c, target))
    BY <1>2, <1>4, <1>5, ExtendedSound
  <2>. QED BY <1>4, <2>1, SameRunTwice
<1>6. Sound(Abort(c, "realign")) /\ SameRun(r, Abort(c, "realign"))
  <2>1. Sound(Abort(c, "realign")) /\ SameRun(c, Abort(c, "realign"))
    BY <1>4, AbortSound
  <2>. QED BY <1>4, <2>1, SameRunTwice
<1>7. Sound(Nack(r, m)) /\ SameRun(r, Nack(r, m))
  BY NackSound
<1>8. Sound(x) /\ SameRun(r, x)
  BY <1>3, <1>5, <1>6, <1>7
<1>. QED BY <1>8 DEF x

\* An ABORT clears the episode and sets the cooldown.
LEMMA OnAbortSound ==
  ASSUME NEW r, Sound(r), NEW m
  PROVE  Sound(OnAbort(r, m)) /\ OnAbort(r, m).slot = r.slot
<1> DEFINE k == r.sim + (IF m.class = "realign" THEN 0 ELSE Cooldown)
           c == Clear(r)
           a == [c EXCEPT !.cooldown = k]
<1>1. r \in Peer
  BY DEF Sound, Shape
<1>2. Sound(c) /\ c \in Peer /\ c.slot = r.slot
  BY ClearSound DEF Sound, Shape
<1>3. k \in Nat
  BY <1>1, PeerFields, RollbackAssumption
<1> HIDE DEF c, k
<1>4. a \in Peer /\ SameRun(c, a) /\ SameEpisode(c, a)
  BY <1>2, <1>3 DEF Peer, SameRun, SameEpisode
<1> HIDE DEF a
<1>5. Sound(a) /\ a.slot = r.slot
  BY <1>2, <1>4, SameShape, SameRunSound DEF Sound, SameRun
<1>6. OnAbort(r, m) \in {r, a}
  BY DEF OnAbort, a, c, k
<1>. QED BY <1>5, <1>6

\* Rows of the peer seal more of the span.
LEMMA OnRowsSound ==
  ASSUME NEW r, Sound(r), NEW m \in Rows
  PROVE  Sound(OnRows(r, m)) /\ OnRows(r, m).slot = r.slot
<1> DEFINE new == (Span(r) \cap m.load .. m.target) \ r.rows
           R == r.rows \cup new
           S == r.sealed \cup {Other(r.slot)} \X (new \cap m.odd)
           c == [r EXCEPT !.rows = R, !.sealed = S]
<1>1. r \in Peer /\ Episode(r)
  BY DEF Sound, Shape
<1>2. CASE Current(r, m) /\ m.load = r.load
  <2>1. /\ r.load \in Tick /\ r.target \in Tick /\ r.rows \in SUBSET Tick
        /\ r.sealed \in SUBSET (Peers \X Tick) /\ r.slot \in Peers
        /\ Span(r) \in SUBSET Tick
    BY <1>1, PeerFields, TickRange DEF Span
  <2>2. new \subseteq Span(r)
    OBVIOUS
  <2>3. Other(r.slot) \in Peers
    BY <2>1 DEF Other, Peers
  <2>4. OnRows(r, m) = c
    BY <1>1, <1>2 DEF OnRows, Peer
  <2> HIDE DEF new
  <2>5. R \in Ticks /\ S \in PadRows /\ R \subseteq Span(r)
    BY <1>1, <2>1, <2>2, <2>3 DEF Ticks, PadRows, Episode
  <2>6. \A x \in S : x[2] \in Span(r)
    BY <1>1, <2>2 DEF Episode
  <2> HIDE DEF R, S
  <2>7. /\ c \in Peer /\ SameRun(r, c) /\ c.rows = R /\ c.stage = r.stage
        /\ c.load = r.load /\ c.target = r.target /\ c.epoch = r.epoch
        /\ c.missed = r.missed /\ c.guessed = r.guessed /\ c.sealed = S
    BY <1>1, <2>5 DEF Peer, SameRun
  <2> HIDE DEF c
  <2>8. Span(c) = Span(r)
    BY <2>7 DEF Span
  <2>9. Episode(c)
    BY <1>1, <1>2, <2>5, <2>6, <2>7, <2>8 DEF Episode, SameRun, Current
  <2>10. Sound(c)
    BY <2>7, <2>9, SameRunSound DEF Shape
  <2>. QED BY <2>4, <2>7, <2>10 DEF SameRun
<1>3. CASE ~(Current(r, m) /\ m.load = r.load)
  BY <1>3 DEF OnRows
<1>. QED BY <1>2, <1>3

\* The peer's baseline may end the episode as a fork.
LEMMA OnBaseSound ==
  ASSUME NEW r, Sound(r), NEW m, m.digest \in Machine
  PROVE  Sound(OnBase(r, m)) /\ OnBase(r, m).slot = r.slot
<1> DEFINE c == [r EXCEPT !.peerBase = m.digest]
<1>1. r \in Peer /\ Episode(r)
  BY DEF Sound, Shape
<1>2. CASE Current(r, m) /\ m.load = r.load
  <2>1. m.digest \in Baselines
    BY DEF Baselines
  <2>2. /\ c \in Peer /\ SameRun(r, c) /\ c.rows = r.rows /\ c.stage = r.stage
        /\ c.load = r.load /\ c.target = r.target /\ c.epoch = r.epoch
        /\ c.missed = r.missed /\ c.guessed = r.guessed /\ c.sealed = r.sealed
    BY <1>1, <2>1 DEF Peer, SameRun
  <2>3. OnBase(r, m) = CompareBase(c)
    BY <1>2 DEF OnBase
  <2> HIDE DEF c
  <2>4. Span(c) = Span(r)
    BY <2>2 DEF Span
  <2>5. Episode(c)
    BY <1>1, <1>2, <2>2, <2>4 DEF Episode, SameRun, Current
  <2>6. Sound(c) /\ Shape(c)
    BY <2>2, <2>5, SameRunSound DEF Shape
  <2>7. Shape(CompareBase(c)) /\ SameRun(c, CompareBase(c))
    BY <2>6, CompareBaseShape
  <2>8. Sound(CompareBase(c))
    BY <2>6, <2>7, SameRunSound
  <2>. QED BY <2>2, <2>3, <2>7, <2>8 DEF SameRun
<1>3. CASE ~(Current(r, m) /\ m.load = r.load)
  BY <1>3 DEF OnBase
<1>. QED BY <1>2, <1>3

\* The peer's digest is kept for the verification.
LEMMA OnPostSound ==
  ASSUME NEW r, Sound(r), NEW m, m.target \in Tick, m.digest \in Machine
  PROVE  Sound(OnPost(r, m)) /\ OnPost(r, m).slot = r.slot
<1> DEFINE a == [target |-> m.target, digest |-> m.digest]
           c == [r EXCEPT !.peerPost = a]
<1>1. r \in Peer /\ Episode(r)
  BY DEF Sound, Shape
<1>2. CASE Current(r, m)
  <2>1. a \in Answers
    BY DEF Post, Answers
  <2>1a. OnPost(r, m) = c
    BY <1>2 DEF OnPost
  <2> HIDE DEF a
  <2>2. /\ c \in Peer /\ SameRun(r, c) /\ c.rows = r.rows /\ c.stage = r.stage
        /\ c.load = r.load /\ c.target = r.target /\ c.epoch = r.epoch
        /\ c.missed = r.missed /\ c.guessed = r.guessed /\ c.sealed = r.sealed
    BY <1>1, <2>1 DEF Peer, SameRun
  <2> HIDE DEF c
  <2>3. Span(c) = Span(r)
    BY <2>2 DEF Span
  <2>4. Episode(c)
    BY <1>1, <1>2, <2>2, <2>3 DEF Episode, SameRun, Current
  <2>5. Sound(c)
    BY <2>2, <2>4, SameRunSound DEF Shape
  <2>. QED BY <2>1a, <2>2, <2>5 DEF SameRun
<1>3. CASE ~Current(r, m)
  BY <1>3 DEF OnPost
<1>. QED BY <1>2, <1>3

\* What a message bears besides its kind.
LEMMA MessageFields ==
  ASSUME NEW m \in Message
  PROVE  /\ m.op \in {"begin", "extend", "nack", "abort", "commit", "rows", "base", "post"}
         /\ m.op = "begin" => m \in Begin
         /\ m.op = "rows" => m \in Rows
         /\ m.epoch \in Epoch
         /\ m.op \in {"extend", "post"} => m.target \in Tick
         /\ m.op \in {"base", "post"} => m.digest \in Machine
BY DEF Message, Begin, Rows, Called

\* Whatever message a peer takes, one step of its handler keeps it sound.
LEMMA HandledSound ==
  ASSUME NEW p \in Peers, NEW r, Sound(r), NEW m \in Message, NEW willing \in BOOLEAN
  PROVE  Sound(Handled(p, r, m, willing)) /\ Handled(p, r, m, willing).slot = r.slot
<1>0. m.epoch \in Epoch
  BY MessageFields
<1>1. CASE m.op = "begin"
  <2>1. m \in Begin
    BY <1>1, MessageFields
  <2>. QED BY <1>1, <2>1, OnBeginSound DEF Handled
<1>2. CASE m.op = "extend"
  <2>1. m.target \in Tick
    BY <1>2, MessageFields
  <2>. QED BY <1>0, <1>2, <2>1, OnExtendSound DEF Handled, SameRun
<1>3. CASE m.op = "nack"
  <2>1. OnNack(r, m) \in {r, Abort(r, "realign")}
    BY DEF OnNack
  <2>2. Sound(OnNack(r, m)) /\ OnNack(r, m).slot = r.slot
    BY <2>1, AbortSound DEF SameRun
  <2>. QED BY <1>3, <2>2 DEF Handled
<1>4. CASE m.op = "abort"
  BY <1>4, OnAbortSound DEF Handled
<1>5. CASE m.op = "commit"
  <2>1. OnCommit(r, m) \in {r, Clear(r)}
    BY DEF OnCommit
  <2>2. Sound(OnCommit(r, m)) /\ OnCommit(r, m).slot = r.slot
    BY <2>1, ClearSound
  <2>. QED BY <1>5, <2>2 DEF Handled
<1>6. CASE m.op = "rows"
  <2>1. m \in Rows
    BY <1>6, MessageFields
  <2>. QED BY <1>6, <2>1, OnRowsSound DEF Handled
<1>7. CASE m.op = "base"
  <2>1. m.digest \in Machine
    BY <1>7, MessageFields
  <2>. QED BY <1>7, <2>1, OnBaseSound DEF Handled
<1>8. CASE m.op = "post"
  <2>1. m.digest \in Machine /\ m.target \in Tick
    BY <1>8, MessageFields
  <2>. QED BY <1>8, <2>1, OnPostSound DEF Handled
<1>. QED BY <1>1, <1>2, <1>3, <1>4, <1>5, <1>6, <1>7, <1>8, MessageFields

---------------------------------------------------------------------------
(* The system.                                                             *)

\* A poll, before the frame it admits, leaves a sound peer sound.
LEMMA AdmittedSound ==
  ASSUME NEW p \in Peers, Sound(st[p]), NEW k \in Tick, NEW c \in Choice
  PROVE  Sound(Admitted(p, k, c)) /\ Admitted(p, k, c).slot = st[p].slot
<1> DEFINE b == [st[p] EXCEPT !.known = k]
           d == Reconcile(p, b, c.willing)
           e == Pump(d, c.expired, c.willing)
<1>1. c.expired \in BOOLEAN /\ c.willing \in BOOLEAN /\ c.differs \in BOOLEAN
  BY DEF Choice
<1>2. Sound(b) /\ SameRun(st[p], b)
  BY KnownSound
<1>3. Pumped(p, k, c) = e
  BY DEF Pumped, Reconciled
<1> HIDE DEF b
<1>4. Sound(d) /\ SameRun(b, d)
  BY <1>1, <1>2, ReconcileSound
<1> HIDE DEF d
<1>5. Sound(e) /\ e.slot = d.slot
  BY <1>1, <1>4, PumpSound
<1> HIDE DEF e
<1>6. Sound(Prepared(e, c.differs)) /\ SameRun(e, Prepared(e, c.differs))
  BY <1>1, <1>5, PreparedSound
<1>7. Admitted(p, k, c) \in {e, Prepared(e, c.differs)}
  BY <1>3 DEF Admitted
<1>. QED BY <1>2, <1>4, <1>5, <1>6, <1>7 DEF SameRun

\* A frame that is admitted keeps a peer sound.
LEMMA RanSound ==
  ASSUME NEW r, Sound(r), MayRun(r), NEW wrong \in BOOLEAN, wrong => ~HasRow(r)
  PROVE  Sound(Frame(r, wrong)) /\ Frame(r, wrong).slot = r.slot
BY FrameSound DEF MayRun, Stalled

\* One step of peer p to the sound record r: what it sent is on the link.
LEMMA StepSound ==
  ASSUME IInv, NEW p \in Peers, NEW r, Sound(r), r.slot = p, NEW taken, Step(p, r, taken)
  PROVE  /\ st' \in [Peers -> Peer]
         /\ \A q \in Peers : st'[q].slot = q /\ Sound(st'[q])
         /\ net' \subseteq Envelope
<1> DEFINE c == [r EXCEPT !.out = {}]
           new == {[to |-> Other(p), msg |-> m] : m \in r.out}
<1>1. r \in Peer
  BY DEF Sound, Shape
<1>2. c \in Peer /\ SameRun(r, c) /\ SameEpisode(r, c)
  <2>1. {} \in Sent
    BY DEF Sent
  <2>. QED BY <1>1, <2>1 DEF Peer, SameRun, SameEpisode
<1>3. st' = [st EXCEPT ![p] = c] /\ net' \subseteq (net \ taken) \cup new
  BY DEF Step
<1>4. new \subseteq Envelope
  <2>1. Other(p) \in Peers
    BY DEF Other, Peers
  <2>2. r.out \subseteq Message
    BY <1>1, PeerFields
  <2>. QED BY <2>1, <2>2 DEF Envelope
<1> HIDE DEF c, new
<1>5. Sound(c) /\ c.slot = p
  BY <1>2, SameShape, SameRunSound DEF Sound, SameRun
<1>6. st' \in [Peers -> Peer] /\ \A q \in Peers : st'[q].slot = q /\ Sound(st'[q])
  BY <1>2, <1>3, <1>5 DEF IInv
<1>. QED BY <1>3, <1>4, <1>6 DEF IInv

\* A match begins sound.
LEMMA InitIInv == Init => IInv
<1> SUFFICES ASSUME Init PROVE IInv
  OBVIOUS
<1> DEFINE first == [t \in {0} |-> Fresh]
           R(p) ==
             [slot |-> p, stage |-> "idle", sim |-> 1, prepared |-> 0, published |-> Delay,
              resampled |-> {}, known |-> 0, held |-> 0, guessed |-> {}, missed |-> {},
              odd |-> {}, mach |-> Fresh, snaps |-> first,
              initiator |-> FALSE, epoch |-> NoEpoch, seq |-> 0, load |-> 0,
              target |-> 0, rows |-> {}, sealed |-> {}, base |-> None, peerBase |-> None,
              peerPost |-> None, extends |-> 0, cooldown |-> 0, forkCap |-> 0,
              forkSeen |-> FALSE, lockstep |-> 0, committed |-> 0, out |-> {}]
<1>1. st = [p \in Peers |-> R(p)] /\ net = {} /\ misses = 0 /\ again = 0
  BY DEF Init
<1>2. /\ Fresh \in Machine /\ Fresh.wrong = {} /\ Fresh.skipped = {} /\ Fresh.odd = {}
  BY DEF Fresh, Machine
<1>3. first \in Snapshots /\ DOMAIN first = {0} /\ first[0] = Fresh
  <2>1. first \in [{0} -> Machine] /\ {0} \in SUBSET Tick
    BY <1>2, TickFinite
  <2>. QED BY <2>1 DEF Snapshots
<1>4. Before(Fresh, 0) /\ Before(Fresh, 1) /\ Fresh = AsOf(Fresh, 0)
  <2>1. Before(Fresh, 0) /\ Before(Fresh, 1)
    BY <1>2 DEF Before
  <2>. QED BY <1>2, <2>1, AsOfWhole
<1>5. ASSUME NEW p \in Peers PROVE R(p) \in Peer /\ R(p).slot = p /\ Sound(R(p))
  <2>1. /\ 1 \in SimTick /\ Delay \in Horizon /\ {} \in PadTicks /\ {} \in Sent
        /\ 0 \in Nat
    BY RollbackAssumption DEF SimTick, Horizon, PadTicks, Sent
  <2> HIDE DEF first
  <2>2. R(p) \in Peer
    BY <1>2, <1>3, <2>1, FieldValues DEF Peer
  <2>3. /\ R(p).slot = p /\ R(p).mach = Fresh /\ R(p).snaps = first /\ R(p).sim = 1
        /\ R(p).committed = 0 /\ R(p).stage = "idle" /\ R(p).epoch = NoEpoch
        /\ R(p).rows = {} /\ R(p).sealed = {} /\ R(p).base = None
        /\ R(p).peerBase = None /\ R(p).peerPost = None /\ R(p).load = 0
        /\ R(p).target = 0 /\ R(p).missed = {} /\ R(p).guessed = {}
    OBVIOUS
  <2> HIDE DEF R
  <2>4. Episode(R(p))
    BY <2>3 DEF Episode
  <2>5. Ring(R(p))
    <3>1. Cardinality({0}) = 1
      BY FS_Singleton
    <3>. QED BY <1>3, <1>4, <2>3, <3>1, RollbackAssumption DEF Ring
  <2>6. OneRun(R(p))
    BY <1>3, <1>4, <2>3 DEF OneRun, OfRun
  <2>7. Exact(R(p))
    BY <1>2, <2>3 DEF Exact
  <2>. QED BY <2>2, <2>3, <2>4, <2>5, <2>6, <2>7 DEF Sound, Run, Shape
<1> HIDE DEF R
<1>6. st \in [Peers -> Peer] /\ \A p \in Peers : st[p].slot = p /\ Sound(st[p])
  BY <1>1, <1>5
<1>7. misses \in 0 .. MaxMisses /\ again \in 0 .. MaxAgain
  BY <1>1, RollbackAssumption
<1>. QED BY <1>1, <1>6, <1>7 DEF IInv

\* What a poll of peer p may do: its record goes through the admission, and a frame may
\* run after it.
LEMMA PollCases ==
  ASSUME NEW p \in Peers, NEW k, NEW c \in Choice, Poll(p, k, c)
  PROVE  \E wrong \in BOOLEAN :
           \E n \in {Admitted(p, k, c), Frame(Admitted(p, k, c), wrong)} :
             /\ Step(p, n, {})
             /\ n # Admitted(p, k, c) => MayRun(Admitted(p, k, c))
             /\ wrong => ~HasRow(Admitted(p, k, c))
             /\ \/ misses' = misses
                \/ misses < MaxMisses /\ misses' = misses + 1
             /\ \/ again' = again
                \/ again < MaxAgain /\ again' = again + 1
<1> DEFINE r == Admitted(p, k, c)
<1>1. \/ again' = again
      \/ again < MaxAgain /\ again' = again + 1
  BY DEF Poll, MayChoose
<1>2. \/ Step(p, Ran(r), {}) /\ misses' = misses
      \/ /\ MayRun(r) /\ ~HasRow(r) /\ misses < MaxMisses
         /\ Step(p, Frame(r, TRUE), {}) /\ misses' = misses + 1
  BY DEF Poll
<1> HIDE DEF r
<1>3. CASE Step(p, Ran(r), {}) /\ misses' = misses
  <2>1. Ran(r) \in {r, Frame(r, FALSE)} /\ (Ran(r) # r => MayRun(r))
    BY DEF Ran
  <2>. QED BY <1>1, <1>3, <2>1 DEF r
<1>4. CASE /\ MayRun(r) /\ ~HasRow(r) /\ misses < MaxMisses
           /\ Step(p, Frame(r, TRUE), {}) /\ misses' = misses + 1
  BY <1>1, <1>4 DEF r
<1>. QED BY <1>2, <1>3, <1>4

\* Every step of the system keeps the invariant.
LEMMA NextIInv == IInv /\ [Next]_vars => IInv'
<1> SUFFICES ASSUME IInv, [Next]_vars PROVE IInv'
  OBVIOUS
<1>1. CASE UNCHANGED vars
  BY <1>1 DEF vars, IInv
<1>2. ASSUME NEW e \in net, NEW w \in BOOLEAN, Take(e, w) PROVE IInv'
  <2>1. e.to \in Peers /\ e.msg \in Message
    BY DEF IInv, Envelope
  <2>2. Sound(st[e.to]) /\ st[e.to].slot = e.to
    BY <2>1 DEF IInv
  <2> DEFINE r == Handled(e.to, st[e.to], e.msg, w)
  <2>3. Sound(r) /\ r.slot = e.to
    BY <2>1, <2>2, HandledSound
  <2>4. Step(e.to, r, {e}) /\ misses' = misses /\ again' = again
    BY <1>2 DEF Take
  <2> HIDE DEF r
  <2>5. /\ st' \in [Peers -> Peer] /\ \A q \in Peers : st'[q].slot = q /\ Sound(st'[q])
        /\ net' \subseteq Envelope
    BY <2>1, <2>3, <2>4, StepSound
  <2>. QED BY <2>4, <2>5 DEF IInv
<1>3. ASSUME NEW p \in Peers, NEW k \in Arrived(p), NEW c \in Choice, Poll(p, k, c)
      PROVE  IInv'
  <2> DEFINE r == Admitted(p, k, c)
  <2>1. Sound(r) /\ r.slot = p
    <3>1. k \in Tick /\ Sound(st[p]) /\ st[p].slot = p
      BY DEF Arrived, IInv
    <3>. QED BY <3>1, AdmittedSound
  <2>2. PICK wrong \in BOOLEAN :
          \E n \in {r, Frame(r, wrong)} :
             /\ Step(p, n, {})
             /\ n # r => MayRun(r)
             /\ wrong => ~HasRow(r)
             /\ \/ misses' = misses
                \/ misses < MaxMisses /\ misses' = misses + 1
             /\ \/ again' = again
                \/ again < MaxAgain /\ again' = again + 1
    BY <1>3, PollCases
  <2>3. PICK n \in {r, Frame(r, wrong)} :
             /\ Step(p, n, {})
             /\ n # r => MayRun(r)
             /\ wrong => ~HasRow(r)
             /\ \/ misses' = misses
                \/ misses < MaxMisses /\ misses' = misses + 1
             /\ \/ again' = again
                \/ again < MaxAgain /\ again' = again + 1
    BY <2>2
  <2> HIDE DEF r
  <2>4. Sound(n) /\ n.slot = p
    <3>1. CASE n = r
      BY <2>1, <3>1
    <3>2. CASE n # r
      <4>1. n = Frame(r, wrong) /\ MayRun(r)
        BY <2>3, <3>2
      <4>. QED BY <2>1, <2>3, <4>1, RanSound
    <3>. QED BY <3>1, <3>2
  <2>5. /\ st' \in [Peers -> Peer] /\ \A q \in Peers : st'[q].slot = q /\ Sound(st'[q])
        /\ net' \subseteq Envelope
    BY <2>3, <2>4, StepSound
  <2>6. misses' \in 0 .. MaxMisses /\ again' \in 0 .. MaxAgain
    BY <2>3, RollbackAssumption DEF IInv
  <2>. QED BY <2>5, <2>6 DEF IInv
<1>. QED BY <1>1, <1>2, <1>3 DEF Next

\* Rollback.Spec keeps the inductive invariant.
LEMMA Invariance == Spec => []IInv
BY InitIInv, NextIInv, PTL DEF Spec

---------------------------------------------------------------------------
(* The theorems.                                                           *)

\* The fields of g_rb and of its episode are what they are declared to be.
THEOREM Typed == Spec => []TypeOK
<1>1. IInv => TypeOK
  <2> SUFFICES ASSUME IInv PROVE TypeOK
    OBVIOUS
  <2>1. ASSUME NEW p \in Peers
        PROVE  LET r == st[p]
               IN  /\ r.slot = p /\ r.stage \in {"idle", "sealing", "verifying", "tiphold"}
                   /\ r.sim \in 1 .. MaxTick /\ r.known \in Tick
                   /\ r.published \in 0 .. MaxTick
                   /\ r.missed \subseteq r.guessed /\ r.guessed \subseteq Tick
                   /\ r.resampled \subseteq Int /\ r.odd \cup r.sealed \subseteq Peers \X Tick
                   /\ r.rows \subseteq Span(r)
                   /\ r.mach \in Machine /\ Cardinality(DOMAIN r.snaps) \in 1 .. Depth
                   /\ {r.base, r.peerBase} \subseteq Machine \cup {None}
                   /\ r.extends <= MaxExtends
                   /\ (r.stage = "idle") = (r.epoch = NoEpoch)
                   /\ r.stage = "idle" => r.rows = {} /\ r.base = None
                                          /\ r.peerPost = None
    <3> DEFINE r == st[p]
    <3>1. r \in Peer /\ Episode(r) /\ Ring(r) /\ r.slot = p
      BY DEF IInv, Sound, Shape, Run
    <3> HIDE DEF r
    <3>2. Cardinality(DOMAIN r.snaps) \in 1 .. Depth
      <4>1. DOMAIN r.snaps \subseteq Tick
        BY <3>1, SnapsProperties, PeerFields
      <4>2. IsFiniteSet(DOMAIN r.snaps)
        BY <4>1, TickFinite, FS_Subset
      <4>3. Cardinality(DOMAIN r.snaps) \in Nat /\ Cardinality(DOMAIN r.snaps) # 0
        BY <3>1, <4>2, FS_CardinalityType, FS_EmptySet DEF Ring
      <4>. QED BY <3>1, <4>3, RollbackAssumption DEF Ring
    <3>3. /\ r.stage \in {"idle", "sealing", "verifying", "tiphold"}
          /\ r.sim \in 1 .. MaxTick /\ r.known \in Tick
          /\ r.published \in 0 .. MaxTick /\ r.guessed \subseteq Tick
          /\ r.resampled \subseteq Int /\ r.odd \cup r.sealed \subseteq Peers \X Tick
          /\ r.mach \in Machine
          /\ r.base \in Machine \cup {None} /\ r.peerBase \in Machine \cup {None}
      BY <3>1, PeerFields DEF Stages
    <3>4. r.extends <= MaxExtends
      BY <3>1, PeerFields, RollbackAssumption
    <3>5. /\ r.missed \subseteq r.guessed /\ r.rows \subseteq Span(r)
          /\ (r.stage = "idle") = (r.epoch = NoEpoch)
          /\ r.stage = "idle" => r.rows = {} /\ r.base = None /\ r.peerPost = None
      BY <3>1 DEF Episode
    <3>. QED BY <3>1, <3>2, <3>3, <3>4, <3>5 DEF r
  <2>2. \A e \in net : e.to \in Peers
    BY DEF IInv, Envelope
  <2>3. misses \in 0 .. MaxMisses /\ again \in 0 .. MaxAgain
    BY DEF IInv
  <2>. QED BY <2>1, <2>2, <2>3 DEF TypeOK
<1>. QED BY <1>1, Invariance, PTL

\* rb_commit_episode() and every load and replay after it: what is committed was run
\* with the rows that were really sent, in the machine and in every snapshot of it.
THEOREM CommittedStaysExact == Spec => []CommittedExact
<1>1. IInv => CommittedExact
  <2> SUFFICES ASSUME IInv, NEW p \in Peers, ~st[p].forkSeen
               PROVE  /\ st[p].committed < st[p].sim
                      /\ WrongRan(st[p]) \cap 0 .. st[p].committed = {}
    BY DEF CommittedExact
  <2> DEFINE r == st[p]
  <2>1. r \in Peer /\ Ring(r) /\ OneRun(r) /\ Exact(r) /\ ~r.forkSeen
    BY DEF IInv, Sound, Shape, Run
  <2> HIDE DEF r
  <2>2. /\ r.mach.skipped = {} /\ r.committed < r.sim /\ r.mach \in Machine
        /\ r.mach.wrong \cap 0 .. r.committed = {}
    BY <2>1, PeerFields DEF Exact
  <2>3. \A s \in DOMAIN r.snaps : r.snaps[s].wrong \subseteq r.mach.wrong
    <3> SUFFICES ASSUME NEW s \in DOMAIN r.snaps
                 PROVE  r.snaps[s].wrong \subseteq r.mach.wrong
      OBVIOUS
    <3>1. r.snaps[s] = AsOf(r.mach, s)
      BY <2>1, <2>2 DEF OneRun, OfRun
    <3>. QED BY <2>2, <3>1, AsOfMachine
  <2>4. WrongRan(r) \subseteq r.mach.wrong
    BY <2>3 DEF WrongRan, Stored
  <2>. QED BY <2>2, <2>4 DEF r
<1>. QED BY <1>1, Invariance, PTL

\* rb_run_replay() and rbe_snap_ring_save(): a snapshot is the machine as it was before
\* its tick. Only a base fork leaves others, and those are of ticks that the machine has
\* never run, nor the tick before.
THEOREM SnapshotsStayCurrent == Spec => []SnapshotsCurrent
<1>1. IInv => SnapshotsCurrent
  <2> SUFFICES ASSUME IInv, NEW p \in Peers, NEW t \in DOMAIN st[p].snaps
               PROVE  /\ t < st[p].sim
                      /\ \/ st[p].snaps[t] = AsOf(st[p].mach, t)
                         \/ {t - 1, t} \subseteq st[p].mach.skipped
    BY DEF SnapshotsCurrent
  <2>1. Ring(st[p]) /\ OneRun(st[p])
    BY DEF IInv, Sound, Run
  <2>. QED BY <2>1 DEF Ring, OneRun, OfRun
<1>. QED BY <1>1, Invariance, PTL
---------------------------------------------------------------------------
(* The two peers. What a peer has answered for a tip stays true of it for  *)
(* as long as it is in the episode, and the messages bear their senders    *)
(* out.                                                                    *)

\* Peer o is past tip T, and as far as T its machine, and the one it would have if the
\* span ran again, are what the digest d was taken of. The rows of either are sealed as
\* far as T.
Answer(o, T, d) ==
  /\ T <= o.target /\ T < o.sim
  /\ o.load .. T \subseteq o.rows
  /\ UpTo(o.mach, T) = UpTo(d, T)
  /\ o.load \in DOMAIN o.snaps => UpTo(Reran(o, o.snaps[o.load]), T) = UpTo(d, T)

\* An episode bears the number its owner counted to.
Numbered(e) == e[2] <= st[e[1]].seq

\* A BEGIN on the link calls the other peer to an episode that it has not entered, has
\* not answered in, and is called to once.
BeginOnLink(e) ==
  LET q == e.msg.epoch[1]
  IN  /\ e.to = Other(q) /\ st[e.to].epoch # e.msg.epoch
      /\ st[q].epoch = e.msg.epoch => st[q].peerPost = None
      /\ \A f \in net : f.msg.epoch = e.msg.epoch =>
           /\ f.msg.op = "begin" => f = e
           /\ f.msg.op = "post" => f.to = e.to

\* The sender of a POST on the link stands by it while it is in the episode.
PostOnLink(f) ==
  /\ f.msg.epoch # NoEpoch
  /\ st[Other(f.to)].epoch = f.msg.epoch
     => Answer(st[Other(f.to)], f.msg.target, f.msg.digest)

\* So does the sender of the POST a peer has taken.
PostTaken(p) ==
  st[p].peerPost # None /\ st[Other(p)].epoch = st[p].epoch
  => Answer(st[Other(p)], st[p].peerPost.target, st[p].peerPost.digest)

Link ==
  /\ \A p \in Peers : st[p].out = {} /\ Numbered(st[p].epoch) /\ PostTaken(p)
  /\ \A e \in net : /\ Numbered(e.msg.epoch)
                    /\ e.msg.op = "begin" => BeginOnLink(e)
                    /\ e.msg.op = "post" => PostOnLink(e)

\* What r has answered c stands by.
StandsBy(r, c) ==
  \A T \in Tick, d \in Machine : Answer(r, T, d) => Answer(c, T, d)

\* The rows that are there stay, sealed as they were.
Kept(r, c) ==
  /\ r.rows \subseteq c.rows
  /\ \A x \in Peers \X Tick :
       x[2] \in r.rows \/ x[2] < r.load => (x \in c.sealed <=> x \in r.sealed)

\* An episode that peer p has opened on its way from record b to c.
OpenedSince(p, b, c, f) ==
  f \in Called /\ f[1] = p /\ b.seq < f[2] /\ f[2] <= c.seq

\* Peer p still in the episode of b: it has taken the POST m if any.
StillIn(b, m, c) ==
  /\ \/ c.peerPost \in {b.peerPost, None}
     \/ m.op = "post" /\ m.epoch = b.epoch
        /\ c.peerPost = [target |-> m.target, digest |-> m.digest]
  /\ StandsBy(b, c)

\* What peer p may have sent on its way from b to c.
SentSince(p, b, m, c) ==
  \A x \in c.out :
    /\ x.epoch \in {b.epoch, NoEpoch, m.epoch} \/ OpenedSince(p, b, c, x.epoch)
    /\ x.op = "begin" => /\ OpenedSince(p, b, c, x.epoch)
                         /\ \A y \in c.out : y.op = "begin" /\ y.epoch = x.epoch => y = x
    /\ x.op = "post" => /\ x.epoch # NoEpoch
                        /\ x.epoch = b.epoch \/ OpenedSince(p, b, c, x.epoch)
                        /\ x.epoch = c.epoch => Answer(c, x.target, x.digest)

\* Record c is one that peer p may have come to from b in one step, with message m.
Since(p, b, m, c) ==
  /\ b.seq <= c.seq
  /\ b.epoch[1] = p => b.epoch[2] <= b.seq
  /\ \/ c.epoch \in {b.epoch, NoEpoch} \/ OpenedSince(p, b, c, c.epoch)
     \/ m.op = "begin" /\ c.epoch = m.epoch
  /\ c.epoch = b.epoch /\ c.epoch # NoEpoch => StillIn(b, m, c)
  /\ c.epoch # b.epoch => c.peerPost = None
  /\ SentSince(p, b, m, c)

\* What is sent beside BEGIN and POST, of the episode at hand or of the message taken.
Aside(X, r, m) ==
  \A x \in X : x.op \notin {"begin", "post"} /\ x.epoch \in {r.epoch, m.epoch, NoEpoch}

\* A step that takes no message.
NoMessage == [op |-> "none", epoch |-> NoEpoch]

\* A peer is where it was.
LEMMA SinceItself ==
  ASSUME NEW p, NEW b \in Peer, b.out = {}, NEW m, b.epoch[1] = p => b.epoch[2] <= b.seq
  PROVE  Since(p, b, m, b)
<1>1. b.seq \in Nat
  BY PeerFields
<1>. QED BY <1>1 DEF Since, StillIn, StandsBy, SentSince

\* A span that would run again from the same snapshot runs the same as far as the
\* rows are there.
LEMMA ReranAgain ==
  ASSUME NEW r \in Peer, NEW c, r.sealed \in SUBSET (Peers \X Tick),
         c.sealed \in SUBSET (Peers \X Tick), Kept(r, c), NEW T \in Tick,
         r.load .. T \subseteq r.rows, NEW k \in Machine
  PROVE  UpTo(Reran(c, k), T) = UpTo(Reran(r, k), T)
<1> DEFINE a == Reran(c, k)
           b == Reran(r, k)
<1>1. /\ a \in Machine /\ a.wrong = k.wrong /\ a.skipped = k.skipped
      /\ a.odd = k.odd \cup c.sealed
  BY DEF Reran, Machine
<1>2. /\ b \in Machine /\ b.wrong = k.wrong /\ b.skipped = k.skipped
      /\ b.odd = k.odd \cup r.sealed
  BY DEF Reran, Machine
<1>3. T \in Nat /\ r.load \in Nat
  BY PeerFields, TickFinite
<1>4. ASSUME NEW x \in Peers \X Tick, x[2] < T + 1
      PROVE  x \in c.sealed <=> x \in r.sealed
  <2>1. x[2] \in Nat
    BY RowTick
  <2>2. x[2] \in r.load .. T \/ x[2] < r.load
    BY <1>3, <1>4, <2>1
  <2>. QED BY <2>2 DEF Kept
<1> HIDE DEF a, b
<1>5. \A x \in Peers \X Tick : x[2] < T + 1 => (x \in a.odd <=> x \in b.odd)
  BY <1>1, <1>2, <1>4
<1>6. T + 1 \in Nat
  BY <1>3
<1>7. AsOf(a, T + 1) = AsOf(b, T + 1)
  BY <1>1, <1>2, <1>5, <1>6, AsOfSame
<1>. QED BY <1>7 DEF UpTo, a, b

\* Neither the machine nor the snapshots change: what was answered is stood by.
LEMMA StandsBySame ==
  ASSUME NEW r \in Peer, NEW c \in Peer, c.sim = r.sim, c.mach = r.mach, c.snaps = r.snaps,
         c.load = r.load, r.target <= c.target, Kept(r, c)
  PROVE  StandsBy(r, c)
<1> SUFFICES ASSUME NEW T \in Tick, NEW d \in Machine, Answer(r, T, d)
             PROVE  Answer(c, T, d)
  BY DEF StandsBy
<1>1. T \in Nat /\ r.target \in Nat /\ c.target \in Nat
  BY PeerFields, TickFinite
<1>2. T <= c.target
  BY <1>1 DEF Answer
<1>3. c.load .. T \subseteq c.rows /\ r.load .. T \subseteq r.rows
  BY DEF Answer, Kept
<1>4. ASSUME r.load \in DOMAIN r.snaps
      PROVE  UpTo(Reran(c, r.snaps[r.load]), T) = UpTo(Reran(r, r.snaps[r.load]), T)
  <2>1. r.snaps[r.load] \in Machine
    BY <1>4, PeerFields, SnapsProperties
  <2>. QED BY <1>3, <2>1, ReranAgain, PeerFields
<1>. QED BY <1>2, <1>3, <1>4 DEF Answer

\* A stretch of the way that stays in the episode and sends neither BEGIN nor POST.
LEMMA SinceKept ==
  ASSUME NEW p, NEW b \in Peer, NEW m, NEW r \in Peer, Since(p, b, m, r), NEW c, NEW X,
         c.seq = r.seq, c.epoch = r.epoch, c.peerPost \in {r.peerPost, None},
         c.epoch # NoEpoch => StandsBy(r, c), c.out = r.out \cup X, Aside(X, r, m)
  PROVE  Since(p, b, m, c)
<1>1. \A f : OpenedSince(p, b, c, f) <=> OpenedSince(p, b, r, f)
  BY DEF OpenedSince
<1>2. ASSUME c.epoch = b.epoch, c.epoch # NoEpoch PROVE StillIn(b, m, c)
  <2>1. StillIn(b, m, r)
    BY <1>2 DEF Since
  <2>2. StandsBy(b, c)
    BY <1>2, <2>1 DEF StillIn, StandsBy
  <2>. QED BY <2>1, <2>2 DEF StillIn
<1>3. c.epoch # b.epoch => c.peerPost = None
  BY DEF Since
<1>4. \A x \in X : x.epoch \in {b.epoch, NoEpoch, m.epoch} \/ OpenedSince(p, b, c, x.epoch)
                   \/ (m.op = "begin" /\ r.epoch = m.epoch /\ x.epoch = m.epoch)
  BY <1>1 DEF Since, Aside
<1>5. ASSUME NEW x \in r.out, x.op = "post", x.epoch = c.epoch
      PROVE  Answer(c, x.target, x.digest)
  <2>1. x.target \in Tick /\ x.digest \in Machine
    BY <1>5, MessageFields, PeerFields
  <2>2. Answer(r, x.target, x.digest) /\ x.epoch # NoEpoch
    BY <1>5 DEF Since, SentSince
  <2>. QED BY <1>5, <2>1, <2>2 DEF StandsBy
<1>6. SentSince(p, b, m, c)
  BY <1>1, <1>4, <1>5 DEF SentSince, Since, Aside
<1>. QED BY <1>1, <1>2, <1>3, <1>6 DEF Since

\* A stretch of the way that leaves the episode, or opens none: a peer without one
\* stands by nothing.
LEMMA SinceLeft ==
  ASSUME NEW p, NEW b \in Peer, NEW m, NEW r \in Peer, Since(p, b, m, r), NEW c, NEW X,
         c.seq \in Nat, r.seq <= c.seq, c.epoch = NoEpoch, c.peerPost = None,
         c.out = r.out \cup X, Aside(X, r, m)
  PROVE  Since(p, b, m, c)
<1>1. b.seq <= c.seq /\ \A f : OpenedSince(p, b, r, f) => OpenedSince(p, b, c, f)
  <2>1. b.seq \in Nat /\ r.seq \in Nat /\ b.seq <= r.seq
    BY PeerFields DEF Since
  <2>2. \A f \in Called : f[2] \in Nat
    BY DEF Called, Epoch
  <2>. QED BY <2>1, <2>2 DEF OpenedSince
<1>2. \A x \in X : x.epoch \in {b.epoch, NoEpoch, m.epoch} \/ OpenedSince(p, b, c, x.epoch)
  BY <1>1 DEF Since, Aside
<1>3. SentSince(p, b, m, c)
  BY <1>1, <1>2 DEF SentSince, Since, Aside
<1>. QED BY <1>1, <1>3 DEF Since

\* A stretch of the way that opens the next episode: no message bore its number.
LEMMA SinceOpened ==
  ASSUME NEW p \in Peers, NEW b \in Peer, NEW m, NEW r \in Peer, Since(p, b, m, r),
         NEW c, NEW x, NEW y,
         c.seq = r.seq + 1, c.epoch = <<p, r.seq + 1>>, c.peerPost = None,
         c.out = r.out \cup {x, y}, x.op = "begin", y.op = "rows",
         x.epoch = c.epoch, y.epoch = c.epoch
  PROVE  Since(p, b, m, c)
<1>1. /\ b.seq \in Nat /\ r.seq \in Nat /\ b.seq <= r.seq /\ b.epoch \in Epoch
      /\ b.epoch[1] = p => b.epoch[2] <= b.seq
  BY PeerFields DEF Since
<1>2. c.epoch \in Called /\ c.epoch[1] = p /\ c.epoch[2] = r.seq + 1
  BY <1>1 DEF Called, Epoch, NoEpoch
<1>3. OpenedSince(p, b, c, c.epoch)
  BY <1>1, <1>2 DEF OpenedSince
<1>4. \A f : OpenedSince(p, b, r, f) => OpenedSince(p, b, c, f) /\ f # c.epoch
  <2> SUFFICES ASSUME NEW f, OpenedSince(p, b, r, f)
               PROVE  OpenedSince(p, b, c, f) /\ f # c.epoch
    OBVIOUS
  <2>1. f[2] \in Nat /\ f[2] <= r.seq
    BY DEF OpenedSince, Called, Epoch
  <2>. QED BY <1>1, <1>2, <2>1 DEF OpenedSince
<1>5. b.epoch # c.epoch /\ c.epoch # NoEpoch
  <2>1. b.epoch[2] \in Nat
    BY <1>1 DEF Epoch
  <2>. QED BY <1>1, <1>2, <2>1 DEF Called
<1>6. \A z \in r.out : /\ z.op = "begin" => z.epoch # c.epoch
                       /\ z.op = "post" => z.epoch # c.epoch
  BY <1>4, <1>5 DEF Since, SentSince
<1>7. SentSince(p, b, m, c)
  BY <1>3, <1>4, <1>6 DEF SentSince, Since
<1>. QED BY <1>1, <1>3, <1>5, <1>7 DEF Since

\* A stretch of the way that answers for a tip.
LEMMA SincePosted ==
  ASSUME NEW p, NEW b \in Peer, NEW m, m.op # "begin", NEW r \in Peer, Since(p, b, m, r),
         NEW c, NEW X, NEW x, c.seq = r.seq, c.epoch = r.epoch, c.epoch # NoEpoch,
         c.peerPost \in {r.peerPost, None}, StandsBy(r, c),
         c.out = r.out \cup X \cup {x}, Aside(X, r, m),
         x.op = "post", x.epoch = c.epoch, Answer(c, x.target, x.digest)
  PROVE  Since(p, b, m, c)
<1>1. \A f : OpenedSince(p, b, c, f) <=> OpenedSince(p, b, r, f)
  BY DEF OpenedSince
<1>2. ASSUME c.epoch = b.epoch PROVE StillIn(b, m, c)
  <2>1. StillIn(b, m, r)
    BY <1>2 DEF Since
  <2>2. StandsBy(b, c)
    BY <2>1 DEF StillIn, StandsBy
  <2>. QED BY <2>1, <2>2 DEF StillIn
<1>3. c.epoch # b.epoch => c.peerPost = None
  BY DEF Since
<1>4. /\ x.epoch = b.epoch \/ OpenedSince(p, b, c, x.epoch)
      /\ \A y \in X : y.epoch \in {b.epoch, NoEpoch, m.epoch} \/ OpenedSince(p, b, c, y.epoch)
  BY <1>1 DEF Since, Aside
<1>5. ASSUME NEW y \in r.out, y.op = "post", y.epoch = c.epoch
      PROVE  Answer(c, y.target, y.digest)
  <2>1. y.target \in Tick /\ y.digest \in Machine
    BY <1>5, MessageFields, PeerFields
  <2>2. Answer(r, y.target, y.digest)
    BY <1>5 DEF Since, SentSince
  <2>. QED BY <2>1, <2>2 DEF StandsBy
<1>6. SentSince(p, b, m, c)
  BY <1>1, <1>4, <1>5 DEF SentSince, Since, Aside
<1>. QED BY <1>1, <1>2, <1>3, <1>6 DEF Since

\* An update of neither the run nor the episode, nothing opened.
LEMMA SinceSame ==
  ASSUME NEW p, NEW b \in Peer, NEW m, NEW r \in Peer, Since(p, b, m, r), NEW c \in Peer,
         NEW X, SameRun(r, c), SameEpisode(r, c), c.seq = r.seq, c.out = r.out \cup X,
         Aside(X, r, m)
  PROVE  Since(p, b, m, c)
<1>1. r.target <= c.target
  <2>1. r.target \in Nat
    BY PeerFields, TickFinite
  <2>. QED BY <2>1 DEF SameEpisode
<1>2. StandsBy(r, c)
  BY <1>1, StandsBySame DEF SameRun, SameEpisode, Kept
<1>. QED BY <1>2, SinceKept DEF SameEpisode

\* What sending a message changes.
LEMMA SendFields ==
  ASSUME NEW r \in Peer, NEW m
  PROVE  /\ Send(r, m).seq = r.seq /\ Send(r, m).epoch = r.epoch
         /\ Send(r, m).peerPost = r.peerPost /\ Send(r, m).out = r.out \cup {m}
BY DEF Send, Peer

\* A message of the episode at hand, or of the one taken, beside BEGIN and POST.
LEMMA SentAside ==
  ASSUME NEW p, NEW b \in Peer, NEW m, NEW r, Sound(r), Since(p, b, m, r),
         NEW x \in Message, x.op \notin {"begin", "post"}, x.epoch \in {r.epoch, m.epoch}
  PROVE  Since(p, b, m, Send(r, x))
<1> DEFINE c == Send(r, x)
           X == {x}
<1>1. r \in Peer /\ c \in Peer /\ SameRun(r, c) /\ SameEpisode(r, c)
  BY SendShape DEF Sound, Shape
<1>2. c.seq = r.seq /\ c.out = r.out \cup X
  BY <1>1, SendFields
<1>3. Aside(X, r, m)
  BY DEF Aside
<1> HIDE DEF c, X
<1>4. Since(p, b, m, c)
  BY <1>1, <1>2, <1>3, SinceSame
<1>. QED BY <1>4 DEF c

\* rb_episode_clear() and rb_episode_abort() leave the episode.
LEMMA LeavingSince ==
  ASSUME NEW p, NEW b \in Peer, NEW m, NEW r \in Peer, Since(p, b, m, r), NEW class
  PROVE  Since(p, b, m, Clear(r)) /\ Since(p, b, m, Abort(r, class))
<1> DEFINE c == Clear(r)
           a == Abort(r, class)
           N == {}
           X == {[op |-> "abort", epoch |-> r.epoch, class |-> class]}
<1>1. /\ c.seq = r.seq /\ c.epoch = NoEpoch /\ c.peerPost = None /\ c.out = r.out \cup N
  BY DEF Clear, Peer
<1>2. /\ a.seq = r.seq /\ a.epoch = NoEpoch /\ a.peerPost = None /\ a.out = r.out \cup X
  BY DEF Abort, Send, Clear, Peer
<1>3. Aside(N, r, m) /\ Aside(X, r, m)
  BY DEF Aside
<1>4. r.seq \in Nat /\ r.seq <= r.seq
  BY PeerFields
<1> HIDE DEF c, a, N, X
<1>5. Since(p, b, m, c)
  BY <1>1, <1>3, <1>4, SinceLeft
<1>6. Since(p, b, m, a)
  BY <1>2, <1>3, <1>4, SinceLeft
<1>. QED BY <1>5, <1>6 DEF c, a

\* rb_send_local_seal_rows().
LEMMA SendRowsSince ==
  ASSUME NEW p, NEW b \in Peer, NEW m, NEW r, Sound(r), Since(p, b, m, r)
  PROVE  Since(p, b, m, SendRows(r))
<1> DEFINE x == [op |-> "rows", epoch |-> r.epoch, load |-> r.load, target |-> r.target,
                 odd |-> {t \in Span(r) : <<r.slot, t>> \in r.sealed}]
<1>1. x \in Message
  BY RowsMessage DEF Sound, Shape
<1>2. x.op \notin {"begin", "post"} /\ x.epoch \in {r.epoch, m.epoch}
  OBVIOUS
<1> HIDE DEF x
<1>3. Since(p, b, m, Send(r, x))
  BY <1>1, <1>2, SentAside
<1>. QED BY <1>3 DEF SendRows, x

\* Rows read where they were published.
LEMMA RowsReadSince ==
  ASSUME NEW p, NEW b \in Peer, NEW m, NEW r, Sound(r), Since(p, b, m, r),
         NEW target \in Tick
  PROVE  Since(p, b, m, RowsRead(r, target)) /\ RowsRead(r, target).out = r.out
         /\ RowsRead(r, target).seq = r.seq
<1> DEFINE c == RowsRead(r, target)
           N == {}
           last == Min({target, r.published})
<1>1. r \in Peer /\ c \in Peer /\ SameRun(r, c) /\ SameEpisode(r, c)
  BY RowsReadSound DEF Sound, Shape
<1>2. c.seq = r.seq /\ c.out = r.out
  <2>1. c = [r EXCEPT !.odd = @ \cup {r.slot} \X (r.resampled \cap r.held + 1 .. last),
                      !.held = Max({@, last})]
    BY DEF RowsRead
  <2> HIDE DEF c, last
  <2>. QED BY <1>1, <2>1 DEF Peer
<1>3. c.out = r.out \cup N /\ Aside(N, r, m)
  BY <1>2 DEF Aside
<1> HIDE DEF c, N
<1>4. Since(p, b, m, c)
  BY <1>1, <1>2, <1>3, SinceSame
<1>. QED BY <1>2, <1>4 DEF c

\* A refusal bears the number of the call.
LEMMA NackSince ==
  ASSUME NEW p, NEW b \in Peer, NEW m, m.epoch \in Epoch, NEW r, Sound(r), Since(p, b, m, r)
  PROVE  Since(p, b, m, Nack(r, m))
<1> DEFINE x == [op |-> "nack", epoch |-> m.epoch]
<1>1. x \in Message
  BY DEF Message
<1>2. x.op \notin {"begin", "post"} /\ x.epoch \in {r.epoch, m.epoch}
  OBVIOUS
<1> HIDE DEF x
<1>3. Since(p, b, m, Send(r, x))
  BY <1>1, <1>2, SentAside
<1>. QED BY <1>3 DEF Nack, x

\* rb_begin_episode() opens the next episode, or none.
LEMMA BeginAsInitiatorSince ==
  ASSUME NEW p \in Peers, NEW b \in Peer, NEW m, NEW r, Sound(r), Since(p, b, m, r),
         r.stage = "idle", NEW t \in Tick, NEW willing \in BOOLEAN
  PROVE  Since(p, b, m, BeginAsInitiator(p, r, t, willing))
<1> DEFINE c == CapLifted(r)
           loads == LoadTicks(c, t)
           e == <<p, r.seq + 1>>
           target == Max({r.sim - 1, t})
           load == Max(loads)
           R == {u \in load .. target \ {t} : Confirmed(c, u)}
           a == BeginAsInitiator(p, r, t, willing)
           N == {}
<1>1. r \in Peer /\ Sound(c) /\ c \in Peer /\ SameRun(r, c) /\ SameEpisode(r, c)
      /\ c.seq = r.seq /\ r.seq \in Nat
  BY CapLiftedSound, PeerFields DEF Sound, Shape
<1>2. c.out = r.out /\ c.out = r.out \cup N
  BY <1>1 DEF CapLifted, Peer
<1>3. r.epoch = NoEpoch /\ r.peerPost = None /\ c.epoch = NoEpoch /\ c.peerPost = None
  <2>1. r.epoch = NoEpoch /\ r.peerPost = None
    BY DEF Sound, Shape, Episode
  <2> HIDE DEF c
  <2>. QED BY <1>1, <2>1 DEF SameEpisode
<1>4. Aside(N, r, m)
  BY DEF Aside
<1> HIDE DEF c, loads, N
<1>5. Since(p, b, m, c)
  BY <1>1, <1>2, <1>4, SinceSame
<1>6. CASE r.sim < r.cooldown
  BY <1>6 DEF BeginAsInitiator
<1>7. CASE ~(r.sim < r.cooldown) /\ loads = {}
  BY <1>5, <1>7 DEF BeginAsInitiator, c, loads
<1>8. CASE ~(r.sim < r.cooldown) /\ loads # {} /\ ~willing
  <2>1. a = [c EXCEPT !.seq = c.seq + 1]
    BY <1>1, <1>8 DEF BeginAsInitiator, c, loads, Peer
  <2>2. a.seq = r.seq + 1 /\ a.epoch = NoEpoch /\ a.peerPost = None
        /\ a.out = r.out \cup N
    <3> HIDE DEF a
    <3>. QED BY <1>1, <1>2, <1>3, <2>1 DEF Peer
  <2>3. a.seq \in Nat /\ r.seq <= a.seq
    BY <1>1, <2>2
  <2> HIDE DEF a
  <2>4. Since(p, b, m, a)
    BY <1>1, <1>4, <2>2, <2>3, SinceLeft
  <2>. QED BY <2>4 DEF a
<1>9. CASE ~(r.sim < r.cooldown) /\ loads # {} /\ willing
  <2> DEFINE o == Opened(c, e, load, target, TRUE, R)
             q == [o EXCEPT !.seq = c.seq + 1]
             x == [op |-> "begin", epoch |-> e, load |-> load, target |-> target]
             s == Send(q, x)
             y == [op |-> "rows", epoch |-> s.epoch, load |-> s.load, target |-> s.target,
                   odd |-> {u \in Span(s) : <<s.slot, u>> \in s.sealed}]
             n == Send(s, y)
  <2>1. /\ load \in DOMAIN c.snaps /\ target \in Tick /\ load <= target /\ load \in Tick
    BY <1>1, <1>9, CallSpan DEF loads, SameRun
  <2>2. e \in Called
    BY <1>1 DEF Called, Epoch, NoEpoch
  <2>3. R \in SUBSET (load .. target)
    OBVIOUS
  <2>4. c.stage = "idle"
    BY <1>1 DEF SameEpisode
  <2> HIDE DEF load, target, R
  <2>5. o \in Peer /\ o.seq = c.seq /\ o.epoch = e /\ o.out = c.out
        /\ o.peerPost = c.peerPost /\ Sound(o)
    <3>1. o.seq = c.seq /\ o.epoch = e /\ o.out = c.out /\ o.peerPost = c.peerPost
      <4> HIDE DEF e
      <4>. QED BY <1>1 DEF Opened, Peer
    <3> HIDE DEF e
    <3>2. Sound(o)
      BY <1>1, <2>1, <2>2, <2>3, <2>4, OpenedSound
    <3>. QED BY <3>1, <3>2 DEF Sound, Shape
  <2>6. a = SendRows(s)
    <3>1. [o EXCEPT !.seq = @ + 1] = q
      <4> HIDE DEF o
      <4>. QED BY <2>5 DEF Peer
    <3>. QED BY <1>9, <3>1 DEF BeginAsInitiator, c, loads, load, target, e, R
  <2> HIDE DEF o, e
  <2>7. q \in Peer /\ q.seq = r.seq + 1 /\ q.epoch = e /\ q.out = r.out
        /\ q.peerPost = None
    <3>1. c.seq + 1 \in Nat
      BY <1>1
    <3>. QED BY <1>1, <1>2, <1>3, <2>5, <3>1 DEF Peer
  <2>8. x \in Message
    BY <2>1, <2>2 DEF Message, Begin
  <2>9. x.op = "begin" /\ x.epoch = e
    OBVIOUS
  <2> HIDE DEF q, x
  <2>10. s \in Peer /\ s.seq = r.seq + 1 /\ s.epoch = e /\ s.peerPost = None
         /\ s.out = r.out \cup {x}
    <3>1. s.seq = q.seq /\ s.epoch = q.epoch /\ s.peerPost = q.peerPost
          /\ s.out = q.out \cup {x}
      BY <2>7, SendFields
    <3>2. s \in Peer
      <4>1. q.out \cup {x} \in Sent
        BY <2>7, <2>8, PeerFields DEF Sent
      <4>2. s = [q EXCEPT !.out = q.out \cup {x}]
        BY <2>7 DEF Send, Peer
      <4> HIDE DEF s
      <4>. QED BY <2>7, <4>1, <4>2 DEF Peer
    <3>. QED BY <2>7, <3>1, <3>2
  <2> HIDE DEF s
  <2>11. y.op = "rows" /\ y.epoch = e
    BY <2>10
  <2>12. SendRows(s) = n
    BY DEF SendRows
  <2> HIDE DEF y
  <2>13. /\ n.seq = r.seq + 1 /\ n.epoch = e /\ n.peerPost = None
         /\ n.out = r.out \cup {x, y}
    <3>1. n.seq = s.seq /\ n.epoch = s.epoch /\ n.peerPost = s.peerPost
          /\ n.out = s.out \cup {y}
      BY <2>10, SendFields
    <3>. QED BY <2>10, <3>1
  <2> HIDE DEF n
  <2>14. n.epoch = <<p, r.seq + 1>>
    BY <2>13 DEF e
  <2>15. Since(p, b, m, n)
    BY <1>1, <2>9, <2>11, <2>13, <2>14, SinceOpened
  <2>. QED BY <2>6, <2>12, <2>15
<1>. QED BY <1>6, <1>7, <1>8, <1>9

\* rb_tip_extend() stays in the episode.
LEMMA ExtendedSince ==
  ASSUME NEW p, NEW b \in Peer, NEW m, NEW r, Sound(r), Since(p, b, m, r),
         NEW target \in Tick, MayExtend(r), r.target <= target
  PROVE  Since(p, b, m, Extended(r, target))
<1> DEFINE S == r.sealed \cup {x \in r.odd : x[1] = r.slot /\ x[2] \in r.target + 1 .. target}
           n == r.extends + 1
           c == [r EXCEPT !.stage = "sealing", !.target = target, !.extends = n,
                          !.sealed = S,
                          !.base = None, !.peerBase = None, !.peerPost = None]
           k == Extended(r, target)
           x == [op |-> "rows", epoch |-> c.epoch, load |-> c.load, target |-> c.target,
                 odd |-> {u \in Span(c) : <<c.slot, u>> \in c.sealed}]
           X == {x}
<1>1. r \in Peer /\ Episode(r) /\ r.load \in Nat /\ r.target \in Nat /\ target \in Nat
      /\ r.rows \subseteq r.load .. r.target /\ r.load <= r.target
  <2>1. r \in Peer /\ Episode(r)
    BY DEF Sound, Shape
  <2>. QED BY <2>1, PeerFields, TickFinite DEF Episode, Span
<1>2. k = Send(c, x)
  <2>1. c = [r EXCEPT !.stage = "sealing", !.target = target, !.extends = @ + 1,
                      !.sealed = @ \cup {z \in r.odd : /\ z[1] = r.slot
                                                       /\ z[2] \in r.target + 1 .. target},
                      !.base = None, !.peerBase = None, !.peerPost = None]
    BY <1>1 DEF Peer
  <2>. QED BY <2>1 DEF Extended, SendRows
<1>3. ASSUME NEW z \in Peers \X Tick, z[2] \in r.rows \/ z[2] < r.load
      PROVE  z \in S <=> z \in r.sealed
  <2>1. z[2] \in Nat
    BY RowTick
  <2>2. ~(z[2] \in r.target + 1 .. target)
    <3>1. z[2] <= r.target
      BY <1>1, <1>3, <2>1
    <3>. QED BY <1>1, <2>1, <3>1
  <2>. QED BY <2>2
<1> HIDE DEF S, n
<1>4. /\ c.seq = r.seq /\ c.epoch = r.epoch /\ c.peerPost = None /\ c.out = r.out
      /\ c.sim = r.sim /\ c.mach = r.mach /\ c.snaps = r.snaps /\ c.load = r.load
      /\ c.target = target /\ c.rows = r.rows /\ c.sealed = S
  BY <1>1 DEF Peer
<1>5. \A y : LET d == Send(c, y)
             IN  /\ d.seq = c.seq /\ d.epoch = c.epoch /\ d.peerPost = c.peerPost
                 /\ d.out = c.out \cup {y} /\ d.sim = c.sim /\ d.mach = c.mach
                 /\ d.snaps = c.snaps /\ d.load = c.load /\ d.target = c.target
                 /\ d.rows = c.rows /\ d.sealed = c.sealed
  BY <1>1 DEF Send, Peer
<1>6. x.op = "rows" /\ x.epoch = r.epoch
  <2> HIDE DEF c
  <2>. QED BY <1>4
<1> HIDE DEF c, x
<1>7. k \in Peer
  BY ExtendedSound DEF Sound, Shape
<1>8. /\ k.seq = r.seq /\ k.epoch = r.epoch /\ k.peerPost = None /\ k.out = r.out \cup {x}
      /\ k.sim = r.sim /\ k.mach = r.mach /\ k.snaps = r.snaps /\ k.load = r.load
      /\ k.target = target /\ k.rows = r.rows /\ k.sealed = S
  <2> HIDE DEF k
  <2>. QED BY <1>2, <1>4, <1>5
<1> HIDE DEF k
<1>9. Kept(r, k)
  BY <1>3, <1>8 DEF Kept
<1>10. StandsBy(r, k)
  BY <1>1, <1>7, <1>8, <1>9, StandsBySame
<1>11. Aside(X, r, m) /\ k.out = r.out \cup X
  BY <1>6, <1>8 DEF Aside
<1> HIDE DEF X
<1>12. Since(p, b, m, k)
  BY <1>1, <1>8, <1>10, <1>11, SinceKept
<1>. QED BY <1>12 DEF k

\* Whatever is done about a wrong row, it is done in the episode or opens the next.
LEMMA OnWrongRowSince ==
  ASSUME NEW p \in Peers, NEW b \in Peer, NEW m, NEW r, Sound(r), Since(p, b, m, r),
         NEW t \in Tick, NEW willing \in BOOLEAN
  PROVE  Since(p, b, m, OnWrongRow(p, r, t, willing))
<1> DEFINE target == Max({t, r.target})
           x == [op |-> "extend", epoch |-> r.epoch, target |-> target]
           s == Send(r, x)
<1>1. r \in Peer
  BY DEF Sound, Shape
<1>2. CASE r.stage = "idle"
  BY <1>2, BeginAsInitiatorSince DEF OnWrongRow
<1>3. CASE /\ r.stage # "idle"
           /\ t \notin Span(r) /\ r.stage = "tiphold" /\ CanExtend(r, target, willing)
  <2>1. target \in Tick /\ r.target <= target
    <3>1. t \in Nat /\ r.target \in Nat /\ r.target \in Tick
      BY <1>1, TickFinite, PeerFields
    <3>2. target = IF t >= r.target THEN t ELSE r.target
      BY <3>1, MaxOfTwo
    <3> HIDE DEF target
    <3>. QED BY <3>1, <3>2
  <2>2. OnWrongRow(p, r, t, willing) = Extended(s, target)
    BY <1>3 DEF OnWrongRow
  <2> HIDE DEF target
  <2>3. x \in Message /\ x.op \notin {"begin", "post"} /\ x.epoch \in {r.epoch, m.epoch}
    BY <1>1, <2>1, PeerFields DEF Message
  <2> HIDE DEF x
  <2>4. Sound(s) /\ s.stage = r.stage /\ s.extends = r.extends
        /\ s.load = r.load /\ s.snaps = r.snaps /\ s.target = r.target
    <3>1. s.stage = r.stage /\ s.extends = r.extends
          /\ s.load = r.load /\ s.snaps = r.snaps /\ s.target = r.target
      BY <1>1 DEF Send, Peer
    <3>. QED BY <2>3, <3>1, SendSound
  <2>5. MayExtend(s)
    BY <1>3, <2>4 DEF CanExtend, MayExtend
  <2>6. Since(p, b, m, s)
    BY <2>3, SentAside
  <2> HIDE DEF s
  <2>7. Since(p, b, m, Extended(s, target))
    BY <2>1, <2>4, <2>5, <2>6, ExtendedSince
  <2>. QED BY <2>2, <2>7
<1>4. CASE /\ r.stage # "idle"
           /\ ~(t \notin Span(r) /\ r.stage = "tiphold" /\ CanExtend(r, target, willing))
  <2>1. OnWrongRow(p, r, t, willing) = r
    BY <1>4 DEF OnWrongRow
  <2>. QED BY <2>1
<1>. QED BY <1>2, <1>3, <1>4

\* Rows that become history.
LEMMA PromotedSince ==
  ASSUME NEW p, NEW b \in Peer, NEW m, NEW r, Sound(r), Since(p, b, m, r), NEW T
  PROVE  Since(p, b, m, Promoted(r, T))
<1> DEFINE c == Promoted(r, T)
           N == {}
<1>1. r \in Peer /\ c \in Peer /\ SameRun(r, c)
  BY PromotedSound DEF Sound, Shape
<1>2. /\ c.seq = r.seq /\ c.epoch = r.epoch /\ c.load = r.load /\ c.target = r.target
      /\ c.peerPost = r.peerPost /\ c.out = r.out \cup N /\ c.rows = r.rows
      /\ c.sealed = r.sealed
  BY <1>1 DEF Promoted, Peer
<1>3. Aside(N, r, m)
  BY DEF Aside
<1> HIDE DEF c, N
<1>4. r.target <= c.target
  <2>1. r.target \in Nat
    BY <1>1, PeerFields, TickFinite
  <2>. QED BY <1>2, <2>1
<1>5. StandsBy(r, c)
  BY <1>1, <1>2, <1>4, StandsBySame DEF Kept, SameRun
<1>6. Since(p, b, m, c)
  BY <1>1, <1>2, <1>3, <1>5, SinceKept
<1>. QED BY <1>6 DEF c

\* rb_reconcile_wire().
LEMMA ReconcileSince ==
  ASSUME NEW p \in Peers, NEW b \in Peer, NEW m, NEW r, Sound(r), Since(p, b, m, r),
         NEW willing \in BOOLEAN
  PROVE  Since(p, b, m, Reconcile(p, r, willing))
<1> DEFINE found == Late(r) \cap r.missed
           t == Min(found)
<1>1. CASE found = {}
  <2> DEFINE T == Late(r)
  <2>1. Reconcile(p, r, willing) = Promoted(r, T)
    BY <1>1 DEF Reconcile
  <2> HIDE DEF T
  <2>. QED BY <2>1, PromotedSince
<1>2. CASE found # {}
  <2> DEFINE T == {u \in Late(r) : u <= t}
             c == Promoted(r, T)
  <2>1. t \in Tick
    BY <1>2, FoundFirst DEF Sound, Shape
  <2>2. Reconcile(p, r, willing) = OnWrongRow(p, c, t, willing)
    BY <1>2 DEF Reconcile
  <2> HIDE DEF t, T
  <2>3. Sound(c) /\ Since(p, b, m, c)
    BY PromotedSound, PromotedSince
  <2> HIDE DEF c
  <2>. QED BY <2>1, <2>2, <2>3, OnWrongRowSince
<1>. QED BY <1>1, <1>2

\* What a comparison of the baselines sends: nothing, or the end of the episode.
LEMMA CompareBaseSent ==
  ASSUME NEW r, Shape(r), NEW c, c = CompareBase(r)
  PROVE  /\ c.seq = r.seq
         /\ \/ SameEpisode(r, c) /\ c.peerPost = r.peerPost /\ c.out = r.out
            \/ /\ c.stage = "idle" /\ c.epoch = NoEpoch /\ c.peerPost = None
               /\ c.out = r.out \cup {[op |-> "abort", epoch |-> r.epoch, class |-> "abort"]}
<1>1. r \in Peer
  BY DEF Shape
<1> DEFINE e == [r EXCEPT !.peerBase = None]
           k == IF e.forkCap = 0 \/ r.load < e.forkCap THEN r.load ELSE e.forkCap
           d == [e EXCEPT !.forkCap = k, !.forkSeen = TRUE]
           l == EnterLockstep(d)
           x == [op |-> "abort", epoch |-> l.epoch, class |-> "abort"]
<1>2. /\ e \in Peer /\ SameEpisode(r, e) /\ e.peerPost = r.peerPost /\ e.out = r.out
      /\ e.seq = r.seq /\ e.epoch = r.epoch
  BY <1>1, FieldValues DEF Peer, SameEpisode
<1>3. \/ c = r
      \/ c = e
      \/ c = Abort(l, "abort")
  <2>1. [e EXCEPT !.forkCap = IF @ = 0 \/ r.load < @ THEN r.load ELSE @,
                  !.forkSeen = TRUE] = d
    <3> HIDE DEF e
    <3>. QED BY <1>2 DEF Peer
  <2>. QED BY <2>1 DEF CompareBase
<1>4. CASE c = r
  BY <1>4 DEF SameEpisode
<1>5. CASE c = e
  BY <1>2, <1>5
<1>6. CASE c = Abort(l, "abort")
  <2> HIDE DEF e, k
  <2>1. \A j : [d EXCEPT !.lockstep = j].epoch = r.epoch
    BY <1>2 DEF Peer
  <2>1a. \A j, y, z : LET a == [Clear(Send([d EXCEPT !.lockstep = j], y))
                               EXCEPT !.cooldown = z]
                     IN  /\ a.seq = r.seq /\ a.stage = "idle" /\ a.epoch = NoEpoch
                         /\ a.peerPost = None /\ a.out = r.out \cup {y}
    BY <1>2 DEF Clear, Send, Peer
  <2> DEFINE j == Max({d.lockstep, d.sim + Lockstep})
  <2>2. l = [d EXCEPT !.lockstep = j]
    BY DEF EnterLockstep
  <2> HIDE DEF d, j, l
  <2>3. l.epoch = r.epoch
    BY <2>1, <2>2
  <2>4. c = [Clear(Send(l, x)) EXCEPT !.cooldown = l.sim + Cooldown]
    BY <1>6 DEF Abort
  <2>5. x = [op |-> "abort", epoch |-> r.epoch, class |-> "abort"]
    BY <2>3
  <2> DEFINE z == l.sim + Cooldown
  <2> HIDE DEF x, z
  <2>6. /\ c.seq = r.seq /\ c.stage = "idle" /\ c.epoch = NoEpoch /\ c.peerPost = None
        /\ c.out = r.out \cup {x}
    <3>1. c = [Clear(Send([d EXCEPT !.lockstep = j], x)) EXCEPT !.cooldown = z]
      BY <2>2, <2>4 DEF z
    <3>. QED BY <2>1a, <3>1
  <2>. QED BY <2>5, <2>6
<1>. QED BY <1>3, <1>4, <1>5, <1>6

\* A comparison of the baselines stays in the episode or leaves it.
LEMMA CompareBaseSince ==
  ASSUME NEW p, NEW b \in Peer, NEW m, NEW r, Shape(r), Since(p, b, m, r)
  PROVE  Since(p, b, m, CompareBase(r))
<1> DEFINE c == CompareBase(r)
           N == {}
           X == {[op |-> "abort", epoch |-> r.epoch, class |-> "abort"]}
<1>1. r \in Peer /\ c \in Peer /\ SameRun(r, c) /\ r.seq \in Nat /\ r.seq <= r.seq
  <2>1. Shape(c) /\ SameRun(r, c)
    BY CompareBaseShape
  <2> HIDE DEF c
  <2>2. r \in Peer /\ c \in Peer
    BY <2>1 DEF Shape
  <2>. QED BY <2>1, <2>2, PeerFields
<1>2. /\ c.seq = r.seq
      /\ \/ SameEpisode(r, c) /\ c.peerPost = r.peerPost /\ c.out = r.out
         \/ /\ c.stage = "idle" /\ c.epoch = NoEpoch /\ c.peerPost = None
            /\ c.out = r.out \cup X
  BY CompareBaseSent
<1>3. Aside(N, r, m) /\ Aside(X, r, m) /\ r.out = r.out \cup N
  BY DEF Aside
<1> HIDE DEF c, N, X
<1>4. CASE SameEpisode(r, c) /\ c.peerPost = r.peerPost /\ c.out = r.out
  <2>1. c.out = r.out \cup N
    BY <1>3, <1>4
  <2>2. Since(p, b, m, c)
    BY <1>1, <1>2, <1>3, <1>4, <2>1, SinceSame
  <2>. QED BY <2>2 DEF c
<1>5. CASE c.epoch = NoEpoch /\ c.peerPost = None /\ c.out = r.out \cup X
  <2>1. Since(p, b, m, c)
    BY <1>1, <1>2, <1>3, <1>5, SinceLeft
  <2>. QED BY <2>1 DEF c
<1>. QED BY <1>2, <1>4, <1>5

\* The span has run from the snapshot before it: it is answered for, and so is what was
\* answered before.
LEMMA ReplayedSince ==
  ASSUME NEW p, NEW b \in Peer, NEW m, m.op # "begin", NEW r, Sound(r), Since(p, b, m, r),
         r.stage = "sealing", Span(r) \subseteq r.rows, NEW X, Aside(X, r, m),
         NEW l, Shape(l), l.mach = r.snaps[r.load], l.snaps = r.snaps, l.load = r.load,
         l.target = r.target, l.rows = r.rows, l.sealed = r.sealed, l.epoch = r.epoch,
         l.peerPost = r.peerPost, l.seq = r.seq, l.out = r.out \cup X
  PROVE  Since(p, b, m, EnterVerify(Replayed(l)))
<1> DEFINE mach == Reran(l, l.mach)
           all == Saved(l.snaps, Span(l), mach)
           D == {u \in DOMAIN all : u <= l.target}
           snaps == [t \in D |-> all[t]]
           w == Replayed(l)
           v == [w EXCEPT !.stage = "verifying"]
           x == [op |-> "post", epoch |-> w.epoch, target |-> w.target, digest |-> w.mach]
           c == EnterVerify(w)
<1>1. /\ r \in Peer /\ l \in Peer /\ Episode(l) /\ r.load \in DOMAIN r.snaps
      /\ r.epoch # NoEpoch /\ Ring(r)
  BY DEF Sound, Shape, Run, Episode
<1>2. /\ l.load \in Nat /\ l.target \in Nat /\ l.load <= l.target /\ l.mach \in Machine
      /\ l.target \in Tick /\ l.snaps \in Snapshots /\ Span(l) \in SUBSET Tick
      /\ DOMAIN l.snaps # {}
  <2>1. l.load \in Tick /\ l.target \in Tick /\ l.mach \in Machine /\ l.load <= l.target
        /\ l.snaps \in Snapshots
    BY <1>1, PeerFields DEF Episode
  <2>2. Span(l) \in SUBSET Tick
    BY <2>1, TickRange DEF Span
  <2>. QED BY <1>1, <2>1, <2>2, TickFinite DEF Ring
<1>3. Before(l.mach, l.load)
  BY <1>1 DEF Ring
<1>4. /\ mach \in Machine /\ AsOf(mach, l.load) = l.mach
      /\ mach = Reran(r, r.snaps[r.load])
  <2>1. mach \in Machine /\ AsOf(mach, l.load) = AsOf(l.mach, l.load)
    BY <1>1, <1>2, <1>3, ReranMachine
  <2>2. AsOf(l.mach, l.load) = l.mach
    BY <1>2, <1>3, AsOfWhole
  <2>. QED BY <2>1, <2>2 DEF Reran
<1>5. /\ w.snaps = snaps /\ w.mach = mach /\ w.sim = l.target + 1 /\ w.load = l.load
      /\ w.target = l.target /\ w.rows = l.rows /\ w.sealed = l.sealed
      /\ w.epoch = l.epoch /\ w.peerPost = l.peerPost /\ w.seq = l.seq /\ w.out = l.out
  <2>1. w = [l EXCEPT !.snaps = snaps, !.mach = mach, !.sim = l.target + 1,
                      !.committed = Min({@, l.target})]
    BY DEF Replayed
  <2> HIDE DEF w, snaps, mach
  <2>. QED BY <1>1, <2>1 DEF Peer
<1>6. l.load \in DOMAIN snaps => snaps[l.load] = l.mach
  <2>1. MergedRing(all, l.snaps, Span(l), mach)
    BY <1>2, <1>4, SavedProperties
  <2>2. l.load \in Span(l)
    BY <1>2 DEF Span
  <2> HIDE DEF all, mach
  <2>3. l.load \in DOMAIN all => all[l.load] = AsOf(mach, l.load)
    BY <2>1, <2>2 DEF MergedRing
  <2>. QED BY <1>4, <2>3
<1>7. /\ c.snaps = snaps /\ c.mach = mach /\ c.sim = l.target + 1 /\ c.load = l.load
      /\ c.target = l.target /\ c.rows = l.rows /\ c.sealed = l.sealed
      /\ c.epoch = l.epoch /\ c.peerPost = l.peerPost /\ c.seq = l.seq
      /\ c.out = l.out \cup {x}
  <2>1. \A y : LET n == Send([w EXCEPT !.stage = "verifying"], y)
               IN  /\ n.snaps = w.snaps /\ n.mach = w.mach /\ n.sim = w.sim
                   /\ n.load = w.load /\ n.target = w.target /\ n.rows = w.rows
                   /\ n.sealed = w.sealed /\ n.epoch = w.epoch
                   /\ n.peerPost = w.peerPost /\ n.seq = w.seq /\ n.out = w.out \cup {y}
    <3> HIDE DEF mach
    <3>. QED BY <1>1 DEF Send, Replayed, Peer
  <2>2. c = Send(v, x)
    BY DEF EnterVerify
  <2> HIDE DEF w, x, c, snaps, mach
  <2>. QED BY <1>5, <2>1, <2>2
<1>8. x.op = "post" /\ x.epoch = l.epoch /\ x.target = l.target /\ x.digest = mach
  <2> HIDE DEF w, mach
  <2>. QED BY <1>5
<1> HIDE DEF w, x, c, snaps, all, D
<1>9. /\ c.load .. c.target \subseteq c.rows /\ c.target < c.sim
      /\ c.load \in DOMAIN c.snaps => Reran(c, c.snaps[c.load]) = mach
  <2>1. c.load .. c.target \subseteq c.rows /\ c.target < c.sim
    BY <1>2, <1>7 DEF Span
  <2>2. Reran(c, l.mach) = mach
    BY <1>7 DEF Reran
  <2>. QED BY <1>6, <1>7, <2>1, <2>2
<1> HIDE DEF mach
<1>10. Answer(c, x.target, x.digest)
  BY <1>2, <1>7, <1>8, <1>9 DEF Answer
<1>11. StandsBy(r, c)
  <2> SUFFICES ASSUME NEW T \in Tick, NEW d \in Machine, Answer(r, T, d)
               PROVE  Answer(c, T, d)
    BY DEF StandsBy
  <2>1. T \in Nat /\ T <= c.target
    BY <1>7, TickFinite DEF Answer
  <2>2. T < c.sim
    BY <1>2, <1>7, <2>1
  <2>3. UpTo(mach, T) = UpTo(d, T)
    BY <1>1, <1>4 DEF Answer
  <2>4. c.load .. T \subseteq c.rows
    BY <1>7 DEF Answer
  <2>. QED BY <1>7, <1>9, <2>1, <2>2, <2>3, <2>4 DEF Answer
<1>12. c.out = r.out \cup X \cup {x} /\ c.seq = r.seq /\ c.epoch = r.epoch
       /\ c.epoch # NoEpoch /\ c.peerPost = r.peerPost /\ x.epoch = c.epoch
  BY <1>1, <1>7, <1>8
<1>13. Since(p, b, m, c)
  BY <1>1, <1>8, <1>10, <1>11, <1>12, SincePosted
<1>. QED BY <1>13 DEF c, w

\* rb_run_replay() ends the episode at the load tick or answers for the tip.
LEMMA ReplaySince ==
  ASSUME NEW p, NEW b \in Peer, NEW m, m.op # "begin", NEW r, Sound(r), Since(p, b, m, r),
         r.stage = "sealing", Span(r) \subseteq r.rows
  PROVE  Since(p, b, m, Replay(r))
<1> DEFINE k == r.snaps[r.load]
           d == [r EXCEPT !.mach = k, !.base = k]
           x == [op |-> "base", epoch |-> r.epoch, load |-> r.load, digest |-> d.mach]
           y == [op |-> "abort", epoch |-> r.epoch, class |-> "abort"]
           X == {x}
           Y == {x, y}
           s == Send(d, x)
           c == CompareBase(s)
           f == [c EXCEPT !.mach.skipped = @ \cup r.load .. (r.sim - 1)]
<1>1. r \in Peer /\ Episode(r) /\ r.snaps \in Snapshots /\ r.seq \in Nat /\ r.seq <= r.seq
  <2>1. r \in Peer /\ Episode(r)
    BY DEF Sound, Shape
  <2>. QED BY <2>1, PeerFields
<1>2. r.load \in DOMAIN r.snaps /\ k \in Machine /\ k \in Baselines
  BY <1>1, SnapsProperties DEF Episode, Baselines
<1>3. Loaded(r) = IF c.stage = "idle" THEN f ELSE c
  BY DEF Loaded
<1> HIDE DEF k
<1>4. d \in Peer /\ d.mach = k /\ d.base = k
      /\ d.snaps = r.snaps /\ d.sim = r.sim /\ d.stage = r.stage /\ d.epoch = r.epoch
      /\ d.load = r.load /\ d.target = r.target /\ d.rows = r.rows
      /\ d.sealed = r.sealed /\ d.guessed = r.guessed /\ d.missed = r.missed
      /\ d.peerPost = r.peerPost /\ d.seq = r.seq /\ d.out = r.out
  BY <1>1, <1>2 DEF Peer
<1> HIDE DEF d
<1>5. Shape(d)
  <2>1. Episode(d)
    BY <1>1, <1>2, <1>4 DEF Episode, Span
  <2>. QED BY <1>4, <2>1 DEF Shape
<1>6. x \in Message
  BY <1>1, <1>2, <1>4, PeerFields DEF Message
<1>7. Aside(X, r, m) /\ Aside(Y, r, m)
  BY DEF Aside
<1>8. Shape(s) /\ SameRun(d, s) /\ SameEpisode(d, s) /\ s.seq = r.seq
      /\ s.out = r.out \cup X /\ s.epoch = r.epoch /\ s.peerPost = r.peerPost
  <2> HIDE DEF x
  <2>. QED BY <1>4, <1>5, <1>6, SendShape, SendFields
<1> HIDE DEF s, x
<1>9. Shape(c) /\ SameRun(s, c)
  BY <1>8, CompareBaseShape
<1>10. /\ c.seq = r.seq
       /\ \/ SameEpisode(s, c) /\ c.peerPost = r.peerPost /\ c.out = r.out \cup X
          \/ /\ c.stage = "idle" /\ c.epoch = NoEpoch /\ c.peerPost = None
             /\ c.out = r.out \cup Y
  <2>1. /\ c.seq = s.seq
        /\ \/ SameEpisode(s, c) /\ c.peerPost = s.peerPost /\ c.out = s.out
           \/ /\ c.stage = "idle" /\ c.epoch = NoEpoch /\ c.peerPost = None
              /\ c.out = s.out \cup {[op |-> "abort", epoch |-> s.epoch, class |-> "abort"]}
    BY <1>8, CompareBaseSent
  <2> HIDE DEF c
  <2>. QED BY <1>8, <2>1
<1> HIDE DEF c, X, Y
<1>11. CASE c.stage = "idle" /\ c.epoch = NoEpoch /\ c.peerPost = None
            /\ c.out = r.out \cup Y
  <2>1. c \in Peer
    BY <1>9 DEF Shape
  <2>2. /\ f.seq = c.seq /\ f.epoch = c.epoch /\ f.peerPost = c.peerPost
        /\ f.out = c.out /\ f.stage = c.stage
    BY <2>1 DEF Peer
  <2> HIDE DEF f
  <2>3. Since(p, b, m, f)
    BY <1>1, <1>7, <1>10, <1>11, <2>2, SinceLeft
  <2>. QED BY <1>2, <1>3, <1>11, <2>2, <2>3 DEF Replay
<1>12. CASE SameEpisode(s, c) /\ c.peerPost = r.peerPost /\ c.out = r.out \cup X
  <2>1. /\ c.stage = "sealing" /\ c.epoch = r.epoch /\ c.load = r.load
        /\ c.target = r.target /\ c.rows = r.rows /\ c.sealed = r.sealed
    BY <1>4, <1>8, <1>12 DEF SameEpisode
  <2>2. c.mach = r.snaps[r.load] /\ c.snaps = r.snaps
    BY <1>4, <1>8, <1>9 DEF SameRun, k
  <2>3. Since(p, b, m, EnterVerify(Replayed(c)))
    BY <1>7, <1>9, <1>10, <1>12, <2>1, <2>2, ReplayedSince
  <2>4. c.stage # "idle"
    BY <2>1
  <2> HIDE DEF f
  <2>. QED BY <1>2, <1>3, <2>3, <2>4 DEF Replay
<1>. QED BY <1>10, <1>11, <1>12

\* rb_commit_episode() holds the tip in the same episode, or leaves it.
LEMMA CommitSince ==
  ASSUME NEW p, NEW b \in Peer, NEW m, NEW r, Sound(r), Since(p, b, m, r),
         r.stage = "verifying", r.mach.wrong = {}, NEW willing \in BOOLEAN
  PROVE  Since(p, b, m, Commit(r, willing))
<1> DEFINE O == {x \in Promoted(r, Span(r)).odd : x[2] \notin Span(r)} \cup r.sealed
           K == Max({Promoted(r, Span(r)).committed, r.target})
           d == [Promoted(r, Span(r)) EXCEPT !.odd = O, !.forkCap = 0, !.committed = K]
           h == [d EXCEPT !.stage = "tiphold"]
           g == Clear(d)
           n == IF willing THEN h ELSE g
           x == [op |-> "commit", epoch |-> n.epoch]
           X == {x}
           c == Commit(r, willing)
<1>1. r \in Peer /\ c \in Peer /\ r.seq \in Nat /\ r.seq <= r.seq
  <2>1. Sound(c)
    BY CommitSound
  <2> HIDE DEF c
  <2>2. r \in Peer /\ c \in Peer
    BY <2>1 DEF Sound, Shape
  <2>. QED BY <2>2, PeerFields
<1>2. c = Send(n, x)
  <2>1. Promoted(r, Span(r)) \in Peer
    BY PromotedSound DEF Sound, Shape
  <2> DEFINE e == Promoted(r, Span(r))
             dd == [e EXCEPT !.odd = {z \in @ : z[2] \notin Span(r)} \cup r.sealed,
                             !.forkCap = 0, !.committed = Max({@, r.target})]
  <2>2. dd = d
    <3> HIDE DEF e
    <3>. QED BY <2>1 DEF e, Peer
  <2>3. c = Send(IF willing THEN [dd EXCEPT !.stage = "tiphold"] ELSE Clear(dd),
              [op |-> "commit",
               epoch |-> (IF willing THEN [dd EXCEPT !.stage = "tiphold"] ELSE Clear(dd)).epoch])
    BY DEF Commit
  <2> HIDE DEF d, dd
  <2>. QED BY <2>2, <2>3
<1> HIDE DEF O, K
<1>3. /\ h.seq = r.seq /\ h.epoch = r.epoch /\ h.peerPost = r.peerPost
      /\ \A y : LET k == Send(h, y)
                IN  /\ k.seq = r.seq /\ k.epoch = r.epoch /\ k.peerPost = r.peerPost
                    /\ k.out = r.out \cup {y} /\ k.sim = r.sim /\ k.mach = r.mach
                    /\ k.snaps = r.snaps /\ k.load = r.load /\ k.target = r.target
                    /\ k.rows = r.rows /\ k.sealed = r.sealed
  BY <1>1 DEF Promoted, Send, Peer
<1>4. /\ g.epoch = NoEpoch
      /\ \A y : LET k == Send(g, y)
                IN  /\ k.seq = r.seq /\ k.epoch = NoEpoch /\ k.peerPost = None
                    /\ k.out = r.out \cup {y}
  BY <1>1 DEF Promoted, Clear, Send, Peer
<1> HIDE DEF h, g, c
<1>5. CASE willing
  <2>1. n = h /\ x.epoch = r.epoch /\ Aside(X, r, m)
    BY <1>3, <1>5 DEF Aside
  <2> HIDE DEF n, x
  <2>2. /\ c.seq = r.seq /\ c.epoch = r.epoch /\ c.peerPost = r.peerPost
        /\ c.out = r.out \cup X /\ c.sim = r.sim /\ c.mach = r.mach
        /\ c.snaps = r.snaps /\ c.load = r.load /\ c.target = r.target
        /\ c.rows = r.rows /\ c.sealed = r.sealed
    BY <1>2, <1>3, <2>1
  <2> HIDE DEF X
  <2>3. r.target <= c.target
    <3>1. r.target \in Nat
      BY <1>1, PeerFields, TickFinite
    <3>. QED BY <2>2, <3>1
  <2>4. StandsBy(r, c)
    BY <1>1, <2>2, <2>3, StandsBySame DEF Kept
  <2>5. Since(p, b, m, c)
    BY <1>1, <2>1, <2>2, <2>4, SinceKept
  <2>. QED BY <2>5 DEF c
<1>6. CASE ~willing
  <2>1. n = g /\ x.epoch = NoEpoch /\ Aside(X, r, m)
    BY <1>4, <1>6 DEF Aside
  <2> HIDE DEF n, x
  <2>2. /\ c.seq = r.seq /\ c.epoch = NoEpoch /\ c.peerPost = None
        /\ c.out = r.out \cup X
    BY <1>2, <1>4, <2>1
  <2> HIDE DEF X
  <2>3. Since(p, b, m, c)
    BY <1>1, <2>1, <2>2, SinceLeft
  <2>. QED BY <2>3 DEF c
<1>. QED BY <1>5, <1>6

\* rb_verify_try_commit() and the watchdog over it.
LEMMA VerifySince ==
  ASSUME NEW p, NEW b \in Peer, NEW m, NEW r, Sound(r), Since(p, b, m, r),
         r.stage = "verifying", NEW expired \in BOOLEAN, NEW willing \in BOOLEAN
  PROVE  Since(p, b, m, Verify(r, expired, willing))
<1> DEFINE f == [r EXCEPT !.forkSeen = TRUE]
           l == EnterLockstep(f)
           n == [r EXCEPT !.peerPost = None]
           N == {}
<1>1. r \in Peer /\ Shape(r)
  BY DEF Sound, Shape
<1>2. /\ f \in Peer /\ SameRun(r, f) /\ SameEpisode(r, f) /\ f.seq = r.seq /\ f.out = r.out
  BY <1>1 DEF Peer, SameRun, SameEpisode
<1>3. Aside(N, r, m) /\ r.out = r.out \cup N
  BY DEF Aside
<1>4. Agree(r.mach, r.peerPost.digest) => Since(p, b, m, Commit(r, willing))
  BY CommitSince DEF Agree
<1>5. Since(p, b, m, Abort(l, "abort"))
  <2> HIDE DEF f
  <2>1. Shape(f)
    BY <1>1, <1>2, SameShape
  <2>2. Shape(l) /\ SameRun(f, l) /\ SameEpisode(f, l)
    BY <2>1, EnterLockstepShape
  <2>3. l.seq = f.seq /\ l.out = f.out
    BY <1>2 DEF EnterLockstep, Peer
  <2> HIDE DEF l
  <2>4. l \in Peer /\ SameRun(r, l) /\ SameEpisode(r, l)
    BY <1>2, <2>2, SameRunTwice, SameEpisodeTwice DEF Shape
  <2>5. l.seq = r.seq /\ l.out = r.out \cup N
    BY <1>2, <2>3
  <2> HIDE DEF N
  <2>6. Since(p, b, m, l)
    BY <1>1, <1>3, <2>4, <2>5, SinceSame
  <2>. QED BY <2>4, <2>6, LeavingSince
<1>6. Since(p, b, m, n)
  <2>1. n \in Peer /\ SameRun(r, n) /\ SameEpisode(r, n) /\ n.seq = r.seq
        /\ n.out = r.out \cup N
    BY <1>1, FieldValues DEF Peer, SameRun, SameEpisode
  <2> HIDE DEF n, N
  <2>. QED BY <1>1, <1>3, <2>1, SinceSame
<1>7. Since(p, b, m, Abort(r, "abort"))
  BY <1>1, LeavingSince
<1>. QED BY <1>4, <1>5, <1>6, <1>7 DEF Verify

\* rb_pump_episode().
LEMMA PumpSince ==
  ASSUME NEW p, NEW b \in Peer, NEW m, m.op # "begin", NEW r, Sound(r), Since(p, b, m, r),
         NEW expired \in BOOLEAN, NEW willing \in BOOLEAN
  PROVE  Since(p, b, m, Pump(r, expired, willing))
<1>1. r \in Peer
  BY DEF Sound, Shape
<1>2. CASE r.stage = "sealing"
  <2>1. Since(p, b, m, Seal(r, expired))
    BY <1>1, <1>2, ReplaySince, LeavingSince DEF Seal
  <2>. QED BY <1>2, <2>1 DEF Pump
<1>3. CASE r.stage = "verifying"
  BY <1>3, VerifySince DEF Pump
<1>4. CASE r.stage = "tiphold"
  <2>1. Since(p, b, m, HoldTip(r, expired))
    BY <1>1, LeavingSince DEF HoldTip
  <2>. QED BY <1>4, <2>1 DEF Pump
<1>5. CASE r.stage \notin {"sealing", "verifying", "tiphold"}
  <2>1. Pump(r, expired, willing) = r
    BY <1>5 DEF Pump
  <2>. QED BY <2>1
<1>. QED BY <1>2, <1>3, <1>4, <1>5

\* A frame runs the tick sim: what was answered for an earlier one stands.
LEMMA FrameSince ==
  ASSUME NEW p, NEW b \in Peer, NEW m, NEW r, Sound(r), Since(p, b, m, r),
         r.stage # "sealing", r.sim < MaxTick, NEW wrong \in BOOLEAN
  PROVE  Since(p, b, m, Frame(r, wrong))
<1> DEFINE t == r.sim
           own == {<<r.slot, u>> : u \in r.resampled \cap {t}}
           W == IF wrong THEN {t} ELSE {}
           snaps == Saved(r.snaps, {t}, r.mach)
           mach == WithRows(r.mach, W, own)
           c == Frame(r, wrong)
           N == {}
<1>1. /\ r \in Peer /\ Episode(r) /\ Ring(r) /\ r.mach \in Machine /\ t \in Nat
      /\ t \in Tick /\ r.slot \in Peers /\ r.snaps \in Snapshots /\ DOMAIN r.snaps # {}
      /\ r.load \in Nat /\ r.target \in Nat
  <2>1. r \in Peer /\ Episode(r) /\ Ring(r)
    BY DEF Sound, Shape, Run
  <2>2. t \in 1 .. MaxTick /\ MaxTick \in Nat
    BY <2>1, PeerFields, RollbackAssumption
  <2>3. t \in Nat /\ t \in Tick
    BY <2>2 DEF Tick
  <2>. QED BY <2>1, <2>3, PeerFields, TickFinite DEF Ring
<1>2. own \in SUBSET {<<r.slot, t>>} /\ W \in SUBSET {t}
  OBVIOUS
<1> HIDE DEF own, W
<1>3. \A s \in Nat : s <= t => AsOf(mach, s) = AsOf(r.mach, s)
  <2>1. Before(r.mach, t)
    BY <1>1 DEF Ring
  <2> HIDE DEF t
  <2>. QED BY <1>1, <1>2, <2>1, FrameMachine
<1>4. /\ c.seq = r.seq /\ c.epoch = r.epoch /\ c.load = r.load /\ c.target = r.target
      /\ c.peerPost = r.peerPost /\ c.out = r.out \cup N /\ c.sim = t + 1
      /\ c.snaps = snaps /\ c.mach = mach /\ c.rows = r.rows /\ c.sealed = r.sealed
  <2>1. c.mach = mach
    <3> DEFINE k == [r.mach EXCEPT !.wrong = IF wrong THEN @ \cup {t} ELSE @,
                                   !.odd = @ \cup own]
    <3>1. k = mach
      BY <1>1 DEF WithRows, Machine, W
    <3>2. c.mach = k
      <4> HIDE DEF k
      <4>. QED BY <1>1 DEF Frame, Peer, k, own
    <3>. QED BY <3>1, <3>2
  <2>2. /\ c.seq = r.seq /\ c.epoch = r.epoch /\ c.load = r.load /\ c.target = r.target
        /\ c.peerPost = r.peerPost /\ c.out = r.out \cup N /\ c.sim = t + 1
        /\ c.snaps = snaps /\ c.rows = r.rows /\ c.sealed = r.sealed
    BY <1>1 DEF Frame, Peer
  <2>. QED BY <2>1, <2>2
<1>5. Aside(N, r, m)
  BY DEF Aside
<1> HIDE DEF c, N, mach
<1>6. ASSUME c.epoch # NoEpoch PROVE StandsBy(r, c)
  <2> SUFFICES ASSUME NEW T \in Tick, NEW d \in Machine, Answer(r, T, d)
               PROVE  Answer(c, T, d)
    BY DEF StandsBy
  <2>1. T \in Nat /\ T < t /\ T + 1 <= t /\ T < t + 1 /\ T <= r.target /\ T + 1 \in Nat
    <3>1. T \in Nat /\ T < t /\ T <= r.target
      BY TickFinite DEF Answer
    <3>. QED BY <1>1, <3>1
  <2>2. UpTo(mach, T) = UpTo(r.mach, T)
    BY <1>3, <2>1 DEF UpTo
  <2>3. r.load < t
    <3>1. r.stage \in {"verifying", "tiphold"}
      BY <1>1, <1>4, <1>6, PeerFields DEF Episode, Stages
    <3>2. r.load <= r.target /\ r.target < t
      BY <1>1, <3>1 DEF Episode
    <3>. QED BY <1>1, <3>2
  <2>4. r.load \in DOMAIN snaps => r.load \in DOMAIN r.snaps /\ snaps[r.load] = r.snaps[r.load]
    <3>1. MergedRing(snaps, r.snaps, {t}, r.mach)
      BY <1>1, SavedProperties
    <3>2. r.load \notin {t}
      BY <1>1, <2>3
    <3> HIDE DEF snaps
    <3>. QED BY <3>1, <3>2 DEF MergedRing
  <2>5. \A k : Reran(c, k) = Reran(r, k)
    BY <1>4 DEF Reran
  <2> HIDE DEF snaps
  <2>. QED BY <1>4, <2>1, <2>2, <2>4, <2>5 DEF Answer
<1>7. Since(p, b, m, c)
  BY <1>1, <1>4, <1>5, <1>6, SinceKept
<1>. QED BY <1>7 DEF c

\* A peer that follows a call enters an episode that it was not in, and answers nothing.
LEMMA BeginAsFollowerSince ==
  ASSUME NEW p, NEW b \in Peer, NEW m \in Begin, m.epoch # b.epoch, NEW r, Sound(r),
         Since(p, b, m, r), r.stage = "idle", r.out = {}, NEW willing \in BOOLEAN
  PROVE  Since(p, b, m, BeginAsFollower(r, m, willing))
<1> DEFINE c == RowsRead(r, m.target)
           R == {u \in m.load .. m.target : Confirmed(c, u)}
           o == Opened(c, m.epoch, m.load, m.target, FALSE, R)
           x == [op |-> "rows", epoch |-> o.epoch, load |-> o.load, target |-> o.target,
                 odd |-> {t \in Span(o) : <<o.slot, t>> \in o.sealed}]
           n == SendRows(o)
           a == BeginAsFollower(r, m, willing)
<1>1. /\ m.epoch \in Called /\ m.load \in Tick /\ m.target \in Tick /\ m.load <= m.target
      /\ m.epoch \in Epoch /\ m.op = "begin"
  BY DEF Begin, Called
<1>2. /\ Sound(c) /\ SameRun(r, c) /\ SameEpisode(r, c) /\ Since(p, b, m, c)
      /\ c.out = r.out /\ c.seq = r.seq
  <2>1. Sound(c) /\ SameRun(r, c) /\ SameEpisode(r, c)
    BY <1>1, RowsReadSound
  <2>2. Since(p, b, m, c) /\ c.out = r.out /\ c.seq = r.seq
    BY <1>1, RowsReadSince
  <2>. QED BY <2>1, <2>2
<1>3. c.stage = "idle" /\ c.snaps = r.snaps /\ c.peerPost = None /\ c \in Peer
  <2> HIDE DEF c
  <2>1. c.stage = "idle" /\ c.snaps = r.snaps
    BY <1>2 DEF SameEpisode, SameRun
  <2>. QED BY <1>2, <2>1 DEF Sound, Shape, Episode
<1>4. Since(p, b, m, Nack(r, m))
  BY <1>1, NackSince
<1>5. Since(p, b, m, Nack(c, m))
  <2> HIDE DEF c
  <2>. QED BY <1>1, <1>2, NackSince
<1>6. ASSUME m.load \in DOMAIN r.snaps PROVE Since(p, b, m, n)
  <2>1. R \in SUBSET (m.load .. m.target)
    OBVIOUS
  <2> HIDE DEF c, R
  <2>2. Sound(o)
    BY <1>1, <1>2, <1>3, <1>6, <2>1, OpenedSound
  <2>3. o.seq = c.seq /\ o.epoch = m.epoch /\ o.peerPost = c.peerPost /\ o.out = c.out
    BY <1>3 DEF Opened, Peer
  <2>4. n = Send(o, x)
    BY DEF SendRows
  <2> HIDE DEF o
  <2>5. x.op = "rows" /\ x.epoch = m.epoch
    BY <2>3
  <2>6. o \in Peer
    BY <2>2 DEF Sound, Shape
  <2> HIDE DEF x, n
  <2>7. n.seq = r.seq /\ n.epoch = m.epoch /\ n.peerPost = None /\ n.out = {x}
    BY <1>2, <1>3, <2>3, <2>4, <2>6, SendFields
  <2>8. SentSince(p, b, m, n)
    BY <2>5, <2>7 DEF SentSince
  <2>. QED BY <1>1, <2>7, <2>8 DEF Since
<1>7. a \in {Nack(r, m), Nack(c, m), c, n}
      /\ (a = n => m.load \in DOMAIN r.snaps \/ a = Nack(r, m))
  BY DEF BeginAsFollower
<1> HIDE DEF c, n, a
<1>8. Since(p, b, m, a)
  BY <1>2, <1>4, <1>5, <1>6, <1>7
<1>. QED BY <1>8 DEF a

\* BEGIN, with a call of the own given up for it or not.
LEMMA OnBeginSince ==
  ASSUME NEW p \in Peers, NEW b, Sound(b), b.out = {}, NEW m \in Begin,
         m.epoch # b.epoch, Since(p, b, m, b), NEW willing \in BOOLEAN
  PROVE  Since(p, b, m, OnBegin(p, b, m, willing))
<1>1. b \in Peer
  BY DEF Sound, Shape
<1>2. CASE b.stage = "idle"
  BY <1>1, <1>2, BeginAsFollowerSince DEF OnBegin
<1>3. CASE b.stage # "idle" /\ b.initiator /\ Other(p) < p
  <2> DEFINE r == Clear(b)
  <2>1. Sound(r) /\ r.stage = "idle"
    BY ClearSound
  <2>2. r.out = {}
    BY <1>1 DEF Clear, Peer
  <2>3. Since(p, b, m, r)
    BY <1>1, LeavingSince
  <2> HIDE DEF r
  <2>4. Since(p, b, m, BeginAsFollower(r, m, willing))
    BY <1>1, <2>1, <2>2, <2>3, BeginAsFollowerSince
  <2>. QED BY <1>3, <2>4 DEF OnBegin, r
<1>4. CASE b.stage # "idle" /\ ~(b.initiator /\ Other(p) < p)
  <2>1. m.epoch \in Epoch
    BY DEF Begin, Called
  <2>2. Since(p, b, m, Nack(b, m))
    BY <1>1, <2>1, NackSince
  <2>. QED BY <1>4, <2>2 DEF OnBegin
<1>. QED BY <1>2, <1>3, <1>4

\* The call to grow.
LEMMA OnExtendSince ==
  ASSUME NEW p, NEW b \in Peer, NEW m, m.epoch \in Epoch, m.target \in Tick,
         NEW r, Sound(r), Since(p, b, m, r), NEW willing \in BOOLEAN
  PROVE  Since(p, b, m, OnExtend(r, m, willing))
<1> DEFINE target == Max({m.target, r.target})
           c == IF MayExtend(r) THEN RowsRead(r, target) ELSE r
           a == OnExtend(r, m, willing)
<1>1. r \in Peer /\ r.target \in Tick /\ r.target \in Nat /\ m.target \in Nat
  <2>1. r \in Peer
    BY DEF Sound, Shape
  <2>. QED BY <2>1, PeerFields, TickFinite
<1>2. target \in Tick /\ r.target <= target
  <2>1. target = IF m.target >= r.target THEN m.target ELSE r.target
    BY <1>1, MaxOfTwo
  <2> HIDE DEF target
  <2>. QED BY <1>1, <2>1
<1>3. a = IF r.stage \in {"tiphold", "verifying"} /\ m.epoch = r.epoch
          THEN IF CanExtend(c, target, willing) THEN Extended(c, target)
               ELSE Abort(c, "realign")
          ELSE Nack(r, m)
  BY DEF OnExtend
<1> HIDE DEF target
<1>4. Sound(c) /\ Since(p, b, m, c) /\ c.target = r.target
  <2>1. CASE MayExtend(r)
    <3> DEFINE k == RowsRead(r, target)
    <3>1. Sound(k) /\ Since(p, b, m, k) /\ SameEpisode(r, k)
      BY <1>2, RowsReadSound, RowsReadSince
    <3>2. c = k
      BY <2>1
    <3> HIDE DEF k, c
    <3>. QED BY <3>1, <3>2 DEF SameEpisode
  <2>2. CASE ~MayExtend(r)
    BY <2>2
  <2>. QED BY <2>1, <2>2
<1> HIDE DEF c, a
<1>5. CanExtend(c, target, willing) => Since(p, b, m, Extended(c, target))
  BY <1>2, <1>4, ExtendedSince DEF CanExtend
<1>6. Since(p, b, m, Abort(c, "realign"))
  BY <1>4, LeavingSince DEF Sound, Shape
<1>7. Since(p, b, m, Nack(r, m))
  BY NackSince
<1>8. Since(p, b, m, a)
  BY <1>3, <1>5, <1>6, <1>7
<1>. QED BY <1>8 DEF a

\* The peer's end of the episode.
LEMMA OnAbortSince ==
  ASSUME NEW p, NEW b \in Peer, NEW m, NEW r, Sound(r), Since(p, b, m, r)
  PROVE  Since(p, b, m, OnAbort(r, m))
<1> DEFINE k == r.sim + (IF m.class = "realign" THEN 0 ELSE Cooldown)
           c == [Clear(r) EXCEPT !.cooldown = k]
           N == {}
<1>1. r \in Peer /\ r.seq \in Nat /\ r.seq <= r.seq
  <2>1. r \in Peer
    BY DEF Sound, Shape
  <2>. QED BY <2>1, PeerFields
<1>2. OnAbort(r, m) = IF Current(r, m) THEN c ELSE r
  BY DEF OnAbort
<1> HIDE DEF k
<1>3. c.seq = r.seq /\ c.epoch = NoEpoch /\ c.peerPost = None /\ c.out = r.out \cup N
  BY <1>1 DEF Clear, Peer
<1>4. Aside(N, r, m)
  BY DEF Aside
<1> HIDE DEF c, N
<1>5. Since(p, b, m, c)
  BY <1>1, <1>3, <1>4, SinceLeft
<1>. QED BY <1>2, <1>5

\* The peer's rows: those that were sealed stay as they were.
LEMMA OnRowsSince ==
  ASSUME NEW p, NEW b \in Peer, NEW m \in Rows, NEW r, Sound(r), Since(p, b, m, r)
  PROVE  Since(p, b, m, OnRows(r, m))
<1> DEFINE new == (Span(r) \cap m.load .. m.target) \ r.rows
           S == r.sealed \cup {Other(r.slot)} \X (new \cap m.odd)
           c == [r EXCEPT !.rows = @ \cup new, !.sealed = @ \cup {Other(r.slot)} \X (new \cap m.odd)]
           N == {}
           a == OnRows(r, m)
<1>1. /\ r \in Peer /\ a \in Peer /\ r.load \in Nat /\ r.target \in Nat
  <2>1. Sound(a)
    BY OnRowsSound
  <2> HIDE DEF a
  <2>2. r \in Peer /\ a \in Peer
    BY <2>1 DEF Sound, Shape
  <2>. QED BY <2>2, PeerFields, TickFinite
<1>2. a = IF ~Current(r, m) \/ m.load # r.load THEN r ELSE c
  BY DEF OnRows
<1>3. ASSUME NEW z \in Peers \X Tick, z[2] \in r.rows \/ z[2] < r.load
      PROVE  z \in S <=> z \in r.sealed
  <2>1. z[2] \in Nat
    BY RowTick
  <2>2. z[2] \notin new
    BY <1>1, <1>3, <2>1 DEF Span
  <2> HIDE DEF new
  <2>. QED BY <2>2
<1> HIDE DEF new
<1>4. /\ c.seq = r.seq /\ c.epoch = r.epoch /\ c.load = r.load /\ c.target = r.target
      /\ c.peerPost = r.peerPost /\ c.out = r.out \cup N /\ c.sim = r.sim
      /\ c.mach = r.mach /\ c.snaps = r.snaps /\ r.rows \subseteq c.rows /\ c.sealed = S
  BY <1>1 DEF Peer
<1>5. Aside(N, r, m)
  BY DEF Aside
<1> HIDE DEF c, N, S, a
<1>6. CASE a = r
  BY <1>6 DEF a
<1>7. CASE a = c
  <2>1. c \in Peer /\ Kept(r, c) /\ r.target <= c.target
    BY <1>1, <1>3, <1>4, <1>7 DEF Kept
  <2>2. StandsBy(r, c)
    BY <1>1, <1>4, <2>1, StandsBySame
  <2>3. Since(p, b, m, c)
    BY <1>1, <1>4, <1>5, <2>2, SinceKept
  <2>. QED BY <1>7, <2>3 DEF a
<1>. QED BY <1>2, <1>6, <1>7

\* The peer's baseline.
LEMMA OnBaseSince ==
  ASSUME NEW p, NEW b \in Peer, NEW m, m.digest \in Machine, NEW r, Sound(r),
         Since(p, b, m, r)
  PROVE  Since(p, b, m, OnBase(r, m))
<1> DEFINE c == [r EXCEPT !.peerBase = m.digest]
           N == {}
<1>1. r \in Peer /\ Episode(r) /\ m.digest \in Baselines
  BY DEF Sound, Shape, Baselines
<1>2. /\ c \in Peer /\ SameRun(r, c) /\ c.seq = r.seq /\ c.out = r.out \cup N
      /\ c.stage = r.stage /\ c.epoch = r.epoch /\ c.load = r.load /\ c.target = r.target
      /\ c.rows = r.rows /\ c.sealed = r.sealed /\ c.base = r.base
      /\ c.guessed = r.guessed /\ c.missed = r.missed /\ c.peerPost = r.peerPost
  BY <1>1 DEF Peer, SameRun
<1>3. Aside(N, r, m)
  BY DEF Aside
<1>4. OnBase(r, m) = IF ~Current(r, m) \/ m.load # r.load THEN r ELSE CompareBase(c)
  BY DEF OnBase
<1> HIDE DEF c, N
<1>5. r.target <= c.target
  <2>1. r.target \in Nat
    BY <1>1, PeerFields, TickFinite
  <2>. QED BY <1>2, <2>1
<1>6. StandsBy(r, c)
  BY <1>1, <1>2, <1>5, StandsBySame DEF Kept, SameRun
<1>7. Since(p, b, m, c)
  BY <1>1, <1>2, <1>3, <1>6, SinceKept
<1>8. r.stage # "idle" => Shape(c)
  BY <1>1, <1>2 DEF Shape, Episode, Span, SameRun
<1>9. r.stage # "idle" => Since(p, b, m, CompareBase(c))
  BY <1>7, <1>8, CompareBaseSince
<1>. QED BY <1>4, <1>9 DEF Current

\* The peer's answer.
LEMMA OnPostSince ==
  ASSUME NEW p, NEW b, Sound(b), b.out = {}, NEW m, m.op = "post", m.target \in Tick,
         m.digest \in Machine, Since(p, b, m, b)
  PROVE  Since(p, b, m, OnPost(b, m))
<1> DEFINE a == [target |-> m.target, digest |-> m.digest]
           c == [b EXCEPT !.peerPost = a]
<1>1. b \in Peer /\ a \in Answers /\ b.target \in Nat /\ b.seq \in Nat
  <2>1. b \in Peer /\ a \in Answers
    BY DEF Sound, Shape, Answers, Post
  <2>. QED BY <2>1, PeerFields, TickFinite
<1>2. OnPost(b, m) = IF ~Current(b, m) THEN b ELSE c
  BY DEF OnPost
<1> HIDE DEF a
<1>3. /\ c \in Peer /\ c.sim = b.sim /\ c.mach = b.mach /\ c.snaps = b.snaps
      /\ c.seq = b.seq /\ c.epoch = b.epoch /\ c.load = b.load /\ c.target = b.target
      /\ c.peerPost = a /\ c.out = {} /\ c.rows = b.rows /\ c.sealed = b.sealed
  BY <1>1 DEF Peer
<1> HIDE DEF c
<1>4. StandsBy(b, c)
  <2>1. b.target <= c.target
    BY <1>1, <1>3
  <2>. QED BY <1>1, <1>3, <2>1, StandsBySame DEF Kept
<1>5. ASSUME m.epoch = b.epoch PROVE Since(p, b, m, c)
  <2>1. SentSince(p, b, m, c)
    BY <1>3 DEF SentSince
  <2>2. StillIn(b, m, c)
    BY <1>3, <1>4, <1>5 DEF StillIn, a
  <2>3. b.seq <= c.seq /\ (b.epoch[1] = p => b.epoch[2] <= b.seq)
    BY <1>1, <1>3 DEF Since
  <2>. QED BY <1>3, <2>1, <2>2, <2>3 DEF Since
<1>. QED BY <1>2, <1>5 DEF Current

\* One message taken.
LEMMA HandledSince ==
  ASSUME NEW p \in Peers, NEW b, Sound(b), b.out = {}, NEW m \in Message,
         Since(p, b, m, b), m.op = "begin" => m.epoch # b.epoch, NEW willing \in BOOLEAN
  PROVE  Since(p, b, m, Handled(p, b, m, willing))
<1>1. b \in Peer
  BY DEF Sound, Shape
<1>2. /\ m.op \in {"begin", "extend", "nack", "abort", "commit", "rows", "base", "post"}
      /\ m.epoch \in Epoch
      /\ m.op = "begin" => m \in Begin
      /\ m.op = "rows" => m \in Rows
      /\ m.op \in {"extend", "post"} => m.target \in Tick
      /\ m.op \in {"base", "post"} => m.digest \in Machine
  BY MessageFields
<1>3. CASE m.op = "begin"
  BY <1>2, <1>3, OnBeginSince DEF Handled
<1>4. CASE m.op = "extend"
  BY <1>1, <1>2, <1>4, OnExtendSince DEF Handled
<1>5. CASE m.op = "nack"
  <2>1. Since(p, b, m, OnNack(b, m))
    BY <1>1, LeavingSince DEF OnNack
  <2>. QED BY <1>5, <2>1 DEF Handled
<1>6. CASE m.op = "abort"
  BY <1>1, <1>6, OnAbortSince DEF Handled
<1>7. CASE m.op = "commit"
  <2>1. Since(p, b, m, OnCommit(b, m))
    BY <1>1, LeavingSince DEF OnCommit
  <2>. QED BY <1>7, <2>1 DEF Handled
<1>8. CASE m.op = "rows"
  BY <1>1, <1>2, <1>8, OnRowsSince DEF Handled
<1>9. CASE m.op = "base"
  BY <1>1, <1>2, <1>9, OnBaseSince DEF Handled
<1>10. CASE m.op = "post"
  BY <1>2, <1>10, OnPostSince DEF Handled
<1>. QED BY <1>2, <1>3, <1>4, <1>5, <1>6, <1>7, <1>8, <1>9, <1>10

\* One poll.
LEMMA AdmittedSince ==
  ASSUME NEW p \in Peers, Sound(st[p]), NEW m, m.op # "begin",
         Since(p, st[p], m, st[p]), NEW k \in Tick, NEW c \in Choice
  PROVE  Since(p, st[p], m, Admitted(p, k, c))
<1> DEFINE b == st[p]
           g == [b EXCEPT !.known = k]
           r == Reconciled(p, k, c)
           e == Pumped(p, k, c)
           f == Prepared(e, c.differs)
           N == {}
<1>1. c.expired \in BOOLEAN /\ c.willing \in BOOLEAN /\ c.differs \in BOOLEAN
  BY DEF Choice
<1>2. Sound(g)
  BY KnownSound
<1>3. b \in Peer /\ g \in Peer
  BY <1>2 DEF Sound, Shape
<1>4. SameRun(b, g) /\ SameEpisode(b, g) /\ g.seq = b.seq /\ g.out = b.out \cup N
  BY <1>3 DEF Peer, SameRun, SameEpisode
<1>5. r = Reconcile(p, g, c.willing) /\ e = Pump(r, c.expired, c.willing)
  BY DEF Reconciled, Pumped
<1>6. Admitted(p, k, c) = IF Stalled(e) THEN e ELSE f
  BY DEF Admitted
<1>7. \A x : Aside(N, x, m)
  BY DEF Aside
<1>8. Since(p, b, m, b)
  OBVIOUS
<1> HIDE DEF b, g, r, e
<1>9. Since(p, b, m, g)
  <2> HIDE DEF N
  <2>. QED BY <1>3, <1>4, <1>7, <1>8, SinceSame
<1>10. Since(p, b, m, r) /\ Sound(r)
  BY <1>1, <1>2, <1>3, <1>5, <1>9, ReconcileSince, ReconcileSound
<1>11. Since(p, b, m, e) /\ Sound(e)
  BY <1>1, <1>3, <1>5, <1>10, PumpSince, PumpSound
<1>12. Since(p, b, m, f)
  <2>1. e \in Peer
    BY <1>11 DEF Sound, Shape
  <2>2. f \in Peer /\ SameRun(e, f)
    <3>1. Sound(f) /\ SameRun(e, f)
      BY <1>1, <1>11, PreparedSound
    <3> HIDE DEF f
    <3>. QED BY <3>1 DEF Sound, Shape
  <2>3. SameEpisode(e, f) /\ f.seq = e.seq /\ f.out = e.out \cup N
    BY <2>1 DEF Prepared, Peer, SameEpisode
  <2> HIDE DEF f, N
  <2>. QED BY <1>3, <1>7, <1>11, <2>1, <2>2, <2>3, SinceSame
<1>. QED BY <1>6, <1>11, <1>12 DEF b

\* What a step that leaves the link as it may be comes from: a message taken, or none.
LEMMA LinkStep ==
  ASSUME IInv, Link, NEW p \in Peers, NEW m, NEW taken, NEW c, Sound(c),
         Since(p, st[p], m, c), Step(p, c, taken),
         \/ m = NoMessage /\ taken = {}
         \/ \E e \in net : e.to = p /\ m = e.msg /\ taken = {e}
  PROVE  Link'
<1> DEFINE b == st[p]
           o == Other(p)
           d == [c EXCEPT !.out = {}]
           New == {[to |-> o, msg |-> x] : x \in c.out}
\* The peers and what is on the link.
<1>1. /\ b \in Peer /\ c \in Peer /\ Episode(b) /\ Episode(c)
      /\ \A q \in Peers : st[q] \in Peer /\ Episode(st[q])
  BY DEF IInv, Sound, Shape
<1>2. /\ o \in Peers /\ o # p /\ Other(o) = p
      /\ \A q \in Peers : (q = p \/ q = o) /\ Other(q) \in Peers /\ Other(Other(q)) = q
  BY DEF Peers, Other
<1>3. st' = [st EXCEPT ![p] = d] /\ net' \subseteq (net \ taken) \cup New
  BY DEF Step
<1>4. st'[p] = d /\ st'[o] = st[o]
  BY <1>2, <1>3 DEF IInv
<1>5. /\ d.out = {} /\ d.seq = c.seq /\ d.epoch = c.epoch /\ d.peerPost = c.peerPost
      /\ \A T, D : Answer(d, T, D) <=> Answer(c, T, D)
  BY <1>1 DEF Peer, Answer, Reran
<1>6. /\ b.seq \in Nat /\ c.seq \in Nat /\ b.seq <= c.seq /\ st[o].seq \in Nat
      /\ b.epoch \in Epoch /\ c.epoch \in Epoch /\ st[o].epoch \in Epoch
  BY <1>1, <1>2, PeerFields DEF Since
<1>7. /\ \A e \in net : e.to \in Peers /\ e.msg \in Message /\ e.msg.epoch \in Epoch
                        /\ (e.msg.op = "begin" => e.msg.epoch \in Called)
                        /\ (e.msg.op = "post" => /\ e.msg.target \in Tick
                                                 /\ e.msg.digest \in Machine)
      /\ \A x \in c.out : x.epoch \in Epoch
                          /\ (x.op = "post" => x.target \in Tick /\ x.digest \in Machine)
  <2>1. \A e \in net : e.to \in Peers /\ e.msg \in Message
    BY DEF IInv, Envelope
  <2>2. \A x \in c.out : x \in Message
    BY <1>1, PeerFields
  <2>. QED BY <2>1, <2>2, MessageFields DEF Begin
<1>8. /\ Numbered(b.epoch) /\ Numbered(st[o].epoch)
      /\ \A e \in net : Numbered(e.msg.epoch)
  BY <1>2 DEF Link
\* No number counted to so far is one that an episode opened in this step has.
<1>9. \A f \in Epoch : Numbered(f) => ~OpenedSince(p, b, c, f)
  <2> SUFFICES ASSUME NEW f \in Epoch, Numbered(f), OpenedSince(p, b, c, f) PROVE FALSE
    OBVIOUS
  <2>1. f[1] = p /\ b.seq < f[2] /\ f[2] <= b.seq /\ f[2] \in Nat
    BY DEF OpenedSince, Numbered, Epoch
  <2>. QED BY <1>6, <2>1
\* The message taken is of the link, and a BEGIN of an episode that p was not in and
\* that o is the owner of.
<1>10. /\ m.epoch \in Epoch /\ Numbered(m.epoch)
       /\ m.op = "begin" => /\ m.epoch[1] = o /\ m.epoch # b.epoch
                            /\ \A e \in net \ taken : e.msg.epoch = m.epoch =>
                                 e.msg.op # "begin" /\ (e.msg.op = "post" => e.to = p)
                            /\ st[o].epoch = m.epoch => st[o].peerPost = None
  <2>1. CASE m = NoMessage /\ taken = {}
    <3>1. NoEpoch \in Epoch /\ Numbered(NoEpoch)
      <4>1. 0 \in Peers /\ st[0].seq \in Nat
        BY <1>1, PeerFields DEF Peers
      <4>. QED BY <4>1 DEF NoEpoch, Epoch, Numbered
    <3>. QED BY <2>1, <3>1 DEF NoMessage
  <2>2. ASSUME NEW e \in net, e.to = p, m = e.msg, taken = {e}
        PROVE  /\ m.epoch \in Epoch /\ Numbered(m.epoch)
               /\ m.op = "begin" => /\ m.epoch[1] = o /\ m.epoch # b.epoch
                                    /\ \A f \in net \ taken : f.msg.epoch = m.epoch =>
                                         f.msg.op # "begin" /\ (f.msg.op = "post" => f.to = p)
                                    /\ st[o].epoch = m.epoch => st[o].peerPost = None
    <3>1. m.epoch \in Epoch /\ Numbered(m.epoch)
      BY <1>7, <1>8, <2>2
    <3>2. ASSUME m.op = "begin"
          PROVE  /\ m.epoch[1] = o /\ m.epoch # b.epoch
                 /\ \A f \in net \ taken : f.msg.epoch = m.epoch =>
                      f.msg.op # "begin" /\ (f.msg.op = "post" => f.to = p)
                 /\ st[o].epoch = m.epoch => st[o].peerPost = None
      <4>1. BeginOnLink(e)
        BY <2>2, <3>2 DEF Link
      <4>2. m.epoch[1] \in Peers /\ p = Other(m.epoch[1])
        BY <2>2, <3>1, <4>1 DEF BeginOnLink, Epoch
      <4>3. m.epoch[1] = o
        BY <1>2, <4>2
      <4>. QED BY <2>2, <4>1, <4>3 DEF BeginOnLink
    <3>. QED BY <3>1, <3>2
  <2>. QED BY <2>1, <2>2
<1>11. m.op = "post" /\ m.epoch = b.epoch =>
         /\ \E e \in net : e.to = p /\ e.msg = m
         /\ st[o].epoch = b.epoch => Answer(st[o], m.target, m.digest)
  <2> SUFFICES ASSUME m.op = "post", m.epoch = b.epoch
               PROVE  /\ \E e \in net : e.to = p /\ e.msg = m
                      /\ st[o].epoch = b.epoch => Answer(st[o], m.target, m.digest)
    OBVIOUS
  <2>1. PICK e \in net : e.to = p /\ m = e.msg
    BY DEF NoMessage
  <2>2. PostOnLink(e)
    BY <2>1 DEF Link
  <2>. QED BY <2>1, <2>2 DEF PostOnLink
\* Where the step may have left p.
<1>12. \/ c.epoch \in {b.epoch, NoEpoch} \/ OpenedSince(p, b, c, c.epoch)
       \/ m.op = "begin" /\ c.epoch = m.epoch
  BY DEF Since
<1>13. /\ c.epoch = b.epoch /\ c.epoch # NoEpoch => StillIn(b, m, c)
       /\ c.epoch # b.epoch => c.peerPost = None
  BY DEF Since
<1>14. \A x \in c.out :
         /\ x.epoch \in {b.epoch, NoEpoch, m.epoch} \/ OpenedSince(p, b, c, x.epoch)
         /\ x.op = "begin" => /\ OpenedSince(p, b, c, x.epoch)
                              /\ \A y \in c.out : y.op = "begin" /\ y.epoch = x.epoch => y = x
         /\ x.op = "post" => /\ x.epoch # NoEpoch
                             /\ x.epoch = b.epoch \/ OpenedSince(p, b, c, x.epoch)
                             /\ x.epoch = c.epoch => Answer(c, x.target, x.digest)
  BY DEF Since, SentSince
\* A message of the link that is there after the step was there or is new.
<1>15. \A e \in net' : \/ e \in net /\ e \notin taken
                       \/ e.to = o /\ e.msg \in c.out /\ e = [to |-> o, msg |-> e.msg]
  BY <1>3
<1>16. \A q \in Peers : /\ q = p => st'[q] = d
                        /\ q = o => st'[q] = st[o]
  BY <1>4
<1> HIDE DEF b, o, d, New
\* The numbers.
<1>17. \A f \in Epoch : Numbered(f) => f[2] <= st'[f[1]].seq
  <2> SUFFICES ASSUME NEW f \in Epoch, Numbered(f) PROVE f[2] <= st'[f[1]].seq
    OBVIOUS
  <2>1. f[1] \in Peers /\ f[2] \in Nat /\ f[2] <= st[f[1]].seq
    BY DEF Numbered, Epoch
  <2>2. CASE f[1] = p
    BY <1>5, <1>6, <1>16, <2>1, <2>2 DEF b
  <2>3. CASE f[1] = o
    BY <1>16, <2>1, <2>3
  <2>. QED BY <1>2, <2>1, <2>2, <2>3
<1>18. \A f \in Epoch : OpenedSince(p, b, c, f) => f[2] <= st'[f[1]].seq
  BY <1>5, <1>16 DEF OpenedSince
<1>19. NoEpoch \in Epoch /\ NoEpoch[2] <= st'[NoEpoch[1]].seq
  <2>1. NoEpoch \in Epoch /\ NoEpoch[1] = 0 /\ NoEpoch[2] = 0 /\ 0 \in Peers
    BY DEF NoEpoch, Epoch, Peers
  <2>2. st'[0].seq \in Nat
    BY <1>2, <1>5, <1>6, <1>16, <2>1
  <2>. QED BY <2>1, <2>2
<1>20. \A e \in net' : e.msg.epoch[2] <= st'[e.msg.epoch[1]].seq
  BY <1>6, <1>7, <1>8, <1>10, <1>14, <1>15, <1>17, <1>18, <1>19
<1>21. \A q \in Peers : st'[q].out = {} /\ st'[q].epoch[2] <= st'[st'[q].epoch[1]].seq
  <2>1. st[o].out = {}
    BY <1>2 DEF Link
  <2>2. c.epoch[2] <= st'[c.epoch[1]].seq
    BY <1>6, <1>8, <1>10, <1>12, <1>17, <1>18, <1>19
  <2>3. st[o].epoch[2] <= st'[st[o].epoch[1]].seq
    BY <1>6, <1>8, <1>17
  <2>. QED BY <1>2, <1>5, <1>16, <2>1, <2>2, <2>3
\* The BEGINs.
<1>22. ASSUME NEW e \in net', e.msg.op = "begin", e \in net, e \notin taken
       PROVE  BeginOnLink(e)'
  <2> DEFINE q == e.msg.epoch[1]
  <2>1. /\ e.to = Other(q) /\ st[e.to].epoch # e.msg.epoch
        /\ st[q].epoch = e.msg.epoch => st[q].peerPost = None
        /\ \A f \in net : f.msg.epoch = e.msg.epoch =>
             /\ f.msg.op = "begin" => f = e
             /\ f.msg.op = "post" => f.to = e.to
    BY <1>22 DEF Link, BeginOnLink
  <2>2. /\ e.msg.epoch \in Epoch /\ e.msg.epoch # NoEpoch /\ Numbered(e.msg.epoch)
        /\ q \in Peers /\ e.to \in Peers
    BY <1>7, <1>8, <1>22 DEF Called, Epoch
  <2>3. ~OpenedSince(p, b, c, e.msg.epoch)
    BY <1>9, <2>2
  <2>4. ~(m.op = "begin" /\ m.epoch = e.msg.epoch)
    BY <1>10, <1>22
  <2>5. c.epoch = e.msg.epoch => b.epoch = e.msg.epoch
    BY <1>12, <2>2, <2>3, <2>4
  <2>6. st'[e.to].epoch # e.msg.epoch
    BY <1>2, <1>5, <1>16, <2>1, <2>2, <2>5 DEF b
  <2>7. ASSUME st'[q].epoch = e.msg.epoch PROVE st'[q].peerPost = None
    <3>1. CASE q = o
      BY <1>16, <2>1, <2>2, <2>7, <3>1
    <3>2. CASE q = p
      <4>1. c.epoch = e.msg.epoch /\ b.epoch = e.msg.epoch /\ b.peerPost = None
        BY <1>5, <1>16, <2>1, <2>2, <2>5, <2>7, <3>2 DEF b
      <4>2. ~(m.op = "post" /\ m.epoch = b.epoch)
        <5> SUFFICES ASSUME m.op = "post", m.epoch = b.epoch PROVE FALSE
          OBVIOUS
        <5>1. PICK f \in net : f.to = p /\ f.msg = m
          BY <1>11
        <5>2. f.to = e.to
          BY <2>1, <4>1, <5>1
        <5>. QED BY <1>2, <2>1, <3>2, <5>1, <5>2 DEF o
      <4>3. StillIn(b, m, c)
        BY <1>13, <2>2, <4>1
      <4>. QED BY <1>5, <1>16, <2>2, <3>2, <4>1, <4>2, <4>3 DEF StillIn
    <3>. QED BY <1>2, <2>2, <3>1, <3>2
  <2>8. ASSUME NEW f \in net', f.msg.epoch = e.msg.epoch
        PROVE  /\ f.msg.op = "begin" => f = e
               /\ f.msg.op = "post" => f.to = e.to
    <3>1. CASE f \in net
      BY <2>1, <2>8, <3>1
    <3>2. CASE f.to = o /\ f.msg \in c.out
      <4>1. f.msg.op # "begin"
        BY <1>14, <2>3, <2>8, <3>2
      <4>2. ASSUME f.msg.op = "post" PROVE f.to = e.to
        <5>1. b.epoch = e.msg.epoch
          BY <1>14, <2>3, <2>8, <3>2, <4>2
        <5>2. e.to # p
          BY <2>1, <5>1 DEF b
        <5>. QED BY <1>2, <2>2, <3>2, <5>2
      <4>. QED BY <4>1, <4>2
    <3>. QED BY <1>15, <3>1, <3>2
  <2>. QED BY <2>1, <2>6, <2>7, <2>8 DEF BeginOnLink
<1>23. ASSUME NEW e \in net', e.msg.op = "begin", e.to = o, e.msg \in c.out,
              e = [to |-> o, msg |-> e.msg]
       PROVE  BeginOnLink(e)'
  <2>1. OpenedSince(p, b, c, e.msg.epoch) /\ e.msg.epoch \in Epoch /\ e.msg.epoch[1] = p
    BY <1>7, <1>14, <1>23 DEF OpenedSince
  <2>2. \A f \in Epoch : Numbered(f) => f # e.msg.epoch
    BY <1>9, <2>1
  <2>3. b.epoch # e.msg.epoch /\ st[o].epoch # e.msg.epoch
    BY <1>6, <1>8, <2>2
  <2>4. st'[e.to].epoch # e.msg.epoch
    BY <1>2, <1>16, <1>23, <2>3
  <2>5. st'[p].epoch = e.msg.epoch => st'[p].peerPost = None
    BY <1>5, <1>13, <1>16, <2>3
  <2>6. ASSUME NEW f \in net', f.msg.epoch = e.msg.epoch
        PROVE  /\ f.msg.op = "begin" => f = e
               /\ f.msg.op = "post" => f.to = e.to
    <3>1. f \notin net
      BY <1>7, <1>8, <2>2, <2>6
    <3>2. f.to = o /\ f.msg \in c.out /\ f = [to |-> o, msg |-> f.msg]
      BY <1>15, <3>1
    <3>3. f.msg.op = "begin" => f.msg = e.msg
      BY <1>14, <1>23, <2>6, <3>2
    <3>. QED BY <1>23, <3>2, <3>3
  <2>7. e.to = Other(e.msg.epoch[1])
    BY <1>23, <2>1 DEF o
  <2>. QED BY <2>1, <2>4, <2>5, <2>6, <2>7 DEF BeginOnLink
\* The POSTs on the link.
<1>24. ASSUME NEW f \in net', f.msg.op = "post", f \in net, f \notin taken
       PROVE  PostOnLink(f)'
  <2>1. /\ f.msg.epoch # NoEpoch /\ f.msg.epoch \in Epoch /\ Numbered(f.msg.epoch)
        /\ st[Other(f.to)].epoch = f.msg.epoch
           => Answer(st[Other(f.to)], f.msg.target, f.msg.digest)
        /\ f.to \in Peers /\ f.msg.target \in Tick /\ f.msg.digest \in Machine
    BY <1>7, <1>8, <1>24 DEF Link, PostOnLink
  <2>2. CASE f.to = p
    <3>1. Other(f.to) = o /\ st'[o] = st[o]
      BY <1>2, <1>16, <2>2 DEF o
    <3>. QED BY <2>1, <3>1 DEF PostOnLink
  <2>3. CASE f.to = o
    <3>1. Other(f.to) = p /\ st'[p] = d
      BY <1>2, <1>16, <2>3
    <3>2. ASSUME c.epoch = f.msg.epoch PROVE Answer(c, f.msg.target, f.msg.digest)
      <4>1. ~OpenedSince(p, b, c, c.epoch)
        BY <1>9, <2>1, <3>2
      <4>2. ~(m.op = "begin" /\ c.epoch = m.epoch)
        BY <1>2, <1>10, <1>24, <2>3, <3>2
      <4>3. b.epoch = f.msg.epoch
        BY <1>12, <2>1, <3>2, <4>1, <4>2
      <4>4. Answer(b, f.msg.target, f.msg.digest)
        BY <2>1, <3>1, <4>3 DEF b
      <4>5. StandsBy(b, c)
        BY <1>13, <2>1, <3>2, <4>3 DEF StillIn
      <4>. QED BY <2>1, <4>4, <4>5 DEF StandsBy
    <3>. QED BY <1>5, <2>1, <3>1, <3>2 DEF PostOnLink
  <2>. QED BY <1>2, <2>1, <2>2, <2>3
<1>25. ASSUME NEW f \in net', f.msg.op = "post", f.to = o, f.msg \in c.out
       PROVE  PostOnLink(f)'
  <2>1. Other(f.to) = p /\ st'[p] = d
    BY <1>2, <1>16, <1>25
  <2>2. /\ f.msg.epoch # NoEpoch
        /\ f.msg.epoch = c.epoch => Answer(c, f.msg.target, f.msg.digest)
    BY <1>14, <1>25
  <2>. QED BY <1>5, <2>1, <2>2 DEF PostOnLink
\* The POSTs taken.
<1>26. \A q \in Peers : st[q].peerPost # None =>
         /\ st[q].epoch # NoEpoch
         /\ st[q].peerPost.target \in Tick /\ st[q].peerPost.digest \in Machine
  <2> SUFFICES ASSUME NEW q \in Peers, st[q].peerPost # None
               PROVE  /\ st[q].epoch # NoEpoch
                      /\ st[q].peerPost.target \in Tick /\ st[q].peerPost.digest \in Machine
    OBVIOUS
  <2>1. st[q].peerPost \in Post
    BY <1>1, PeerFields
  <2>. QED BY <1>1, <2>1 DEF Episode, Post
<1>27. PostTaken(p)'
  <2> SUFFICES ASSUME c.peerPost # None, st[o].epoch = c.epoch
               PROVE  Answer(st[o], c.peerPost.target, c.peerPost.digest)
    BY <1>2, <1>5, <1>16 DEF PostTaken, o
  <2>1. c.epoch # NoEpoch
    BY <1>1 DEF Episode
  <2>2. c.epoch = b.epoch /\ StillIn(b, m, c)
    BY <1>13, <2>1
  <2>3. CASE c.peerPost = b.peerPost
    <3>1. PostTaken(p)
      BY DEF Link
    <3>. QED BY <2>2, <2>3, <3>1 DEF PostTaken, o, b
  <2>4. CASE m.op = "post" /\ m.epoch = b.epoch
             /\ c.peerPost = [target |-> m.target, digest |-> m.digest]
    BY <1>11, <2>2, <2>4
  <2>. QED BY <2>2, <2>3, <2>4 DEF StillIn
<1>28. PostTaken(o)'
  <2> SUFFICES ASSUME st[o].peerPost # None, c.epoch = st[o].epoch
               PROVE  Answer(c, st[o].peerPost.target, st[o].peerPost.digest)
    BY <1>2, <1>5, <1>16 DEF PostTaken
  <2>1. /\ st[o].epoch # NoEpoch /\ st[o].peerPost.target \in Tick
        /\ st[o].peerPost.digest \in Machine
    BY <1>2, <1>26
  <2>2. ~OpenedSince(p, b, c, c.epoch)
    BY <1>6, <1>8, <1>9
  <2>3. ~(m.op = "begin" /\ c.epoch = m.epoch)
    BY <1>10
  <2>4. b.epoch = st[o].epoch
    BY <1>12, <2>1, <2>2, <2>3
  <2>5. Answer(b, st[o].peerPost.target, st[o].peerPost.digest)
    <3>1. PostTaken(o)
      BY <1>2 DEF Link
    <3>. QED BY <1>2, <2>4, <3>1 DEF PostTaken, b
  <2>6. StandsBy(b, c)
    BY <1>13, <2>1, <2>4 DEF StillIn
  <2>. QED BY <2>1, <2>5, <2>6 DEF StandsBy
<1>29. \A q \in Peers : st'[q].out = {} /\ Numbered(st[q].epoch)' /\ PostTaken(q)'
  BY <1>2, <1>21, <1>27, <1>28 DEF Numbered
<1>30. ASSUME NEW e \in net'
       PROVE  /\ Numbered(e.msg.epoch)'
              /\ e.msg.op = "begin" => BeginOnLink(e)'
              /\ e.msg.op = "post" => PostOnLink(e)'
  BY <1>15, <1>20, <1>22, <1>23, <1>24, <1>25 DEF Numbered
<1>. QED BY <1>29, <1>30 DEF Link

\* The first messages are yet to be sent.
LEMMA InitLink == Init => Link
<1> SUFFICES ASSUME Init PROVE Link
  OBVIOUS
<1>1. \A p \in Peers : /\ st[p].out = {} /\ st[p].epoch = NoEpoch /\ st[p].seq = 0
                       /\ st[p].peerPost = None
  BY DEF Init
<1>2. NoEpoch[1] \in Peers /\ NoEpoch[2] = 0
  BY DEF NoEpoch, Peers
<1>3. Numbered(NoEpoch)
  BY <1>1, <1>2 DEF Numbered
<1>4. net = {}
  BY DEF Init
<1>. QED BY <1>1, <1>3, <1>4 DEF Link, PostTaken

\* Every step of the system leaves the link bearing its senders out.
LEMMA NextLink == IInv /\ Link /\ [Next]_vars => Link'
<1> SUFFICES ASSUME IInv, Link, [Next]_vars PROVE Link'
  OBVIOUS
<1>1. CASE UNCHANGED vars
  BY <1>1 DEF vars, Link, Numbered, PostTaken, BeginOnLink, PostOnLink
<1>2. \A p \in Peers : \A m : Since(p, st[p], m, st[p])
  <2> SUFFICES ASSUME NEW p \in Peers, NEW m PROVE Since(p, st[p], m, st[p])
    OBVIOUS
  <2> DEFINE b == st[p]
  <2>1. b \in Peer /\ b.out = {} /\ (b.epoch[1] = p => b.epoch[2] <= b.seq)
    BY DEF IInv, Link, Numbered
  <2> HIDE DEF b
  <2>2. Since(p, b, m, b)
    BY <2>1, SinceItself
  <2>. QED BY <2>2 DEF b
<1>3. ASSUME NEW e \in net, NEW w \in BOOLEAN, Take(e, w) PROVE Link'
  <2> DEFINE p == e.to
             b == st[p]
             m == e.msg
             c == Handled(p, b, m, w)
  <2>1. p \in Peers /\ m \in Message
    BY DEF IInv, Envelope
  <2>2. Sound(b) /\ b.out = {} /\ Since(p, b, m, b)
    BY <1>2, <2>1 DEF IInv, Link
  <2>3. m.op = "begin" => m.epoch # b.epoch
    BY DEF Link, BeginOnLink
  <2>4. Step(p, c, {e})
    BY <1>3 DEF Take
  <2> HIDE DEF m
  <2>5. Sound(c) /\ Since(p, b, m, c)
    <3> HIDE DEF b, p
    <3>. QED BY <2>1, <2>2, <2>3, HandledSound, HandledSince
  <2>6. \E f \in net : f.to = p /\ m = f.msg /\ {e} = {f}
    BY DEF m
  <2> HIDE DEF c, p
  <2>. QED BY <2>1, <2>4, <2>5, <2>6, LinkStep DEF b
<1>4. ASSUME NEW p \in Peers, NEW k \in Arrived(p), NEW c \in Choice, Poll(p, k, c)
      PROVE  Link'
  <2> DEFINE b == st[p]
             r == Admitted(p, k, c)
             m == NoMessage
             N == {}
  <2>1. Sound(r) /\ Since(p, b, m, r)
    <3>1. k \in Tick /\ Sound(st[p]) /\ m.op # "begin"
      BY DEF Arrived, IInv, NoMessage
    <3>2. Since(p, st[p], m, st[p])
      BY <1>2
    <3> HIDE DEF m
    <3>. QED BY <3>1, <3>2, AdmittedSound, AdmittedSince
  <2>2. b \in Peer
    BY DEF IInv
  <2>3. \E wrong \in BOOLEAN : \E n \in {r, Frame(r, wrong)} :
          /\ Step(p, n, N)
          /\ n # r => MayRun(r)
          /\ wrong => ~HasRow(r)
    BY <1>4, PollCases
  <2>4. m = NoMessage /\ N = {}
    OBVIOUS
  <2> HIDE DEF r, m, N, b
  <2>5. PICK wrong \in BOOLEAN : \E n \in {r, Frame(r, wrong)} :
          /\ Step(p, n, N)
          /\ n # r => MayRun(r)
          /\ wrong => ~HasRow(r)
    BY <2>3
  <2>6. PICK n \in {r, Frame(r, wrong)} :
          /\ Step(p, n, N)
          /\ n # r => MayRun(r)
          /\ wrong => ~HasRow(r)
    BY <2>5
  <2>7. Sound(n) /\ Since(p, b, m, n)
    <3>1. CASE n = r
      BY <2>1, <3>1
    <3>2. CASE n # r /\ n = Frame(r, wrong)
      <4>1. MayRun(r) /\ (wrong => ~HasRow(r))
        BY <2>6, <3>2
      <4>2. r.stage # "sealing" /\ r.sim < MaxTick
        BY <4>1 DEF MayRun, Stalled
      <4>3. Sound(Frame(r, wrong))
        BY <2>1, <4>1, RanSound
      <4>4. Since(p, b, m, Frame(r, wrong))
        BY <2>1, <2>2, <4>2, FrameSince
      <4>. QED BY <3>2, <4>3, <4>4
    <3>. QED BY <2>6, <3>1, <3>2
  <2>8. Since(p, st[p], m, n)
    BY <2>7 DEF b
  <2>. QED BY <2>4, <2>6, <2>7, <2>8, LinkStep
<1>5. CASE Next
  BY <1>3, <1>4, <1>5 DEF Next
<1>. QED BY <1>1, <1>5

\* Rollback.Spec keeps the two invariants.
LEMMA LinkInvariance == Spec => [](IInv /\ Link)
BY InitIInv, NextIInv, InitLink, NextLink, PTL DEF Spec

\* The stages that operations lead to.
LEMMA NewStages ==
  ASSUME NEW r \in Peer
  PROVE  /\ \A x : Send(r, x).stage = r.stage
         /\ \A t : Extended(r, t).stage = "sealing"
         /\ \A class : Abort(r, class).stage = "idle"
         /\ Clear(r).stage = "idle"
<1>1. \A x : Send(r, x).stage = r.stage
  BY DEF Send, Peer
<1>2. \A t : Extended(r, t).stage = "sealing"
  BY DEF Extended, SendRows, Send, Peer
<1>3. \A class : Abort(r, class).stage = "idle"
  BY DEF Abort, Clear, Send, Peer
<1>4. Clear(r).stage = "idle"
  BY DEF Clear, Peer
<1>. QED BY <1>1, <1>2, <1>3, <1>4

\* A call taken on by an idle peer holds no tip.
LEMMA FollowerHoldsNoTip ==
  ASSUME NEW r, Sound(r), r.stage = "idle", NEW m \in Begin, NEW willing
  PROVE  BeginAsFollower(r, m, willing).stage \in {"idle", "sealing"}
<1> DEFINE c == RowsRead(r, m.target)
           R == {u \in m.load .. m.target : Confirmed(c, u)}
           n == SendRows(Opened(c, m.epoch, m.load, m.target, FALSE, R))
           a == BeginAsFollower(r, m, willing)
<1>1. m.target \in Tick
  BY DEF Begin
<1>2. r \in Peer /\ c \in Peer /\ SameEpisode(r, c)
  BY <1>1, RowsReadSound DEF Sound, Shape
<1>3. a \in {Nack(r, m), Nack(c, m), c, n}
  BY DEF BeginAsFollower
<1> HIDE DEF a, R, c
<1>4. c.stage = "idle"
  BY <1>2 DEF SameEpisode
<1>5. Nack(r, m).stage = "idle"
  BY <1>2, NewStages DEF Nack
<1>6. Nack(c, m).stage = "idle"
  BY <1>2, <1>4, NewStages DEF Nack
<1>7. n.stage = "sealing"
  <2> DEFINE o == Opened(c, m.epoch, m.load, m.target, FALSE, R)
  <2>1. o.stage = "sealing"
    BY <1>2 DEF Opened, Peer
  <2>2. o = [c EXCEPT !.stage = "sealing", !.epoch = m.epoch, !.load = m.load,
                      !.target = m.target, !.initiator = FALSE, !.extends = 0,
                      !.rows = R, !.sealed = o.sealed]
    BY <1>2 DEF Opened, Peer
  <2> HIDE DEF o
  <2>. QED BY <1>2, <2>1, <2>2 DEF SendRows, Send, Peer, o
<1> HIDE DEF n
<1>8. a.stage \in {"idle", "sealing"}
  BY <1>3, <1>4, <1>5, <1>6, <1>7
<1>. QED BY <1>8 DEF a

\* No message makes a peer that verifies hold its tip.
LEMMA HandledHoldsNoTip ==
  ASSUME NEW p \in Peers, NEW r, Sound(r), r.stage = "verifying", NEW m \in Message,
         NEW willing
  PROVE  Handled(p, r, m, willing).stage # "tiphold"
<1>1. r \in Peer /\ Shape(r)
  BY DEF Sound, Shape
<1>2. /\ m.op \in {"begin", "extend", "nack", "abort", "commit", "rows", "base", "post"}
      /\ m.op = "begin" => m \in Begin
      /\ m.op \in {"extend", "post"} => m.target \in Tick
      /\ m.op \in {"base", "post"} => m.digest \in Machine
  BY MessageFields
<1>3. Nack(r, m).stage = "verifying"
  BY <1>1, NewStages DEF Nack
<1>4. CASE m.op = "begin"
  <2>1. Sound(Clear(r)) /\ Clear(r).stage = "idle"
    BY ClearSound
  <2>2. BeginAsFollower(Clear(r), m, willing).stage \in {"idle", "sealing"}
    <3> DEFINE c == Clear(r)
    <3>1. Sound(c) /\ c.stage = "idle" /\ m \in Begin
      BY <1>2, <1>4, <2>1
    <3> HIDE DEF c
    <3>2. BeginAsFollower(c, m, willing).stage \in {"idle", "sealing"}
      BY <3>1, FollowerHoldsNoTip
    <3>. QED BY <3>2 DEF c
  <2>3. OnBegin(p, r, m, willing).stage # "tiphold"
    BY <1>3, <2>2 DEF OnBegin
  <2>. QED BY <1>4, <2>3 DEF Handled
<1>5. CASE m.op = "extend"
  <2> DEFINE target == Max({m.target, r.target})
             c == IF MayExtend(r) THEN RowsRead(r, target) ELSE r
  <2>1. c \in Peer
    <3>1. target \in Tick
      <4>1. /\ m.target \in Tick /\ r.target \in Tick /\ m.target \in Nat
            /\ r.target \in Nat
        BY <1>1, <1>2, <1>5, PeerFields, TickFinite
      <4>2. target = IF m.target >= r.target THEN m.target ELSE r.target
        BY <4>1, MaxOfTwo
      <4> HIDE DEF target
      <4>. QED BY <4>1, <4>2
    <3> HIDE DEF target
    <3>2. RowsRead(r, target) \in Peer
      BY <3>1, RowsReadSound DEF Sound, Shape
    <3>. QED BY <1>1, <3>2
  <2>2. OnExtend(r, m, willing) \in {Extended(c, target), Abort(c, "realign"), Nack(r, m)}
    BY DEF OnExtend
  <2> HIDE DEF c, target
  <2>3. /\ Extended(c, target).stage = "sealing"
        /\ Abort(c, "realign").stage = "idle"
    BY <2>1, NewStages
  <2>4. OnExtend(r, m, willing).stage # "tiphold"
    BY <1>3, <2>2, <2>3
  <2>. QED BY <1>5, <2>4 DEF Handled
<1>6. CASE m.op = "nack"
  <2>1. OnNack(r, m).stage # "tiphold"
    BY <1>1, NewStages DEF OnNack
  <2>. QED BY <1>6, <2>1 DEF Handled
<1>7. CASE m.op = "abort"
  <2>1. OnAbort(r, m).stage # "tiphold"
    BY <1>1 DEF OnAbort, Clear, Peer
  <2>. QED BY <1>7, <2>1 DEF Handled
<1>8. CASE m.op = "commit"
  <2>1. OnCommit(r, m) = r
    BY DEF OnCommit
  <2>. QED BY <1>8, <2>1 DEF Handled
<1>9. CASE m.op = "rows"
  <2>1. OnRows(r, m).stage # "tiphold"
    BY <1>1 DEF OnRows, Peer
  <2>. QED BY <1>9, <2>1 DEF Handled
<1>10. CASE m.op = "base"
  <2> DEFINE c == [r EXCEPT !.peerBase = m.digest]
  <2>1. m.digest \in Baselines
    BY <1>2, <1>10 DEF Baselines
  <2>2. /\ c \in Peer /\ c.stage = r.stage /\ c.epoch = r.epoch /\ c.load = r.load
        /\ c.target = r.target /\ c.rows = r.rows /\ c.sealed = r.sealed
        /\ c.base = r.base /\ c.guessed = r.guessed /\ c.missed = r.missed
        /\ c.peerPost = r.peerPost /\ c.sim = r.sim /\ c.snaps = r.snaps
    BY <1>1, <2>1 DEF Peer
  <2>3. OnBase(r, m) \in {r, CompareBase(c)}
    BY DEF OnBase
  <2> HIDE DEF c
  <2>4. Shape(c)
    BY <1>1, <2>2 DEF Shape, Episode, Span
  <2>5. CompareBase(c).stage # "tiphold"
    BY <2>2, <2>4, CompareBaseShape DEF SameEpisode
  <2>6. OnBase(r, m).stage # "tiphold"
    BY <2>3, <2>5
  <2>. QED BY <1>10, <2>6 DEF Handled
<1>11. CASE m.op = "post"
  <2>1. OnPost(r, m).stage # "tiphold"
    BY <1>1 DEF OnPost, Peer
  <2>. QED BY <1>11, <2>1 DEF Handled
<1>. QED BY <1>2, <1>4, <1>5, <1>6, <1>7, <1>8, <1>9, <1>10, <1>11

\* A poll finds a peer that verifies as it left it, whatever rows came.
LEMMA ReconcileVerifying ==
  ASSUME NEW p, NEW r \in Peer, r.stage = "verifying", NEW willing, NEW c,
         c = Reconcile(p, r, willing)
  PROVE  /\ c.stage = "verifying" /\ c.target = r.target /\ c.mach = r.mach
         /\ c.peerPost = r.peerPost
<1>1. \A T : LET k == Promoted(r, T)
             IN  /\ k.stage = "verifying" /\ k.target = r.target /\ k.mach = r.mach
                 /\ k.peerPost = r.peerPost
  BY DEF Promoted, Peer
<1>2. \A T, t : OnWrongRow(p, Promoted(r, T), t, willing) = Promoted(r, T)
  BY <1>1 DEF OnWrongRow
<1>3. \E T : c = Promoted(r, T)
  BY <1>2 DEF Reconcile
<1>. QED BY <1>1, <1>3

\* A peer goes on to hold a tip on a POST for its tip with its own digest.
LEMMA PumpCommits ==
  ASSUME NEW r, Sound(r), r.stage = "verifying", NEW x, NEW willing,
         Pump(r, x, willing).stage = "tiphold"
  PROVE  PostForTip(r) /\ Agree(r.mach, r.peerPost.digest)
<1> DEFINE f == [r EXCEPT !.forkSeen = TRUE]
           l == EnterLockstep(f)
<1>1. r \in Peer /\ Shape(r)
  BY DEF Sound, Shape
<1>2. Pump(r, x, willing) = Verify(r, x, willing)
  BY DEF Pump
<1>3. Abort(r, "abort").stage = "idle" /\ [r EXCEPT !.peerPost = None].stage = "verifying"
  BY <1>1, NewStages DEF Peer
<1>4. Abort(l, "abort").stage = "idle"
  <2>1. Shape(f)
    <3>1. f \in Peer /\ SameRun(r, f) /\ SameEpisode(r, f)
      BY <1>1 DEF Peer, SameRun, SameEpisode
    <3> HIDE DEF f
    <3>. QED BY <1>1, <3>1, SameShape
  <2> HIDE DEF f
  <2>2. l \in Peer
    BY <2>1, EnterLockstepShape DEF Shape
  <2> HIDE DEF l
  <2>. QED BY <2>2, NewStages
<1> HIDE DEF l, f
<1>5. Verify(r, x, willing) =
        IF PostForTip(r)
        THEN IF Agree(r.mach, r.peerPost.digest) THEN Commit(r, willing)
             ELSE Abort(l, "abort")
        ELSE IF x THEN Abort(r, "abort") ELSE [r EXCEPT !.peerPost = None]
  BY DEF Verify, l, f
<1>. QED BY <1>2, <1>3, <1>4, <1>5

\* rb_verify_try_commit(): whatever is lost, delayed or reordered, a peer commits a tip
\* only when the other, if it is still in the episode, is past it in the same state.
THEOREM TipsCommittedTogether == Spec => CommitsTogether
<1> DEFINE Step1 ==
      \A p \in Peers :
        LET T == st[p].target
            o == st[Other(p)]
        IN  Commits(p) /\ o.epoch = st[p].epoch
            => T < o.sim /\ Agree(UpTo(st[p].mach, T), UpTo(o.mach, T))
<1>1. IInv /\ Link /\ [Next]_vars => Step1
  <2> SUFFICES ASSUME IInv, Link, [Next]_vars, NEW p \in Peers, Commits(p),
                      st[Other(p)].epoch = st[p].epoch
               PROVE  /\ st[p].target < st[Other(p)].sim
                      /\ Agree(UpTo(st[p].mach, st[p].target),
                               UpTo(st[Other(p)].mach, st[p].target))
    OBVIOUS
  <2> DEFINE b == st[p]
  <2>1. b \in Peer /\ Sound(b) /\ b.stage = "verifying"
    BY DEF IInv, Commits
  <2>2. \A q \in Peers : \A c, taken : Step(q, c, taken) =>
          st'[p] = IF q = p THEN [c EXCEPT !.out = {}] ELSE st[p]
    BY DEF Step, IInv
  <2>3. ASSUME st'[p].stage = "tiphold"
        PROVE  PostForTip(b) /\ Agree(b.mach, b.peerPost.digest)
    <3>1. ~(UNCHANGED vars)
      BY <2>1, <2>3 DEF vars
    <3>2. ASSUME NEW e \in net, NEW w \in BOOLEAN, Take(e, w) PROVE FALSE
      <4> DEFINE c == Handled(e.to, st[e.to], e.msg, w)
      <4>1. e.to \in Peers /\ e.msg \in Message /\ Step(e.to, c, {e})
        BY <3>2 DEF IInv, Envelope, Take
      <4>2. e.to = p
        BY <2>1, <2>2, <2>3, <4>1
      <4>3. Sound(c) /\ c.stage # "tiphold"
        BY <2>1, <4>1, <4>2, HandledSound, HandledHoldsNoTip
      <4> HIDE DEF c
      <4>4. c \in Peer
        BY <4>3 DEF Sound, Shape
      <4>5. [c EXCEPT !.out = {}].stage = c.stage
        BY <4>4 DEF Peer
      <4>. QED BY <2>2, <2>3, <4>1, <4>2, <4>3, <4>5
    <3>3. ASSUME NEW q \in Peers, NEW k \in Arrived(q), NEW x \in Choice, Poll(q, k, x)
          PROVE  PostForTip(b) /\ Agree(b.mach, b.peerPost.digest)
      <4> DEFINE a == Admitted(q, k, x)
                 g == [b EXCEPT !.known = k]
                 r == Reconciled(p, k, x)
                 e == Pumped(p, k, x)
                 N == {}
      <4>1. \E wrong \in BOOLEAN : \E n \in {a, Frame(a, wrong)} : Step(q, n, N)
        BY <3>3, PollCases
      <4>2. k \in Tick /\ x.expired \in BOOLEAN /\ x.willing \in BOOLEAN
            /\ x.differs \in BOOLEAN
        BY DEF Arrived, Choice
      <4>3. Sound(a) /\ a \in Peer
        <5>1. Sound(st[q])
          BY DEF IInv
        <5>2. Sound(a)
          BY <4>2, <5>1, AdmittedSound
        <5> HIDE DEF a
        <5>. QED BY <5>2 DEF Sound, Shape
      <4> HIDE DEF a, N
      <4>4. PICK wrong \in BOOLEAN : \E n \in {a, Frame(a, wrong)} : Step(q, n, N)
        BY <4>1
      <4>5. PICK n \in {a, Frame(a, wrong)} : Step(q, n, N)
        BY <4>4
      <4>6. q = p
        BY <2>1, <2>2, <2>3, <4>5
      <4>7. [n EXCEPT !.out = {}].stage = a.stage
        <5>1. [a EXCEPT !.out = {}].stage = a.stage
              /\ [Frame(a, wrong) EXCEPT !.out = {}].stage = a.stage
          BY <4>3 DEF Frame, Peer
        <5>. QED BY <4>5, <5>1
      <4>8. a.stage = "tiphold"
        BY <2>2, <2>3, <4>5, <4>6, <4>7
      <4>9. Sound(g) /\ g \in Peer
        <5>1. Sound(g)
          BY <2>1, <4>2, KnownSound
        <5> HIDE DEF g
        <5>. QED BY <5>1 DEF Sound, Shape
      <4>10. g.stage = "verifying" /\ g.target = b.target /\ g.mach = b.mach
             /\ g.peerPost = b.peerPost
        BY <2>1 DEF Peer
      <4>11. r = Reconcile(p, g, x.willing)
        BY DEF Reconciled
      <4>12. e = Pump(r, x.expired, x.willing)
        BY DEF Pumped
      <4> HIDE DEF g, r, e
      <4>13. /\ r.stage = "verifying" /\ r.target = b.target /\ r.mach = b.mach
             /\ r.peerPost = b.peerPost /\ Sound(r)
        BY <4>2, <4>9, <4>10, <4>11, ReconcileSound, ReconcileVerifying
      <4>14. e \in Peer
        <5>1. Sound(e)
          BY <4>2, <4>12, <4>13, PumpSound
        <5>. QED BY <5>1 DEF Sound, Shape
      <4>15. e.stage = "tiphold"
        <5>1. a = IF Stalled(e) THEN e ELSE Prepared(e, x.differs)
          BY <4>6 DEF Admitted, a, e
        <5>2. Prepared(e, x.differs).stage = e.stage
          BY <4>14 DEF Prepared, Peer
        <5>. QED BY <4>8, <5>1, <5>2
      <4>16. PostForTip(r) /\ Agree(r.mach, r.peerPost.digest)
        BY <4>12, <4>13, <4>15, PumpCommits
      <4>. QED BY <4>13, <4>16 DEF PostForTip
    <3>. QED BY <3>1, <3>2, <3>3 DEF Next
  <2>4. PostForTip(b) /\ Agree(b.mach, b.peerPost.digest)
    BY <2>3 DEF Commits
  <2>5. Answer(st[Other(p)], b.target, b.peerPost.digest)
    BY <2>4 DEF Link, PostTaken, PostForTip
  <2>6. UpTo(st[Other(p)].mach, b.target) = UpTo(b.peerPost.digest, b.target)
        /\ b.target < st[Other(p)].sim
    BY <2>5 DEF Answer
  <2>7. Agree(UpTo(b.mach, b.target), UpTo(b.peerPost.digest, b.target))
    BY <2>4 DEF Agree, UpTo, AsOf
  <2>. QED BY <2>6, <2>7
<1>. QED BY <1>1, LinkInvariance, PTL DEF Spec, CommitsTogether
=============================================================================
