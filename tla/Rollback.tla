----------------------------- MODULE Rollback -----------------------------
(***************************************************************************)
(* Netplay rollback (runner/src/netplay/snes_netplay_rb.c): two peers run  *)
(* the same machine, each inventing the other's pad rows until they arrive.*)
(* A row that arrives different from the invention opens an episode on     *)
(* both sides: seal the rows of the span, load the snapshot before it, run *)
(* the span again, compare digests, hold the tip.                          *)
(*                                                                         *)
(* Data abstracted to what the properties tell apart:                      *)
(*  - the values of pad rows are not kept. The row of a peer for a tick is *)
(*    as it was sampled and sent first or, where the code samples a tick   *)
(*    again, odd: another one, that the other peer did not take. A row     *)
(*    invented for the other peer is the one it sent or wrong;             *)
(*  - a machine is the ticks it ran with a wrong row, the odd rows it ran  *)
(*    and the ticks it never ran. Two machines have equal digests iff      *)
(*    neither ran a wrong row and the rest is the same in both: a wrong    *)
(*    row differs from every row that its owner ran;                       *)
(*  - the other peer's rows arrive in order, so one horizon stands for them.*)
(*                                                                         *)
(* recomp-net (sessions, the episode engine) and rbengine (snapshot ring,  *)
(* history, scheduler gates) are not in the tree: they are modelled as the *)
(* code here uses them and as its comments describe them.                  *)
(*                                                                         *)
(* The link loses, delays and reorders messages: one in `net` may be taken *)
(* at any time or never. It does not duplicate them.                       *)
(***************************************************************************)
EXTENDS Integers, FiniteSets, FiniteSetsExt

CONSTANTS
  MaxTick,    \* bound: the match is watched up to this tick
  MaxMisses,  \* bound: rows invented wrong in a match
  MaxAgain,   \* bound: published rows sampled again with another pad
  Delay,      \* D: the pad sampled at tick T is the row of T + D
  Prediction, \* P: ticks a peer runs ahead of the rows it has
  Depth,      \* slots of the snapshot ring
  Runway,     \* ticks past the target a tip is held for
  MaxExtends, \* RB_MAX_TIP_EXTENDS
  Cooldown,   \* RB_COOLDOWN_TICKS
  Lockstep    \* RB_LOCKSTEP_TICKS_DEFAULT

VARIABLES
  st,     \* peer -> g_rb
  net,    \* messages on the link
  misses, \* rows invented wrong so far
  again   \* published rows that another sample has replaced so far

vars == <<st, net, misses, again>>

Peers    == {0, 1}
Other(p) == 1 - p
Tick     == 0 .. MaxTick - 1  \* the ticks that are watched
None     == [none |-> TRUE]
NoEpoch  == <<0, 0>>

ASSUME RollbackAssumption ==
  /\ MaxTick \in Nat /\ MaxMisses \in Nat /\ MaxAgain \in Nat /\ Delay <= MaxTick
  /\ Delay \in Nat \ {0} /\ Prediction \in Nat \ {0} /\ Depth \in Nat \ {0}
  /\ Runway \in Nat /\ MaxExtends \in Nat /\ Cooldown \in Nat /\ Lockstep \in Nat

---------------------------------------------------------------------------
(* One peer's g_rb as a record r. `out` is what the current step has sent. *)

Fresh == [wrong |-> {}, skipped |-> {}, odd |-> {}]

Agree(a, b) ==
  a.wrong = {} /\ b.wrong = {} /\ a.skipped = b.skipped /\ a.odd = b.odd

\* A machine as it was before tick t.
AsOf(mach, t) ==
  [wrong   |-> mach.wrong \cap 0 .. t - 1,
   skipped |-> mach.skipped \cap 0 .. t - 1,
   odd     |-> {x \in mach.odd : x[2] < t}]

Span(r) == r.load .. r.target

Send(r, m) == [r EXCEPT !.out = @ \cup {m}]

\* The rows of the other peer that the history holds confirmed.
Confirmed(r, t) == t < r.sim /\ t \notin r.guessed

\* Wrong rows of the machine and of the snapshots it may yet be loaded from.
Stored(r)   == UNION {r.snaps[t].wrong : t \in DOMAIN r.snaps}
WrongRan(r) == r.mach.wrong \cup Stored(r)

\* Mutant: the engine's session is not reset with g_rb.
ClearKeepsSession(r) ==
  [r EXCEPT !.stage = "idle", !.initiator = FALSE, !.epoch = NoEpoch,
            !.load = 0, !.target = 0, !.base = None,
            !.peerBase = None, !.peerPost = None]

\* rb_episode_clear()
Clear(r) ==
  [r EXCEPT !.stage = "idle", !.initiator = FALSE, !.epoch = NoEpoch,
            !.load = 0, !.target = 0, !.rows = {}, !.sealed = {}, !.base = None,
            !.peerBase = None, !.peerPost = None]

\* rb_episode_abort()
Abort(r, class) ==
  [Clear(Send(r, [op |-> "abort", epoch |-> r.epoch, class |-> class]))
     EXCEPT !.cooldown = r.sim + Cooldown]

\* rb_enter_lockstep()
EnterLockstep(r) == [r EXCEPT !.lockstep = Max({@, r.sim + Lockstep})]

\* rb_send_local_seal_rows(): the own rows as they were sealed.
SendRows(r) ==
  Send(r, [op |-> "rows", epoch |-> r.epoch, load |-> r.load, target |-> r.target,
           odd |-> {t \in Span(r) : <<r.slot, t>> \in r.sealed}])

---------------------------------------------------------------------------
(* Snapshots.                                                              *)

\* rbe_snap_ring_save(): the newest Depth keys stay.
Newest(T) == {t \in T : Cardinality({u \in T : u > t}) < Depth}

\* A machine that has run ticks T left a snapshot before each of them.
Saved(snaps, T, mach) ==
  [t \in Newest(DOMAIN snaps \cup T) |-> IF t \in T THEN AsOf(mach, t) ELSE snaps[t]]

Oldest(r) == Min(DOMAIN r.snaps)

\* rb_snap_floor(): a cap that aged out is lifted, one in force bounds the load.
CapLifted(r) == [r EXCEPT !.forkCap = IF @ <= Oldest(r) THEN 0 ELSE @]

LoadTicks(r, want) ==
  {t \in DOMAIN r.snaps : t <= want /\ (r.forkCap > 0 => t < r.forkCap)}

---------------------------------------------------------------------------
(* Opening and extending an episode.                                       *)

\* rb_local_rows_cover(): own rows exist as far as they were published.
LocalRowsCover(r, target) == target <= r.published

\* What asking for them does (rb_vt_get_input_row): rows past the own history are read
\* where they were published, and put into it.
RowsRead(r, target) ==
  LET last == Min({target, r.published})
  IN  [r EXCEPT !.odd = @ \cup {r.slot} \X (r.resampled \cap r.held + 1 .. last),
                !.held = Max({@, last})]

\* The span is sealed with the own rows and, of the other's, those in `rows`.
Opened(r, epoch, load, target, initiator, rows) ==
  [r EXCEPT !.stage = "sealing", !.epoch = epoch, !.load = load,
            !.target = target, !.initiator = initiator, !.extends = 0, !.rows = rows,
            !.sealed = {x \in r.odd : /\ x[2] \in load .. target
                                      /\ x[1] = r.slot \/ x[2] \in rows}]

\* rb_begin_episode() as the initiator, for the first row found wrong. The
\* engine takes this row, and no other, from the peer alone; it may not be willing
\* to seal the span.
BeginAsInitiator(p, r, t, willing) ==
  LET c      == CapLifted(r)
      loads  == LoadTicks(c, t)
      target == Max({r.sim - 1, t})
      e      == <<p, r.seq + 1>>
      rows   == {u \in Max(loads) .. target \ {t} : Confirmed(c, u)}
  IN  IF r.sim < r.cooldown THEN r
      ELSE IF loads = {} THEN c
      ELSE IF ~willing THEN [c EXCEPT !.seq = @ + 1]
      ELSE SendRows(Send([Opened(c, e, Max(loads), target, TRUE, rows) EXCEPT !.seq = @ + 1],
                         [op |-> "begin", epoch |-> e, load |-> Max(loads),
                          target |-> target]))

Nack(r, m) == Send(r, [op |-> "nack", epoch |-> m.epoch])

\* rb_begin_episode() for a BEGIN of the peer. An engine that is not willing leaves
\* the peer without an answer.
BeginAsFollower(r, m, willing) ==
  LET c == RowsRead(r, m.target)
  IN  IF m.load \notin DOMAIN r.snaps THEN Nack(r, m)
      ELSE IF ~LocalRowsCover(r, m.target) THEN Nack(c, m)
      ELSE IF ~willing THEN c
      ELSE SendRows(Opened(c, m.epoch, m.load, m.target, FALSE,
                           {u \in m.load .. m.target : Confirmed(c, u)}))

MayExtend(r) ==
  /\ r.stage \in {"tiphold", "verifying"}
  /\ r.extends < MaxExtends
  /\ r.load \in DOMAIN r.snaps

CanExtend(r, target, willing) == MayExtend(r) /\ LocalRowsCover(r, target) /\ willing

\* rb_tip_extend(): back to sealing over the grown span, the old handshake
\* forgotten.
Extended(r, target) ==
  SendRows([r EXCEPT !.stage = "sealing", !.target = target, !.extends = @ + 1,
                     !.sealed = @ \cup {x \in r.odd : /\ x[1] = r.slot
                                                      /\ x[2] \in r.target + 1 .. target},
                     !.base = None, !.peerBase = None, !.peerPost = None])

---------------------------------------------------------------------------
(* Late rows (rb_reconcile_wire).                                          *)

\* Arrived rows of finished ticks that the history still holds as predicted.
Late(r) == {t \in r.guessed : t < r.sim /\ t <= r.known}

\* Everything up to the first wrong one becomes authoritative.
Promoted(r, T) == [r EXCEPT !.guessed = @ \ T, !.missed = @ \ T]

\* What the first wrong row found does: it opens an episode, is of the span that the
\* open one runs again, makes a held tip grow, or is dropped.
OnWrongRow(p, r, t, willing) ==
  LET target == Max({t, r.target})
  IN  IF r.stage = "idle" THEN BeginAsInitiator(p, r, t, willing)
      ELSE IF t \notin Span(r) /\ r.stage = "tiphold" /\ CanExtend(r, target, willing)
      THEN Extended(Send(r, [op |-> "extend", epoch |-> r.epoch, target |-> target]),
                    target)
      ELSE r

Reconcile(p, r, willing) ==
  LET found == Late(r) \cap r.missed
      t     == Min(found)
  IN  IF found = {} THEN Promoted(r, Late(r))
      ELSE OnWrongRow(p, Promoted(r, {u \in Late(r) : u <= t}), t, willing)

---------------------------------------------------------------------------
(* The episode pump (rb_pump_episode).                                     *)

\* rb_baseline_try_compare(): one verdict for each exchange.
CompareBase(r) ==
  IF r.base = None \/ r.peerBase = None THEN r
  ELSE LET c == [r EXCEPT !.peerBase = None]
       IN  IF Agree(r.base, r.peerBase) THEN c
           ELSE Abort(EnterLockstep(
                  [c EXCEPT !.forkCap = IF @ = 0 \/ r.load < @ THEN r.load ELSE @,
                            !.forkSeen = TRUE]),
                  "abort")

\* rb_vt_load_state() and rb_send_baseline(). The machine is at the load tick;
\* where the comparison ends the episode it stays there, and the ticks from
\* there to sim are never run.
Loaded(r) ==
  LET b == [r EXCEPT !.mach = r.snaps[r.load], !.base = r.snaps[r.load]]
      c == CompareBase(Send(b, [op |-> "base", epoch |-> r.epoch, load |-> r.load,
                                digest |-> b.mach]))
  IN  IF c.stage = "idle"
      THEN [c EXCEPT !.mach.skipped = @ \cup r.load .. (r.sim - 1)]
      ELSE c

\* The machine after the span has run again from it.
Reran(r, mach) == [mach EXCEPT !.odd = @ \cup r.sealed]

\* Mutant: the snapshots of the run thrown away stay in the ring.
ReplayedKeepsTail(r) ==
  [r EXCEPT !.snaps = Saved(@, Span(r), Reran(r, r.mach)), !.mach = Reran(r, @),
            !.sim = r.target + 1, !.committed = Min({@, r.target})]

\* The loop of rb_run_replay(): every tick of the span runs with sealed rows and
\* leaves a snapshot; snapshots past the target go.
Replayed(r) ==
  LET mach == Reran(r, r.mach)
      all  == Saved(r.snaps, Span(r), mach)
  IN  [r EXCEPT !.snaps = [t \in {u \in DOMAIN all : u <= r.target} |-> all[t]],
                !.mach = mach, !.sim = r.target + 1, !.committed = Min({@, r.target})]

\* rb_enter_verify()
EnterVerify(r) ==
  Send([r EXCEPT !.stage = "verifying"],
       [op |-> "post", epoch |-> r.epoch, target |-> r.target, digest |-> r.mach])

Replay(r) ==
  IF r.load \notin DOMAIN r.snaps THEN Abort(r, "abort")
  ELSE LET l == Loaded(r) IN IF l.stage = "idle" THEN l ELSE EnterVerify(Replayed(l))

\* rb_commit_episode(): the sealed rows become history. Where the engine will not hold
\* the tip the episode ends, and the COMMIT bears the number that has been cleared.
Commit(r, willing) ==
  LET c == [Promoted(r, Span(r)) EXCEPT
              !.odd = {x \in @ : x[2] \notin Span(r)} \cup r.sealed, !.forkCap = 0,
              !.committed = Max({@, r.target})]
      n == IF willing THEN [c EXCEPT !.stage = "tiphold"] ELSE Clear(c)
  IN  Send(n, [op |-> "commit", epoch |-> n.epoch])

\* Mutant: any POST of the episode is an answer.
PostForAnyTip(r) == r.peerPost # None

\* rbe_rb_peer_post_tip_ok(): a POST for another tip is no answer.
PostForTip(r) == r.peerPost # None /\ r.peerPost.target = r.target

\* Mutant: the digests are not compared.
VerifyUnchecked(r, expired, willing) ==
  IF PostForTip(r) THEN Commit(r, willing)
  ELSE IF expired THEN Abort(r, "abort")
  ELSE [r EXCEPT !.peerPost = None]

Verify(r, expired, willing) ==
  IF PostForTip(r)
  THEN IF Agree(r.mach, r.peerPost.digest) THEN Commit(r, willing)
       ELSE Abort(EnterLockstep([r EXCEPT !.forkSeen = TRUE]), "abort")
  ELSE IF expired THEN Abort(r, "abort")
  ELSE [r EXCEPT !.peerPost = None]

\* Mutant: no watchdog while the peer's rows are awaited.
SealUnwatched(r, expired) == IF Span(r) \subseteq r.rows THEN Replay(r) ELSE r

Seal(r, expired) ==
  IF Span(r) \subseteq r.rows THEN Replay(r)
  ELSE IF expired THEN Abort(r, "abort") ELSE r

HoldTip(r, expired) ==
  IF r.sim > r.target + Runway \/ expired THEN Clear(r) ELSE r

Pump(r, expired, willing) ==
  CASE r.stage = "sealing"   -> Seal(r, expired)
    [] r.stage = "verifying" -> Verify(r, expired, willing)
    [] r.stage = "tiphold"   -> HoldTip(r, expired)
    [] OTHER                 -> r

---------------------------------------------------------------------------
(* Live ticks (snes_netplay_rb_poll_admit, snes_netplay_rb_finish_frame).  *)

\* Whether the row of sim + D is prepared although the peer may have it: sim has moved
\* back since.
SamplesAgain(r) ==
  r.prepared # r.sim /\ r.sim + Delay \in Tick /\ r.sim + Delay <= r.published

\* rnet_session_prepare_local_tip(), for the tick at hand unless it was the last one
\* prepared. The pad may be another than the one first sampled.
Prepared(r, differs) ==
  LET w == r.sim + Delay
  IN  IF r.prepared = r.sim THEN r
      ELSE [r EXCEPT !.prepared = r.sim,
                     !.published = Max({@, Min({w, MaxTick})}),
                     !.resampled = IF differs THEN @ \cup {w} ELSE @ \ {w}]

HasRow(r) == r.sim <= r.known

MayInvent(r) == r.sim - r.known <= Prediction /\ r.sim >= r.lockstep

\* The frame: snapshot, the own row as it is published now, the other's as it arrived
\* or an invented one, sim + 1.
Frame(r, wrong) ==
  LET t        == r.sim
      invented == ~HasRow(r)
      own      == {<<r.slot, u>> : u \in r.resampled \cap {t}}
      mach     == [r.mach EXCEPT !.wrong = IF wrong THEN @ \cup {t} ELSE @,
                                 !.odd = @ \cup own]
      next     == [r EXCEPT
        !.snaps = Saved(@, {t}, r.mach),
        !.guessed = IF invented THEN @ \cup {t} ELSE @ \ {t},
        !.missed = IF wrong THEN @ \cup {t} ELSE @ \ {t},
        !.odd = {x \in @ : x[2] # t} \cup own,
        !.held = Max({@, t}),
        !.mach = mach,
        !.sim = t + 1]
  IN  [next EXCEPT !.lockstep = IF next.sim >= @ THEN 0 ELSE @]

Stalled(r) == r.stage \in {"sealing", "verifying"}

---------------------------------------------------------------------------
(* The system.                                                             *)

\* A message of an episode its receiver is not in, and can no longer be called
\* to, would only be ignored: it is dropped here to keep `net` small.
Heeded(e, sent) ==
  \/ e.msg.op \in {"begin", "extend"}
  \/ e.msg.epoch = st'[e.to].epoch /\ e.msg.epoch # NoEpoch
  \/ \E b \in sent : b.to = e.to /\ b.msg.op = "begin" /\ b.msg.epoch = e.msg.epoch

\* Peer p becomes r, `taken` leaves the link and what r sent enters it.
Step(p, r, taken) ==
  /\ st' = [st EXCEPT ![p] = [r EXCEPT !.out = {}]]
  /\ \E sent \in {(net \ taken) \cup {[to |-> Other(p), msg |-> m] : m \in r.out}} :
       net' = {e \in sent : Heeded(e, sent)}

\* A frame runs unless the episode, a row that is not there or the bound forbids.
MayRun(r) == ~Stalled(r) /\ r.sim < MaxTick /\ (HasRow(r) \/ MayInvent(r))

\* What a poll does not decide: whether its stage's time has run out, whether the engine
\* takes what it is asked to (seal, grow, hold), whether a pad sampled again differs.
Choice == [expired : BOOLEAN, willing : BOOLEAN, differs : BOOLEAN]

\* The parts of a poll after its drain: the late rows among those up to k, then the
\* episode and, where that does not own sim, the row of the tick to come.
Reconciled(p, k, c) == Reconcile(p, [st[p] EXCEPT !.known = k], c.willing)

Pumped(p, k, c) == Pump(Reconciled(p, k, c), c.expired, c.willing)

Admitted(p, k, c) ==
  LET e == Pumped(p, k, c) IN IF Stalled(e) THEN e ELSE Prepared(e, c.differs)

\* Whether this poll asks the engine for anything.
Asks(p, k) ==
  CASE st[p].stage = "sealing"   -> FALSE
    [] st[p].stage = "verifying" -> PostForTip(st[p])
    [] OTHER                     -> Late([st[p] EXCEPT !.known = k]) \cap st[p].missed # {}

\* A stage that this poll has entered has not expired, and a sample differs only where
\* there is another.
MayChoose(p, k, c) ==
  /\ c.differs => again < MaxAgain
  /\ c.expired => st[p].stage # "idle"
  /\ ~c.willing => Asks(p, k)
  /\ c.expired => Reconciled(p, k, c).stage = st[p].stage
  /\ c.differs => \E e \in {Pumped(p, k, c)} : ~Stalled(e) /\ SamplesAgain(e)

Ran(r) == IF MayRun(r) THEN Frame(r, FALSE) ELSE r

\* One poll, and the frame it admits. A wrong invention is the environment's choice.
Poll(p, k, c) ==
  /\ MayChoose(p, k, c)
  /\ again' = IF c.differs THEN again + 1 ELSE again
  /\ \E r \in {Admitted(p, k, c)} :
       \/ /\ \E n \in {Ran(r)} : Step(p, n, {})
          /\ UNCHANGED misses
       \/ /\ MayRun(r) /\ ~HasRow(r) /\ misses < MaxMisses
          /\ \E n \in {Frame(r, TRUE)} : Step(p, n, {})
          /\ misses' = misses + 1

Current(r, m) == r.stage # "idle" /\ m.epoch = r.epoch

\* BEGIN: the lower slot wins a race, whoever is busy otherwise refuses.
OnBegin(p, r, m, willing) ==
  IF r.stage = "idle" THEN BeginAsFollower(r, m, willing)
  ELSE IF r.initiator /\ Other(p) < p THEN BeginAsFollower(Clear(r), m, willing)
  ELSE Nack(r, m)

\* BEGIN with the REREPLAY flag.
OnExtend(r, m, willing) ==
  LET target == Max({m.target, r.target})
      c      == IF MayExtend(r) THEN RowsRead(r, target) ELSE r
  IN  IF r.stage \in {"tiphold", "verifying"} /\ m.epoch = r.epoch
      THEN IF CanExtend(c, target, willing) THEN Extended(c, target)
           ELSE Abort(c, "realign")
      ELSE Nack(r, m)

OnNack(r, m) == IF Current(r, m) THEN Abort(r, "realign") ELSE r

OnAbort(r, m) ==
  IF ~Current(r, m) THEN r
  ELSE [Clear(r) EXCEPT
          !.cooldown = r.sim + (IF m.class = "realign" THEN 0 ELSE Cooldown)]

OnCommit(r, m) == IF r.stage = "tiphold" /\ Current(r, m) THEN Clear(r) ELSE r

\* rnet_rb_apply_peer_seal_rows(): rows of this span, as far as it reaches, that are
\* not sealed yet.
OnRows(r, m) ==
  LET new == (Span(r) \cap m.load .. m.target) \ r.rows
  IN  IF ~Current(r, m) \/ m.load # r.load THEN r
      ELSE [r EXCEPT !.rows = @ \cup new,
                     !.sealed = @ \cup {Other(r.slot)} \X (new \cap m.odd)]

OnBase(r, m) ==
  IF ~Current(r, m) \/ m.load # r.load THEN r
  ELSE CompareBase([r EXCEPT !.peerBase = m.digest])

OnPost(r, m) ==
  IF ~Current(r, m) THEN r
  ELSE [r EXCEPT !.peerPost = [target |-> m.target, digest |-> m.digest]]

Handled(p, r, m, willing) ==
  CASE m.op = "begin"  -> OnBegin(p, r, m, willing)
    [] m.op = "extend" -> OnExtend(r, m, willing)
    [] m.op = "nack"   -> OnNack(r, m)
    [] m.op = "abort"  -> OnAbort(r, m)
    [] m.op = "commit" -> OnCommit(r, m)
    [] m.op = "rows"   -> OnRows(r, m)
    [] m.op = "base"   -> OnBase(r, m)
    [] m.op = "post"   -> OnPost(r, m)

\* rb_drain_wire(), one message. Only a BEGIN asks the engine.
Take(e, willing) ==
  /\ ~willing => e.msg.op \in {"begin", "extend"}
  /\ \E r \in {Handled(e.to, st[e.to], e.msg, willing)} : Step(e.to, r, {e})
  /\ UNCHANGED <<misses, again>>

\* The match from tick 1: tick 0 ran on both sides and its digests agreed.
Init ==
  /\ st = [p \in Peers |->
       [slot |-> p, stage |-> "idle", sim |-> 1, prepared |-> 0, published |-> Delay,
        resampled |-> {}, known |-> 0, held |-> 0, guessed |-> {}, missed |-> {},
        odd |-> {}, mach |-> Fresh, snaps |-> [t \in {0} |-> Fresh],
        initiator |-> FALSE, epoch |-> NoEpoch, seq |-> 0, load |-> 0,
        target |-> 0, rows |-> {}, sealed |-> {}, base |-> None, peerBase |-> None,
        peerPost |-> None, extends |-> 0, cooldown |-> 0, forkCap |-> 0,
        forkSeen |-> FALSE, lockstep |-> 0, committed |-> 0, out |-> {}]]
  /\ net = {} /\ misses = 0 /\ again = 0

\* How far the rows of the other peer may have come.
Arrived(p) == Tick \cap st[p].known .. st[Other(p)].published

Next ==
  \/ \E e \in net, w \in BOOLEAN : Take(e, w)
  \/ \E p \in Peers : \E k \in Arrived(p), c \in Choice : Poll(p, k, c)

Spec == Init /\ [][Next]_vars

\* The poll runs on every turn of the host loop, the transport repeats a pad row
\* until it is acknowledged, and the clock of the watchdog goes on: a poll with all
\* rows there, and with the time of a stage over. What the engine and the pad do is
\* never the turn's to choose.
Due(p, k) ==
  {c \in Choice :
     /\ MayChoose(p, k, c)
     /\ c.expired \/ st[p].stage = "idle" \/ Reconciled(p, k, c).stage # st[p].stage}

FairPoll(p) ==
  /\ st'[Other(p)] = st[Other(p)] /\ st'[p].known = Max(Arrived(p))
  /\ \E c \in Due(p, Max(Arrived(p))) : Poll(p, Max(Arrived(p)), c)

\* ENABLED <<FairPoll(p)>>_vars, spelled out: the formula is weak fairness.
PollMoves(p) ==
  LET k == Max(Arrived(p))
  IN  \E c \in Due(p, k) : ~c.differs /\ Ran(Admitted(p, k, c)) # st[p]

Fairness == \A p \in Peers : []<>~PollMoves(p) \/ []<><<FairPoll(p)>>_vars

FairSpec == Spec /\ Fairness

---------------------------------------------------------------------------
(* Properties.                                                             *)

Machine == [wrong : SUBSET Tick, skipped : SUBSET Tick, odd : SUBSET (Peers \X Tick)]

\* Types, and what the fields of an episode are when there is none (g_rb).
TypeOK ==
  /\ \A p \in Peers :
       LET r == st[p]
       IN  /\ r.slot = p /\ r.stage \in {"idle", "sealing", "verifying", "tiphold"}
           /\ r.sim \in 1 .. MaxTick /\ r.known \in Tick /\ r.published \in 0 .. MaxTick
           /\ r.missed \subseteq r.guessed /\ r.guessed \subseteq Tick
           /\ r.resampled \subseteq Int /\ r.odd \cup r.sealed \subseteq Peers \X Tick
           /\ r.rows \subseteq Span(r)
           /\ r.mach \in Machine /\ Cardinality(DOMAIN r.snaps) \in 1 .. Depth
           /\ {r.base, r.peerBase} \subseteq Machine \cup {None}
           /\ r.extends <= MaxExtends
           /\ (r.stage = "idle") = (r.epoch = NoEpoch)
           /\ r.stage = "idle" => r.rows = {} /\ r.base = None /\ r.peerPost = None
  /\ \A e \in net : e.to \in Peers
  /\ misses \in 0 .. MaxMisses /\ again \in 0 .. MaxAgain

\* What a peer that has seen no fork has committed, it has run with rows the other
\* peer really sampled, and whichever snapshot it loads and replays afterwards keeps it
\* so, until an episode takes it back to a tip before.
CommittedExact ==
  \A p \in Peers : ~st[p].forkSeen =>
    /\ st[p].committed < st[p].sim
    /\ WrongRan(st[p]) \cap 0 .. st[p].committed = {}

\* Every snapshot in the ring is of a tick before the machine's, and is the machine as
\* it was then, row by row: a replay leaves none of the run it threw away. The exception
\* is what a base fork leaves, named by what the machine never ran: the tick of the
\* snapshot and the one before it (Loaded). Of those nothing is said.
SnapshotsCurrent ==
  \A p \in Peers : \A t \in DOMAIN st[p].snaps :
    /\ t < st[p].sim
    /\ st[p].snaps[t] = AsOf(st[p].mach, t) \/ {t - 1, t} \subseteq st[p].mach.skipped

\* A machine as far as tick T.
UpTo(mach, T) == AsOf(mach, T + 1)

\* Peer p commits in this step: it goes on to hold the tip or, where the engine will
\* not, ends the episode on an answer that agrees.
Commits(p) ==
  /\ st[p].stage = "verifying"
  /\ \/ st'[p].stage = "tiphold"
     \/ /\ st'[p].stage = "idle" /\ PostForTip(st[p])
        /\ Agree(st[p].mach, st[p].peerPost.digest)

\* A peer commits a tip only when the other, if it is still in the episode, is past it
\* too and agrees as far as it: not on the answer to an earlier tip, and not to another
\* state, whichever stage the other has gone on to.
CommitsTogether ==
  [][\A p \in Peers :
       LET T == st[p].target
           o == st[Other(p)]
       IN  Commits(p) /\ o.epoch = st[p].epoch
           => T < o.sim /\ Agree(UpTo(st[p].mach, T), UpTo(o.mach, T))]_vars

\* However messages are lost and both peers call at once, no stage waits for ever and
\* the peers do not wait for each other: the match reaches the tick it is watched to,
\* with no episode open, and stays there.
MatchSettles ==
  <>[](\A p \in Peers : st[p].sim = MaxTick /\ st[p].stage = "idle")

---------------------------------------------------------------------------
(* What a comment of the code says, and the code does not do.              *)

\* "Seal the local tip for this sim tick exactly ONCE": a tick that both peers have
\* run, with nothing invented left in it, they ran with the same row of either.
TipSealedOnce ==
  \A p \in Peers, t \in Tick :
    LET r == st[p]
        o == st[Other(p)]
    IN  /\ r.stage = "idle" /\ o.stage = "idle" /\ t < r.sim /\ Confirmed(o, t)
        /\ t \notin r.mach.skipped \cup o.mach.skipped
        => (<<p, t>> \in r.mach.odd <=> <<p, t>> \in o.mach.odd)
=============================================================================
