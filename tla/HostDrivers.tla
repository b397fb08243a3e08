---------------------------- MODULE HostDrivers ----------------------------
(***************************************************************************)
(* The registry of CurrentThread task drivers, CurrentThreadTaskDriver-    *)
(* Registry of async_runtime.rs: which hosts exist, which delivery each    *)
(* of them holds, and, per dispatch of the executor, how many hosts can    *)
(* still service it.  Every operation of the registry runs under its one   *)
(* lock, so each is an operator from a registry to a registry.             *)
(*                                                                         *)
(* A delivery is named by its host and its dispatch: a host has one        *)
(* delivery at a time and the executor publishes a dispatch from one       *)
(* thread at a time, so the capability numbers of the code tell apart      *)
(* nothing more.                                                           *)
(***************************************************************************)
EXTENDS Integers, FiniteSets

CONSTANTS Hosts,       \* registrations, one per importing environment
          Dispatches,  \* names of the executor's dispatches, positive integers
          Epochs       \* failure epochs of one dispatch, reused cyclically

ASSUME HostsAssumption == IsFiniteSet(Hosts)
ASSUME DispatchesAssumption == Dispatches \subseteq Nat \ {0}
ASSUME EpochsAssumption == Epochs \in Nat \ {0, 1}

NoDispatch == 0

FreeEntry == [delivery |-> NoDispatch, claimed |-> FALSE,
              accepted |-> FALSE, pending |-> NoDispatch]

Absent == [phase |-> "absent", epoch |-> 0, publications |-> 0,
           references |-> 0, accepted |-> FALSE, acceptedFailure |-> FALSE]

(* dispatches.entry(dispatch).or_default() *)
FreshDispatch == [Absent EXCEPT !.phase = "pending"]

(* drivers are the registered hosts; order ranks every host that ever      *)
(* registered, so that it still orders a snapshot one of them has left.    *)
(* A counter decremented at zero, where the code panics, goes negative.    *)
Registry ==
  [drivers : SUBSET Hosts,
   order   : [Hosts -> Nat],
   entry : [Hosts -> [delivery : Dispatches \cup {NoDispatch},
                      claimed  : BOOLEAN,
                      accepted : BOOLEAN,
                      pending  : Dispatches \cup {NoDispatch}]],
   dispatch : [Dispatches ->
                 [phase : {"absent", "pending", "serviced", "cancelling"},
                  epoch : 0 .. Epochs - 1,
                  publications : Int, references : Int,
                  accepted : BOOLEAN, acceptedFailure : BOOLEAN]]]

EmptyRegistry == [drivers  |-> {},
                  order    |-> [h \in Hosts |-> 0],
                  entry    |-> [h \in Hosts |-> FreeEntry],
                  dispatch |-> [d \in Dispatches |-> Absent]]

Present(r, d) == d \in Dispatches /\ r.dispatch[d].phase # "absent"

(* The hosts that have the dispatch as delivery or pending. *)
Holders(r, d) == {h \in r.drivers : d \in {r.entry[h].delivery, r.entry[h].pending}}

(* The one of the hosts hs that registered last. *)
Newest(r, h, hs) == h \in hs /\ \A g \in hs : r.order[g] <= r.order[h]

(* The token a terminal outcome of a dispatch is reported with. *)
Failure(d, e) == [dispatch |-> d, epoch |-> e]

-----------------------------------------------------------------------------
(* References: one per entry that has the dispatch as delivery or pending. *)
(* The loops of the code over entries are taken at once: each turn of them *)
(* changes one entry and the counters of what it held, and a dispatch is   *)
(* decided by the turn that takes its counter to zero, the last one.       *)

RetireUnreferenced(r, ds) ==
  LET retired(d) == /\ d \in ds /\ Present(r, d)
                    /\ r.dispatch[d].references = 0 /\ r.dispatch[d].publications = 0
                    /\ r.dispatch[d].phase # "cancelling"
                    /\ r.dispatch[d].phase = "serviced" \/ ~ r.dispatch[d].acceptedFailure
  IN [r EXCEPT !.dispatch = [d \in Dispatches |-> IF retired(d) THEN Absent ELSE @[d]]]

(* lost[d] hosts stop being able to service d.  The last one out decides:  *)
(* an accepted delivery that failed makes the dispatch fail, anything else *)
(* forgets it; a publication in progress defers the decision.              *)
FinishReferences(r, lost, accepted, failed) ==
  LET s(d) == [r.dispatch[d] EXCEPT
                 !.references = @ - lost[d],
                 !.accepted = @ \/ d \in accepted,
                 !.acceptedFailure = @ \/ d \in accepted \cap failed]
      finished == {d \in Dispatches : Present(r, d) /\ lost[d] > 0}
      last == {d \in finished : s(d).references = 0 /\ s(d).publications = 0}
      fails == {d \in last : s(d).acceptedFailure /\ s(d).phase = "pending"}
      gone == {d \in last \ fails : s(d).phase # "cancelling"}
  IN [reg |-> [r EXCEPT !.dispatch =
                 [d \in Dispatches |->
                    IF d \in fails THEN [s(d) EXCEPT !.phase = "cancelling"]
                    ELSE IF d \in gone THEN Absent
                    ELSE IF d \in finished THEN s(d)
                    ELSE @[d]]],
      failures |-> {Failure(d, r.dispatch[d].epoch) : d \in fails}]

-----------------------------------------------------------------------------
(* Registration. *)

Register(r, h) ==
  [r EXCEPT !.drivers = @ \cup {h},
            !.order[h] = Cardinality({g \in Hosts : r.order[g] # 0}) + 1,
            !.entry[h] = FreeEntry]

(* The hosts hs leave the registry and only then give up what they held: a *)
(* delivery that was never accepted is no failure.                         *)
RemoveDrivers(r, hs) ==
  LET left == [r EXCEPT !.drivers = @ \ hs,
                        !.entry = [h \in Hosts |-> IF h \in hs THEN FreeEntry ELSE @[h]]]
      accepted == {d \in Dispatches :
                     \E h \in hs : \/ r.entry[h].delivery = d /\ r.entry[h].accepted
                                  \/ r.entry[h].pending = d}
  IN FinishReferences(left, [d \in Dispatches |-> Cardinality(Holders(r, d) \cap hs)],
                      accepted, accepted)

Unregister(r, h) == RemoveDrivers(r, r.drivers \cap {h})

(* live(): the drivers that fail their probe leave the registry. *)
Sweep(r, dead) == RemoveDrivers(r, r.drivers \cap dead)

-----------------------------------------------------------------------------
(* A publication of dispatch d. *)

BeginPublication(r, d) ==
  LET s == IF Present(r, d) THEN r.dispatch[d] ELSE FreshDispatch
  IN [r EXCEPT !.dispatch[d] = [s EXCEPT !.publications = @ + 1]]

(* Mutant: the dispatch a busy host no longer owes keeps its reference.    *)
PlanAndKeep(r, d, live) ==
  LET offered == {h \in live \cap r.drivers : r.entry[h].delivery # d}
      busy == {h \in offered : r.entry[h].delivery # NoDispatch}
      added == Cardinality({h \in offered : r.entry[h].pending # d})
  IN [planned |-> offered \ busy,
      reg |-> [r EXCEPT !.dispatch[d].references = @ + added,
                        !.dispatch[d].accepted = @ \/ busy # {},
                        !.entry = [h \in Hosts |->
                          IF h \in busy THEN [@[h] EXCEPT !.pending = d]
                          ELSE IF h \in offered THEN [FreeEntry EXCEPT !.delivery = d]
                          ELSE @[h]]]]

(* What publishing d does to the hosts of the snapshot live that are still *)
(* registered: a free one gets the delivery, a busy one keeps d as the     *)
(* only dispatch it owes after its current one.  What they owed before     *)
(* loses their references; planned are the hosts to call.                  *)
Plan(r, d, live) ==
  LET offered == {h \in live \cap r.drivers : r.entry[h].delivery # d}
      busy == {h \in offered : r.entry[h].delivery # NoDispatch}
      owing == {h \in offered : r.entry[h].pending = d}
      swapped(x) == {h \in offered \ owing : r.entry[h].pending = x}
      accepted == \/ busy \cup owing # {}
                  \/ \E h \in (live \cap r.drivers) \ offered : r.entry[h].accepted
      entry == [h \in Hosts |->
                  IF h \in busy THEN [r.entry[h] EXCEPT !.pending = d]
                  ELSE IF h \in offered
                  THEN [FreeEntry EXCEPT !.delivery = d, !.accepted = (h \in owing)]
                  ELSE r.entry[h]]
      dispatch == [x \in Dispatches |->
                     IF x = d
                     THEN [r.dispatch[d] EXCEPT
                             !.references = @ + Cardinality(offered \ owing),
                             !.accepted = @ \/ accepted]
                     ELSE IF Present(r, x)
                     THEN [r.dispatch[x] EXCEPT !.references = @ - Cardinality(swapped(x))]
                     ELSE r.dispatch[x]]
  IN [planned |-> offered \ busy,
      reg |-> RetireUnreferenced([r EXCEPT !.entry = entry, !.dispatch = dispatch],
                                 {r.entry[h].pending : h \in offered})]

AcceptDelivery(r, h, d) ==
  LET remains == r.entry[h].delivery = d
      entered == IF remains THEN [r EXCEPT !.entry[h].accepted = TRUE] ELSE r
  IN IF ~ Present(r, d) THEN entered
     ELSE [entered EXCEPT !.dispatch[d].accepted = TRUE,
             !.dispatch[d].acceptedFailure =
                @ \/ (~ remains /\ r.dispatch[d].phase # "serviced")]

RejectDelivery(r, h, d) ==
  IF r.entry[h].delivery = d THEN Unregister(r, h)
  ELSE [reg |-> r, failures |-> {}]

(* The publication barrier lifts: what the hosts answered meanwhile counts *)
(* now.                                                                    *)
FinishPublication(r, d) ==
  IF ~ Present(r, d)
  THEN [reg |-> r, result |-> "unavailable", failure |-> Failure(NoDispatch, 0)]
  ELSE LET s == [r.dispatch[d] EXCEPT !.publications = @ - 1]
           counted == [r EXCEPT !.dispatch[d] = s]
           failed  == [r EXCEPT !.dispatch[d] = [s EXCEPT !.phase = "cancelling"]]
           gone    == [r EXCEPT !.dispatch[d] = Absent]
       IN IF s.references # 0 \/ s.publications # 0
          THEN [reg |-> counted, result |-> "accepted", failure |-> Failure(d, s.epoch)]
          ELSE IF s.phase = "cancelling" \/ (s.acceptedFailure /\ s.phase # "serviced")
          THEN [reg |-> failed, result |-> "failed", failure |-> Failure(d, s.epoch)]
          ELSE [reg |-> gone, failure |-> Failure(d, s.epoch),
                result |-> IF s.accepted \/ s.phase = "serviced"
                           THEN "accepted" ELSE "unavailable"]

-----------------------------------------------------------------------------
(* A delivery's callback. *)

CanClaim(r, h, d) ==
  /\ r.entry[h].delivery = d
  /\ Present(r, d) /\ r.dispatch[d].phase = "pending"
  /\ ~ r.entry[h].claimed

ClaimDelivery(r, h, d) ==
  [r EXCEPT !.entry[h].claimed = TRUE, !.entry[h].accepted = TRUE,
            !.dispatch[d].accepted = TRUE]

MarkServiced(r, d) ==
  IF ~ Present(r, d) THEN r
  ELSE LET owing == {h \in r.drivers : r.entry[h].pending = d}
           freed == [h \in Hosts |-> IF h \in owing
                                     THEN [r.entry[h] EXCEPT !.pending = NoDispatch]
                                     ELSE r.entry[h]]
           s == [r.dispatch[d] EXCEPT !.phase = "serviced",
                                      !.references = @ - Cardinality(owing)]
       IN RetireUnreferenced([r EXCEPT !.entry = freed, !.dispatch[d] = s], {d})

(* The answer of a callback; redispatch tells that the host owes a pending *)
(* dispatch somebody must now publish again.                               *)
FinishDelivery(r, h, d, failed) ==
  IF r.entry[h].delivery # d \/ d = NoDispatch
  THEN [reg |-> r, failures |-> {}, redispatch |-> FALSE]
  ELSE LET e == r.entry[h]
           freed == [r EXCEPT !.entry[h] = [FreeEntry EXCEPT !.pending = e.pending]]
           o == FinishReferences(freed, [x \in Dispatches |-> IF x = d THEN 1 ELSE 0],
                                 {d}, IF failed \/ ~ e.claimed THEN {d} ELSE {})
       IN [reg |-> o.reg, failures |-> o.failures,
           redispatch |-> Present(r, e.pending)
                          /\ r.dispatch[e.pending].phase = "pending"]

-----------------------------------------------------------------------------
(* Failures. *)

IsCurrentFailure(r, f) ==
  /\ Present(r, f.dispatch)
  /\ r.dispatch[f.dispatch].phase = "cancelling"
  /\ r.dispatch[f.dispatch].epoch = f.epoch

RearmFailedPublication(r, f) ==
  IF /\ IsCurrentFailure(r, f)
     /\ r.dispatch[f.dispatch].publications = 0
     /\ r.dispatch[f.dispatch].references = 0
  THEN [r EXCEPT !.dispatch[f.dispatch] =
          [FreshDispatch EXCEPT !.epoch = (f.epoch + 1) % Epochs]]
  ELSE r

FinishCancellation(r, f) ==
  IF IsCurrentFailure(r, f) THEN [r EXCEPT !.dispatch[f.dispatch] = Absent] ELSE r

RetireForShutdown(r) ==
  [r EXCEPT !.dispatch = [d \in Dispatches |-> Absent],
            !.entry = [h \in Hosts |-> [@[h] EXCEPT !.pending = NoDispatch]]]

-----------------------------------------------------------------------------
(* The counter of a dispatch is the number of the entries that hold it.    *)
ReferencesAreExact(r) ==
  \A d \in Dispatches : Present(r, d) =>
    r.dispatch[d].references = Cardinality(Holders(r, d))
=============================================================================
