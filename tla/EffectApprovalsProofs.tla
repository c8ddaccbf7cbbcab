------------------------ MODULE EffectApprovalsProofs ------------------------
(* Governed adoption for any number of principals, decisions and runs:        *)
(* ApprovalInv is inductive, and what the runs check follows from it.         *)
EXTENDS EffectApprovals, TLAPS

EffectTypes ==
    [Runs -> {"none", "prepared", "released", "dispatched", "committed", "uncertain"}]
ApprovalTypes ==
    [Decisions -> {"none", "issued", "reserved", "consumed", "revoked", "expired"}]

LEMMA InitOK == Init => ApprovalInv
<1> SUFFICES ASSUME Init PROVE ApprovalInv
    OBVIOUS
<1> USE ApprovalBounds DEF Init, Decisions, Runs
<1>1. TypeOK
    BY DEF TypeOK
<1>2. DecisionsOK /\ ReservationsOK /\ EffectsOK /\ AdoptionOK
    BY DEF DecisionsOK, ReservationsOK, EffectsOK, AdoptionOK
<1>3. WorkersOK /\ ProofsOK /\ HistoryOK /\ ControlOK
    BY DEF WorkersOK, ProofsOK, HistoryOK, ControlOK, Busy
<1> QED
    BY <1>1, <1>2, <1>3 DEF ApprovalInv

LEMMA StutterOK == ApprovalInv /\ UNCHANGED vars => ApprovalInv'
BY DEF ApprovalInv, TypeOK, DecisionsOK, ReservationsOK, EffectsOK, AdoptionOK, WorkersOK, ProofsOK,
       HistoryOK, ControlOK, HeldBy, Settled, vars, decisionVars, approvalVars, runVars, effectVars,
       targetVars

(* An executor at work has a run.                                             *)
LEMMA CurrentRun ==
    ASSUME TypeOK, ControlOK, pc \in Busy PROVE runs \in Runs
BY DEF TypeOK, ControlOK, Runs

LEMMA SessionLapsesOK ==
    ASSUME ApprovalInv, NEW p \in Sessions, SessionLapses(p)
    PROVE  ApprovalInv'
<1> USE ApprovalBounds DEF SessionLapses, approvalVars, runVars, effectVars, targetVars,
    Decisions, Runs
<1>0. /\ TypeOK /\ DecisionsOK /\ ReservationsOK /\ EffectsOK /\ AdoptionOK
      /\ WorkersOK /\ ProofsOK /\ HistoryOK /\ ControlOK
    BY DEF ApprovalInv
<1>1. TypeOK'
    BY <1>0 DEF TypeOK, Busy, Down
<1>2. /\ DecisionsOK' /\ ReservationsOK' /\ EffectsOK' /\ AdoptionOK' /\ WorkersOK'
      /\ ProofsOK' /\ HistoryOK' /\ ControlOK'
    BY <1>0 DEF DecisionsOK, ReservationsOK, EffectsOK, HeldBy, AdoptionOK, WorkersOK, ProofsOK,
        HistoryOK, Settled, ControlOK, Busy
<1> QED
    BY <1>1, <1>2 DEF ApprovalInv

LEMMA SessionRefusedOK ==
    ASSUME ApprovalInv, NEW p \in Sessions, SessionRefused(p)
    PROVE  ApprovalInv'
<1> USE ApprovalBounds DEF SessionRefused, approvalVars, runVars, effectVars, targetVars,
    Decisions, Runs
<1>0. /\ TypeOK /\ DecisionsOK /\ ReservationsOK /\ EffectsOK /\ AdoptionOK
      /\ WorkersOK /\ ProofsOK /\ HistoryOK /\ ControlOK
    BY DEF ApprovalInv
<1>1. TypeOK'
    BY <1>0 DEF TypeOK, Busy, Down
<1>2. /\ DecisionsOK' /\ ReservationsOK' /\ EffectsOK' /\ AdoptionOK' /\ WorkersOK'
      /\ ProofsOK' /\ HistoryOK' /\ ControlOK'
    BY <1>0 DEF DecisionsOK, ReservationsOK, EffectsOK, HeldBy, AdoptionOK, WorkersOK, ProofsOK,
        HistoryOK, Settled, ControlOK, Busy
<1> QED
    BY <1>1, <1>2 DEF ApprovalInv

LEMMA DecisionTooLateOK ==
    ASSUME ApprovalInv, NEW p \in Sessions, DecisionTooLate(p)
    PROVE  ApprovalInv'
<1> USE ApprovalBounds DEF DecisionTooLate, Revocable, runVars, effectVars, targetVars, Decisions,
    Runs
<1>0. /\ TypeOK /\ DecisionsOK /\ ReservationsOK /\ EffectsOK /\ AdoptionOK
      /\ WorkersOK /\ ProofsOK /\ HistoryOK /\ ControlOK
    BY DEF ApprovalInv
<1>1. TypeOK'
    BY <1>0 DEF TypeOK, Busy, Down
<1>2. AdoptionOK' /\ WorkersOK' /\ ProofsOK' /\ HistoryOK' /\ ControlOK'
    BY <1>0 DEF AdoptionOK, WorkersOK, ProofsOK, HistoryOK, Settled, ControlOK, Busy
<1>3. DecisionsOK'
    BY <1>0 DEF DecisionsOK, TypeOK, Busy, Down
<1>4. ReservationsOK'
    BY <1>0 DEF ReservationsOK, TypeOK, Busy, Down, EffectsOK, HeldBy, ControlOK
<1>5. EffectsOK'
    BY <1>0 DEF EffectsOK, HeldBy, TypeOK, Busy, Down, DecisionsOK, ReservationsOK, ControlOK
<1> QED
    BY <1>1, <1>2, <1>3, <1>4, <1>5 DEF ApprovalInv

LEMMA ApprovalLapsesOK ==
    ASSUME ApprovalInv, NEW n \in Decisions, ApprovalLapses(n)
    PROVE  ApprovalInv'
<1> USE ApprovalBounds DEF ApprovalLapses, decisionVars, runVars, effectVars, targetVars,
    Decisions, Runs
<1>0. /\ TypeOK /\ DecisionsOK /\ ReservationsOK /\ EffectsOK /\ AdoptionOK
      /\ WorkersOK /\ ProofsOK /\ HistoryOK /\ ControlOK
    BY DEF ApprovalInv
<1>1. TypeOK'
    BY <1>0 DEF TypeOK, Busy, Down
<1>2. /\ DecisionsOK' /\ ReservationsOK' /\ EffectsOK' /\ AdoptionOK' /\ WorkersOK'
      /\ ProofsOK' /\ HistoryOK' /\ ControlOK'
    BY <1>0 DEF DecisionsOK, ReservationsOK, EffectsOK, HeldBy, AdoptionOK, WorkersOK, ProofsOK,
        HistoryOK, Settled, ControlOK, Busy
<1> QED
    BY <1>1, <1>2 DEF ApprovalInv

LEMMA TargetDriftsOK ==
    ASSUME ApprovalInv, TargetDrifts
    PROVE  ApprovalInv'
<1> USE ApprovalBounds DEF TargetDrifts, decisionVars, approvalVars, runVars, effectVars,
    Decisions, Runs
<1>0. /\ TypeOK /\ DecisionsOK /\ ReservationsOK /\ EffectsOK /\ AdoptionOK
      /\ WorkersOK /\ ProofsOK /\ HistoryOK /\ ControlOK
    BY DEF ApprovalInv
<1>1. TypeOK'
    BY <1>0 DEF TypeOK, Busy, Down
<1>2. /\ DecisionsOK' /\ ReservationsOK' /\ EffectsOK' /\ WorkersOK' /\ ProofsOK'
      /\ HistoryOK' /\ ControlOK'
    BY <1>0 DEF DecisionsOK, ReservationsOK, EffectsOK, HeldBy, WorkersOK, ProofsOK, HistoryOK,
        Settled, ControlOK, Busy
<1>3. AdoptionOK'
    BY <1>0 DEF AdoptionOK, TypeOK, Busy, Down, EffectsOK, HeldBy, ControlOK
<1> QED
    BY <1>1, <1>2, <1>3 DEF ApprovalInv

LEMMA AuthorizeOK ==
    ASSUME ApprovalInv, NEW p \in Sessions, Authorize(p)
    PROVE  ApprovalInv'
<1> USE ApprovalBounds DEF Authorize, Decide, effectVars, targetVars, Decisions, Runs
<1>0. /\ TypeOK /\ DecisionsOK /\ ReservationsOK /\ EffectsOK /\ AdoptionOK
      /\ WorkersOK /\ ProofsOK /\ HistoryOK /\ ControlOK
    BY DEF ApprovalInv
<1>1. TypeOK'
    BY <1>0 DEF TypeOK, Busy, Down
<1>2. AdoptionOK' /\ ProofsOK'
    BY <1>0 DEF AdoptionOK, ProofsOK
<1>3. DecisionsOK'
    BY <1>0 DEF DecisionsOK, TypeOK, Busy, Down
<1>4. ReservationsOK'
    BY <1>0 DEF ReservationsOK, TypeOK, Busy, Down, EffectsOK, HeldBy, ControlOK
<1>5. EffectsOK'
    BY <1>0 DEF EffectsOK, HeldBy, TypeOK, Busy, Down, DecisionsOK, ReservationsOK, ControlOK
<1>6. WorkersOK'
    BY <1>0 DEF WorkersOK, TypeOK, Busy, Down, ControlOK, EffectsOK, HeldBy
<1>7. HistoryOK'
    BY <1>0 DEF HistoryOK, Settled, TypeOK, Busy, Down, ControlOK, EffectsOK, HeldBy, ProofsOK
<1>8. ControlOK'
    BY <1>0 DEF ControlOK, Busy, TypeOK, Down, EffectsOK, HeldBy, HistoryOK, Settled, DecisionsOK,
        ReservationsOK
<1> QED
    BY <1>1, <1>2, <1>3, <1>4, <1>5, <1>6, <1>7, <1>8 DEF ApprovalInv

LEMMA RejectOK ==
    ASSUME ApprovalInv, NEW p \in Sessions, Reject(p)
    PROVE  ApprovalInv'
<1> USE ApprovalBounds DEF Reject, Decide, Revocable, effectVars, targetVars, Decisions, Runs
<1>0. /\ TypeOK /\ DecisionsOK /\ ReservationsOK /\ EffectsOK /\ AdoptionOK
      /\ WorkersOK /\ ProofsOK /\ HistoryOK /\ ControlOK
    BY DEF ApprovalInv
<1>1. TypeOK'
    BY <1>0 DEF TypeOK, Busy, Down
<1>2. AdoptionOK' /\ ProofsOK'
    BY <1>0 DEF AdoptionOK, ProofsOK
<1>3. DecisionsOK'
    BY <1>0 DEF DecisionsOK, TypeOK, Busy, Down
<1>4. ReservationsOK'
    BY <1>0 DEF ReservationsOK, TypeOK, Busy, Down, EffectsOK, HeldBy, ControlOK
<1>5. EffectsOK'
    BY <1>0 DEF EffectsOK, HeldBy, TypeOK, Busy, Down, DecisionsOK, ReservationsOK, ControlOK
<1>6. WorkersOK'
    BY <1>0 DEF WorkersOK, TypeOK, Busy, Down, ControlOK, EffectsOK, HeldBy
<1>7. HistoryOK'
    BY <1>0 DEF HistoryOK, Settled, TypeOK, Busy, Down, ControlOK, EffectsOK, HeldBy, ProofsOK
<1>8. ControlOK'
    BY <1>0 DEF ControlOK, Busy, TypeOK, Down, EffectsOK, HeldBy, HistoryOK, Settled, DecisionsOK,
        ReservationsOK
<1> QED
    BY <1>1, <1>2, <1>3, <1>4, <1>5, <1>6, <1>7, <1>8 DEF ApprovalInv

LEMMA RetryOK ==
    ASSUME ApprovalInv, Retry
    PROVE  ApprovalInv'
<1> USE ApprovalBounds DEF Retry, Settled, decisionVars, approvalVars, effectVars, targetVars,
    Decisions, Runs
<1>0. /\ TypeOK /\ DecisionsOK /\ ReservationsOK /\ EffectsOK /\ AdoptionOK
      /\ WorkersOK /\ ProofsOK /\ HistoryOK /\ ControlOK
    BY DEF ApprovalInv
<1>1. TypeOK'
    BY <1>0 DEF TypeOK, Busy, Down
<1>2. DecisionsOK' /\ ReservationsOK' /\ EffectsOK' /\ AdoptionOK' /\ ProofsOK'
    BY <1>0 DEF DecisionsOK, ReservationsOK, EffectsOK, HeldBy, AdoptionOK, ProofsOK
<1>3. WorkersOK'
    BY <1>0 DEF WorkersOK, TypeOK, Busy, Down, ControlOK, EffectsOK, HeldBy
<1>4. HistoryOK'
    BY <1>0 DEF HistoryOK, TypeOK, Busy, Down, ControlOK, EffectsOK, HeldBy, ProofsOK
<1>5. ControlOK'
    BY <1>0 DEF ControlOK, Busy, TypeOK, Down, EffectsOK, HeldBy, HistoryOK, DecisionsOK,
        ReservationsOK
<1> QED
    BY <1>1, <1>2, <1>3, <1>4, <1>5 DEF ApprovalInv

LEMMA StartRunOK ==
    ASSUME ApprovalInv, StartRun
    PROVE  ApprovalInv'
<1> USE ApprovalBounds DEF StartRun, decisionVars, approvalVars, effectVars, targetVars,
    Decisions, Runs
<1>0. /\ TypeOK /\ DecisionsOK /\ ReservationsOK /\ EffectsOK /\ AdoptionOK
      /\ WorkersOK /\ ProofsOK /\ HistoryOK /\ ControlOK
    BY DEF ApprovalInv
<1>1. TypeOK'
    BY <1>0 DEF TypeOK, Busy, Down
<1>2. DecisionsOK' /\ AdoptionOK' /\ ProofsOK'
    BY <1>0 DEF DecisionsOK, AdoptionOK, ProofsOK
<1>3. ReservationsOK'
    BY <1>0 DEF ReservationsOK, TypeOK, Busy, Down, EffectsOK, HeldBy, ControlOK
<1>4. EffectsOK'
    BY <1>0 DEF EffectsOK, HeldBy, TypeOK, Busy, Down, DecisionsOK, ReservationsOK, ControlOK
<1>5. WorkersOK'
    BY <1>0 DEF WorkersOK, TypeOK, Busy, Down, ControlOK, EffectsOK, HeldBy
<1>6. HistoryOK'
    BY <1>0 DEF HistoryOK, Settled, TypeOK, Busy, Down, ControlOK, EffectsOK, HeldBy, ProofsOK
<1>7. ControlOK'
    BY <1>0 DEF ControlOK, Busy, TypeOK, Down, EffectsOK, HeldBy, HistoryOK, Settled, DecisionsOK,
        ReservationsOK
<1> QED
    BY <1>1, <1>2, <1>3, <1>4, <1>5, <1>6, <1>7 DEF ApprovalInv

LEMMA ResolveContextOK ==
    ASSUME ApprovalInv, ResolveContext
    PROVE  ApprovalInv'
<1> USE ApprovalBounds DEF Decisions, Runs
<1>0. /\ TypeOK /\ DecisionsOK /\ ReservationsOK /\ EffectsOK /\ AdoptionOK
      /\ WorkersOK /\ ProofsOK /\ HistoryOK /\ ControlOK
    BY DEF ApprovalInv
<1>1. /\ pc = "resolve" /\ pc' \in {"runner", "fail"} /\ ctx' \in {ctx} \cup Decisions
      /\ pc' = "runner" => ctx' \in 1..decided /\ verdict[ctx'] = "approve"
      /\ UNCHANGED <<decisionVars, stale, holder, runVars, effectVars, targetVars>>
      /\ UNCHANGED <<workers, crashes>>
    BY DEF ResolveContext, Usable, Latest
<1>2. approval' = WithoutStale
    BY DEF ResolveContext
<1>3. ASSUME NEW n \in Decisions
      PROVE  approval'[n] = approval[n] \/ (approval[n] = "issued" /\ approval'[n] = "expired")
    BY <1>2 DEF WithoutStale
<1> USE DEF decisionVars, runVars, effectVars, targetVars
<1>4. TypeOK'
    <2>1. approval' \in ApprovalTypes
        BY <1>0, <1>2 DEF TypeOK, WithoutStale, ApprovalTypes
    <2> QED
        BY <1>0, <1>1, <2>1 DEF TypeOK, Busy, ApprovalTypes
<1>5. DecisionsOK' /\ ReservationsOK'
    <2>1. DecisionsOK'
        <3>1. ASSUME NEW n \in Decisions PROVE approval'[n] = "none" <=> approval[n] = "none"
            BY <1>3
        <3> QED
            BY <1>0, <1>1, <3>1 DEF DecisionsOK
    <2>2. ReservationsOK'
        BY <1>0, <1>1, <1>3 DEF ReservationsOK
    <2> QED
        BY <2>1, <2>2
<1>6. EffectsOK'
    <2>1. ASSUME NEW n \in Decisions, approval[n] # "issued" PROVE approval'[n] = approval[n]
        BY <1>3, <2>1
    <2>2. ASSUME NEW r \in Runs, effect[r] # "none" PROVE uses[r] \in Decisions
        BY <1>0, <2>2 DEF TypeOK, EffectsOK
    <2> QED
        BY <1>0, <1>1, <2>1, <2>2 DEF EffectsOK, HeldBy
<1>7. AdoptionOK' /\ ProofsOK' /\ HistoryOK'
    BY <1>0, <1>1 DEF AdoptionOK, ProofsOK, HistoryOK, Settled
<1>8. WorkersOK' /\ ControlOK'
    BY <1>0, <1>1 DEF WorkersOK, ControlOK, Busy
<1> QED
    BY <1>4, <1>5, <1>6, <1>7, <1>8 DEF ApprovalInv

LEMMA RefusedEarlyOK ==
    ASSUME ApprovalInv, RefusedEarly
    PROVE  ApprovalInv'
<1> USE ApprovalBounds DEF RefusedEarly, decisionVars, approvalVars, runVars, effectVars,
    targetVars, Decisions, Runs
<1>0. /\ TypeOK /\ DecisionsOK /\ ReservationsOK /\ EffectsOK /\ AdoptionOK
      /\ WorkersOK /\ ProofsOK /\ HistoryOK /\ ControlOK
    BY DEF ApprovalInv
<1>1. TypeOK'
    BY <1>0 DEF TypeOK, Busy, Down
<1>2. /\ DecisionsOK' /\ ReservationsOK' /\ EffectsOK' /\ AdoptionOK' /\ ProofsOK'
      /\ HistoryOK'
    BY <1>0 DEF DecisionsOK, ReservationsOK, EffectsOK, HeldBy, AdoptionOK, ProofsOK, HistoryOK,
        Settled
<1>3. WorkersOK'
    BY <1>0 DEF WorkersOK, TypeOK, Busy, Down, ControlOK, EffectsOK, HeldBy
<1>4. ControlOK'
    BY <1>0 DEF ControlOK, Busy, TypeOK, Down, EffectsOK, HeldBy, HistoryOK, Settled, DecisionsOK,
        ReservationsOK
<1> QED
    BY <1>1, <1>2, <1>3, <1>4 DEF ApprovalInv

LEMMA MarkDispatchOK ==
    ASSUME ApprovalInv, MarkDispatch
    PROVE  ApprovalInv'
<1> USE ApprovalBounds DEF MarkDispatch, decisionVars, approvalVars, effectVars, targetVars,
    Decisions, Runs
<1>0. /\ TypeOK /\ DecisionsOK /\ ReservationsOK /\ EffectsOK /\ AdoptionOK
      /\ WorkersOK /\ ProofsOK /\ HistoryOK /\ ControlOK
    BY DEF ApprovalInv
<1>1. TypeOK'
    BY <1>0, CurrentRun DEF TypeOK, Busy, Down
<1>2. DecisionsOK' /\ ReservationsOK' /\ AdoptionOK' /\ ProofsOK'
    BY <1>0 DEF DecisionsOK, ReservationsOK, AdoptionOK, ProofsOK
<1>3. EffectsOK'
    BY <1>0 DEF EffectsOK, HeldBy, TypeOK, Busy, Down, DecisionsOK, ReservationsOK, ControlOK
<1>4. WorkersOK'
    BY <1>0 DEF WorkersOK, TypeOK, Busy, Down, ControlOK, EffectsOK, HeldBy
<1>5. HistoryOK'
    BY <1>0 DEF HistoryOK, Settled, TypeOK, Busy, Down, ControlOK, EffectsOK, HeldBy, ProofsOK
<1>6. ControlOK'
    BY <1>0 DEF ControlOK, Busy, TypeOK, Down, EffectsOK, HeldBy, HistoryOK, Settled, DecisionsOK,
        ReservationsOK
<1> QED
    BY <1>1, <1>2, <1>3, <1>4, <1>5, <1>6 DEF ApprovalInv

LEMMA ReserveOK ==
    ASSUME ApprovalInv, Reserve
    PROVE  ApprovalInv'
<1> USE ApprovalBounds DEF Reserve, Usable, Latest, WithoutStale, decisionVars, runVars,
    targetVars, Decisions, Runs
<1>0. /\ TypeOK /\ DecisionsOK /\ ReservationsOK /\ EffectsOK /\ AdoptionOK
      /\ WorkersOK /\ ProofsOK /\ HistoryOK /\ ControlOK
    BY DEF ApprovalInv
<1>1. TypeOK'
    BY <1>0 DEF TypeOK, Busy, Down
<1>2. HistoryOK'
    BY <1>0 DEF HistoryOK, Settled
<1>3. DecisionsOK'
    BY <1>0 DEF DecisionsOK, TypeOK, Busy, Down
<1>4. ReservationsOK'
    BY <1>0 DEF ReservationsOK, TypeOK, Busy, Down, EffectsOK, HeldBy, ControlOK
<1>5. EffectsOK'
    BY <1>0 DEF EffectsOK, HeldBy, TypeOK, Busy, Down, DecisionsOK, ReservationsOK, ControlOK
<1>6. AdoptionOK'
    BY <1>0 DEF AdoptionOK, TypeOK, Busy, Down, EffectsOK, HeldBy, ControlOK
<1>7. WorkersOK'
    BY <1>0 DEF WorkersOK, TypeOK, Busy, Down, ControlOK, EffectsOK, HeldBy
<1>8. ProofsOK'
    BY <1>0 DEF ProofsOK, TypeOK, Busy, Down, ControlOK, EffectsOK, HeldBy
<1>9. ControlOK'
    BY <1>0 DEF ControlOK, Busy, TypeOK, Down, EffectsOK, HeldBy, HistoryOK, Settled, DecisionsOK,
        ReservationsOK
<1> QED
    BY <1>1, <1>2, <1>3, <1>4, <1>5, <1>6, <1>7, <1>8, <1>9 DEF ApprovalInv

LEMMA ReserveRefusedOK ==
    ASSUME ApprovalInv, ReserveRefused
    PROVE  ApprovalInv'
<1> USE ApprovalBounds DEF ReserveRefused, decisionVars, runVars, effectVars, targetVars,
    Decisions, Runs
<1>0. /\ TypeOK /\ DecisionsOK /\ ReservationsOK /\ EffectsOK /\ AdoptionOK
      /\ WorkersOK /\ ProofsOK /\ HistoryOK /\ ControlOK
    BY DEF ApprovalInv
<1>1. TypeOK'
    BY <1>0 DEF TypeOK, Busy, Down
<1>2. AdoptionOK' /\ ProofsOK' /\ HistoryOK'
    BY <1>0 DEF AdoptionOK, ProofsOK, HistoryOK, Settled
<1>3. DecisionsOK'
    BY <1>0 DEF DecisionsOK, TypeOK, Busy, Down
<1>4. ReservationsOK'
    BY <1>0 DEF ReservationsOK, TypeOK, Busy, Down, EffectsOK, HeldBy, ControlOK
<1>5. EffectsOK'
    BY <1>0 DEF EffectsOK, HeldBy, TypeOK, Busy, Down, DecisionsOK, ReservationsOK, ControlOK
<1>6. WorkersOK'
    BY <1>0 DEF WorkersOK, TypeOK, Busy, Down, ControlOK, EffectsOK, HeldBy
<1>7. ControlOK'
    BY <1>0 DEF ControlOK, Busy, TypeOK, Down, EffectsOK, HeldBy, HistoryOK, Settled, DecisionsOK,
        ReservationsOK
<1> QED
    BY <1>1, <1>2, <1>3, <1>4, <1>5, <1>6, <1>7 DEF ApprovalInv

LEMMA DispatchRefusedOK ==
    ASSUME ApprovalInv, DispatchRefused
    PROVE  ApprovalInv'
<1> USE ApprovalBounds DEF DispatchRefused, decisionVars, runVars, targetVars, Decisions, Runs
<1>0. /\ TypeOK /\ DecisionsOK /\ ReservationsOK /\ EffectsOK /\ AdoptionOK
      /\ WorkersOK /\ ProofsOK /\ HistoryOK /\ ControlOK
    BY DEF ApprovalInv
<1>1. runs \in Runs
    BY <1>0, CurrentRun DEF Busy
<1>2. effect[runs] = "prepared" /\ uses[runs] \in 1..decided /\ decided \in Nat
    BY <1>0, <1>1 DEF TypeOK, EffectsOK, ControlOK
<1>3. /\ effect' = effect \/ effect' = [effect EXCEPT ![runs] = "released"]
      /\ pc' = "fail" /\ \A n \in Decisions : approval'[n] = "none" <=> approval[n] = "none"
    <2>1. CASE HeldBy(runs)
        <3>1. ASSUME NEW n \in Decisions PROVE approval'[n] = "none" <=> approval[n] = "none"
            BY <1>0, <1>2, <2>1 DEF HeldBy, Released, TypeOK
        <3> QED
            BY <2>1, <3>1
    <2>2. CASE ~HeldBy(runs)
        BY <2>2
    <2> QED
        BY <2>1, <2>2
<1>6. DecisionsOK' /\ ProofsOK'
    <2>1. DecisionsOK'
        BY <1>0, <1>3 DEF DecisionsOK
    <2>2. ProofsOK'
        BY <1>0, <1>1, <1>2, <1>3 DEF TypeOK, ProofsOK
    <2> QED
        BY <2>1, <2>2
<1>7. WorkersOK'
    BY <1>0, <1>1, <1>2, <1>3 DEF TypeOK, WorkersOK
<1>8. HistoryOK' /\ ControlOK'
    BY <1>0, <1>1, <1>2, <1>3 DEF TypeOK, HistoryOK, ControlOK, Settled, Busy
<1>4. CASE ~HeldBy(runs)
    <2>0. UNCHANGED <<effect, approval, holder>>
        BY <1>4
    <2>1. TypeOK'
        BY <1>0, <2>0 DEF TypeOK, Busy
    <2>2. ReservationsOK' /\ AdoptionOK'
        BY <1>0, <2>0 DEF ReservationsOK, AdoptionOK
    <2>3. EffectsOK'
        BY <1>0, <2>0 DEF EffectsOK, HeldBy
    <2> QED
        BY <1>6, <1>7, <1>8, <2>1, <2>2, <2>3 DEF ApprovalInv
<1>5. CASE HeldBy(runs)
    <2>2. /\ effect' = [effect EXCEPT ![runs] = "released"]
          /\ approval' = [approval EXCEPT ![uses[runs]] = Released(uses[runs])]
          /\ holder' = [holder EXCEPT ![uses[runs]] = 0]
          /\ Released(uses[runs]) \in {"issued", "expired"}
        BY <1>5 DEF Released
    <2>1. TypeOK'
        <3>1. effect' \in EffectTypes
            BY <1>0, <2>2 DEF TypeOK, EffectTypes
        <3>3. holder' \in [Decisions -> 0..MaxRuns]
            BY <1>0, <2>2, 0 \in 0..MaxRuns DEF TypeOK
        <3>2. approval' \in ApprovalTypes
            BY <1>0, <2>2 DEF TypeOK, ApprovalTypes
        <3> QED
            BY <1>0, <3>1, <3>2, <3>3 DEF TypeOK, Busy, EffectTypes, ApprovalTypes
    <2>3. AdoptionOK'
        BY <1>0, <1>1, <1>2, <2>2 DEF TypeOK, AdoptionOK
    <2>4. ReservationsOK'
        BY <1>0, <1>1, <1>2, <1>5, <2>2 DEF TypeOK, ReservationsOK, HeldBy
    <2>5. EffectsOK'
        BY <1>0, <1>1, <1>2, <1>5, <2>2 DEF TypeOK, EffectsOK, HeldBy
    <2> QED
        BY <1>6, <1>7, <1>8, <2>1, <2>3, <2>4, <2>5 DEF ApprovalInv
<1> QED
    BY <1>4, <1>5

LEMMA MarkEffectDispatchedOK ==
    ASSUME ApprovalInv, MarkEffectDispatched
    PROVE  ApprovalInv'
<1> USE ApprovalBounds DEF MarkEffectDispatched, HeldBy, decisionVars, approvalVars, runVars,
    targetVars, Decisions, Runs
<1>0. /\ TypeOK /\ DecisionsOK /\ ReservationsOK /\ EffectsOK /\ AdoptionOK
      /\ WorkersOK /\ ProofsOK /\ HistoryOK /\ ControlOK
    BY DEF ApprovalInv
<1>1. TypeOK'
    BY <1>0, CurrentRun DEF TypeOK, Busy, Down
<1>2. DecisionsOK' /\ HistoryOK'
    BY <1>0 DEF DecisionsOK, HistoryOK, Settled
<1>3. ReservationsOK'
    BY <1>0 DEF ReservationsOK, TypeOK, Busy, Down, EffectsOK, ControlOK
<1>4. EffectsOK'
    BY <1>0 DEF EffectsOK, TypeOK, Busy, Down, DecisionsOK, ReservationsOK, ControlOK
<1>5. AdoptionOK'
    BY <1>0 DEF AdoptionOK, TypeOK, Busy, Down, EffectsOK, ControlOK
<1>6. WorkersOK'
    BY <1>0 DEF WorkersOK, TypeOK, Busy, Down, ControlOK, EffectsOK
<1>7. ProofsOK'
    BY <1>0 DEF ProofsOK, TypeOK, Busy, Down, ControlOK, EffectsOK
<1>8. ControlOK'
    BY <1>0 DEF ControlOK, Busy, TypeOK, Down, EffectsOK, HistoryOK, Settled, DecisionsOK,
        ReservationsOK
<1> QED
    BY <1>1, <1>2, <1>3, <1>4, <1>5, <1>6, <1>7, <1>8 DEF ApprovalInv

LEMMA LaunchRefusedOK ==
    ASSUME ApprovalInv, LaunchRefused
    PROVE  ApprovalInv'
<1> USE ApprovalBounds DEF LaunchRefused, decisionVars, approvalVars, runVars, effectVars,
    targetVars, Decisions, Runs
<1>0. /\ TypeOK /\ DecisionsOK /\ ReservationsOK /\ EffectsOK /\ AdoptionOK
      /\ WorkersOK /\ ProofsOK /\ HistoryOK /\ ControlOK
    BY DEF ApprovalInv
<1>1. TypeOK'
    BY <1>0 DEF TypeOK, Busy, Down
<1>2. DecisionsOK' /\ ReservationsOK' /\ AdoptionOK' /\ ProofsOK' /\ HistoryOK'
    BY <1>0 DEF DecisionsOK, ReservationsOK, AdoptionOK, ProofsOK, HistoryOK, Settled
<1>3. EffectsOK'
    BY <1>0 DEF EffectsOK, HeldBy, TypeOK, Busy, Down, DecisionsOK, ReservationsOK, ControlOK
<1>4. WorkersOK'
    BY <1>0 DEF WorkersOK, TypeOK, Busy, Down, ControlOK, EffectsOK, HeldBy
<1>5. ControlOK'
    BY <1>0 DEF ControlOK, Busy, TypeOK, Down, EffectsOK, HeldBy, HistoryOK, Settled, DecisionsOK,
        ReservationsOK
<1> QED
    BY <1>1, <1>2, <1>3, <1>4, <1>5 DEF ApprovalInv

LEMMA WorkerCommitsOK ==
    ASSUME ApprovalInv, NEW r \in Runs, WorkerCommits(r)
    PROVE  ApprovalInv'
<1> USE ApprovalBounds DEF Decisions, Runs
<1>0. /\ TypeOK /\ DecisionsOK /\ ReservationsOK /\ EffectsOK /\ AdoptionOK
      /\ WorkersOK /\ ProofsOK /\ HistoryOK /\ ControlOK
    BY DEF ApprovalInv
<1>1. /\ r \in workers /\ target = "draft" /\ effect[r] = "dispatched"
      /\ approval[uses[r]] = "reserved" /\ holder[uses[r]] = r
      /\ effect' = [effect EXCEPT ![r] = "committed"]
      /\ approval' = [approval EXCEPT ![uses[r]] = "consumed"]
      /\ target' = "adopted" /\ applied' = applied \cup {r}
      /\ UNCHANGED <<uses, stale, holder, decisionVars, runVars, pc, ctx, workers, crashes>>
    BY DEF WorkerCommits, MayCommit, HeldBy
<1> USE DEF decisionVars, runVars
<1>2. uses[r] \in 1..decided /\ decided \in Nat /\ uses[r] \in Decisions /\ r = runs
    BY <1>0, <1>1 DEF TypeOK, EffectsOK, WorkersOK
<1>3. TypeOK'
    <2>1. effect' \in EffectTypes
        BY <1>0, <1>1 DEF TypeOK, EffectTypes
    <2>2. approval' \in ApprovalTypes
        BY <1>0, <1>1 DEF TypeOK, ApprovalTypes
    <2> QED
        BY <1>0, <1>1, <2>1, <2>2 DEF TypeOK, EffectTypes, ApprovalTypes
<1>4. DecisionsOK'
    BY <1>0, <1>1, <1>2 DEF TypeOK, DecisionsOK
<1>5. ReservationsOK'
    <2>1. ASSUME NEW n \in Decisions, n # uses[r], approval[n] \in {"reserved", "consumed"}
          PROVE  holder[n] # r /\ holder[n] \in Runs
        BY <1>0, <2>1 DEF TypeOK, ReservationsOK
    <2> QED
        BY <1>0, <1>1, <1>2, <2>1 DEF TypeOK, ReservationsOK
<1>6. EffectsOK'
    <2>1. ASSUME NEW t \in Runs, t # r, effect[t] # "none", uses[t] = uses[r]
          PROVE  effect[t] = "released"
        <3>1. ~HeldBy(t) /\ approval[uses[t]] = "reserved"
            BY <1>1, <2>1 DEF HeldBy
        <3> QED
            BY <1>0, <2>1, <3>1 DEF TypeOK, EffectsOK
    <2> QED
        BY <1>0, <1>1, <1>2, <2>1 DEF TypeOK, EffectsOK, HeldBy
<1>7. AdoptionOK'
    BY <1>0, <1>1 DEF TypeOK, AdoptionOK
<1>8. WorkersOK' /\ ProofsOK'
    BY <1>0, <1>1 DEF TypeOK, WorkersOK, ProofsOK
<1>9. HistoryOK' /\ ControlOK'
    BY <1>0, <1>1 DEF TypeOK, HistoryOK, ControlOK, Settled
<1> QED
    BY <1>3, <1>4, <1>5, <1>6, <1>7, <1>8, <1>9 DEF ApprovalInv

LEMMA ToolSucceedsOK ==
    ASSUME ApprovalInv, ToolSucceeds
    PROVE  ApprovalInv'
<1> USE ApprovalBounds DEF ToolSucceeds, decisionVars, approvalVars, runVars, effectVars,
    targetVars, Decisions, Runs
<1>0. /\ TypeOK /\ DecisionsOK /\ ReservationsOK /\ EffectsOK /\ AdoptionOK
      /\ WorkersOK /\ ProofsOK /\ HistoryOK /\ ControlOK
    BY DEF ApprovalInv
<1>1. TypeOK'
    BY <1>0 DEF TypeOK, Busy, Down
<1>2. DecisionsOK' /\ ReservationsOK' /\ AdoptionOK' /\ ProofsOK' /\ HistoryOK'
    BY <1>0 DEF DecisionsOK, ReservationsOK, AdoptionOK, ProofsOK, HistoryOK, Settled
<1>3. EffectsOK'
    BY <1>0 DEF EffectsOK, HeldBy, TypeOK, Busy, Down, DecisionsOK, ReservationsOK, ControlOK
<1>4. WorkersOK'
    BY <1>0 DEF WorkersOK, TypeOK, Busy, Down, ControlOK, EffectsOK, HeldBy
<1>5. ControlOK'
    BY <1>0 DEF ControlOK, Busy, TypeOK, Down, EffectsOK, HeldBy, HistoryOK, Settled, DecisionsOK,
        ReservationsOK
<1> QED
    BY <1>1, <1>2, <1>3, <1>4, <1>5 DEF ApprovalInv

LEMMA ToolFailsOK ==
    ASSUME ApprovalInv, ToolFails
    PROVE  ApprovalInv'
<1> USE ApprovalBounds DEF ToolFails, decisionVars, approvalVars, runVars, effectVars, targetVars,
    Decisions, Runs
<1>0. /\ TypeOK /\ DecisionsOK /\ ReservationsOK /\ EffectsOK /\ AdoptionOK
      /\ WorkersOK /\ ProofsOK /\ HistoryOK /\ ControlOK
    BY DEF ApprovalInv
<1>1. TypeOK'
    BY <1>0 DEF TypeOK, Busy, Down
<1>2. DecisionsOK' /\ ReservationsOK' /\ AdoptionOK' /\ ProofsOK' /\ HistoryOK'
    BY <1>0 DEF DecisionsOK, ReservationsOK, AdoptionOK, ProofsOK, HistoryOK, Settled
<1>3. EffectsOK'
    BY <1>0 DEF EffectsOK, HeldBy, TypeOK, Busy, Down, DecisionsOK, ReservationsOK, ControlOK
<1>4. WorkersOK'
    BY <1>0 DEF WorkersOK, TypeOK, Busy, Down, ControlOK, EffectsOK, HeldBy
<1>5. ControlOK'
    BY <1>0 DEF ControlOK, Busy, TypeOK, Down, EffectsOK, HeldBy, HistoryOK, Settled, DecisionsOK,
        ReservationsOK
<1> QED
    BY <1>1, <1>2, <1>3, <1>4, <1>5 DEF ApprovalInv

LEMMA MarkUncertainOK ==
    ASSUME ApprovalInv, MarkUncertain
    PROVE  ApprovalInv'
<1> USE ApprovalBounds DEF MarkUncertain, decisionVars, runVars, targetVars, Decisions, Runs
<1>0. /\ TypeOK /\ DecisionsOK /\ ReservationsOK /\ EffectsOK /\ AdoptionOK
      /\ WorkersOK /\ ProofsOK /\ HistoryOK /\ ControlOK
    BY DEF ApprovalInv
<1>1. runs \in Runs
    BY <1>0, CurrentRun DEF Busy
<1>2. /\ effect[runs] \in {"dispatched", "committed"} /\ uses[runs] \in 1..decided
      /\ decided \in Nat /\ verdict[uses[runs]] = "approve"
    BY <1>0, <1>1 DEF TypeOK, EffectsOK, ControlOK
<1>3. CASE ~(effect[runs] = "dispatched" /\ HeldBy(runs))
    <2>1. UNCHANGED <<effect, approval>>
        BY <1>3
    <2>2. TypeOK' /\ DecisionsOK' /\ ReservationsOK' /\ AdoptionOK' /\ ProofsOK'
        BY <1>0, <2>1 DEF TypeOK, DecisionsOK, ReservationsOK, AdoptionOK, ProofsOK, Busy
    <2>3. EffectsOK'
        BY <1>0, <2>1 DEF EffectsOK, HeldBy
    <2>4. WorkersOK' /\ HistoryOK' /\ ControlOK'
        BY <1>0, <2>1 DEF WorkersOK, HistoryOK, ControlOK, Settled, Busy
    <2> QED
        BY <2>2, <2>3, <2>4 DEF ApprovalInv
<1>4. CASE effect[runs] = "dispatched" /\ HeldBy(runs)
    <2>1. /\ effect' = [effect EXCEPT ![runs] = "uncertain"]
          /\ approval' = [approval EXCEPT ![uses[runs]] = "revoked"]
        BY <1>4
    <2>2. TypeOK'
        BY <1>0, <1>1, <2>1 DEF TypeOK, Busy, Down
    <2>3. DecisionsOK' /\ AdoptionOK' /\ ProofsOK'
        BY <1>0, <1>1, <1>2, <1>4, <2>1 DEF TypeOK, DecisionsOK, AdoptionOK, ProofsOK
    <2>4. WorkersOK' /\ HistoryOK' /\ ControlOK'
        BY <1>0, <1>1, <1>2, <1>4, <2>1
        DEF TypeOK, WorkersOK, HistoryOK, ControlOK, Settled, Busy
    <2>5. ReservationsOK'
        BY <1>0, <1>1, <1>2, <1>4, <2>1 DEF TypeOK, ReservationsOK, HeldBy
    <2>6. EffectsOK'
        <3>1. ASSUME NEW r \in Runs, r # runs, effect[r] # "none"
              PROVE  uses[r] = uses[runs] => effect[r] \in {"uncertain", "released"}
                                             \/ approval[uses[r]] = "revoked"
            <4>1. uses[r] = uses[runs] => ~HeldBy(r) /\ approval[uses[r]] = "reserved"
                BY <1>1, <1>4, <3>1 DEF HeldBy
            <4> QED
                BY <1>0, <3>1, <4>1 DEF TypeOK, EffectsOK
        <3> QED
            BY <1>0, <1>1, <1>2, <1>4, <2>1, <3>1 DEF TypeOK, EffectsOK, HeldBy
    <2> QED
        BY <2>2, <2>3, <2>4, <2>5, <2>6 DEF ApprovalInv
<1> QED
    BY <1>3, <1>4

LEMMA FailRunOK ==
    ASSUME ApprovalInv, FailRun
    PROVE  ApprovalInv'
<1> USE ApprovalBounds DEF FailRun, EndRun, decisionVars, approvalVars, effectVars, targetVars,
    Decisions, Runs
<1>0. /\ TypeOK /\ DecisionsOK /\ ReservationsOK /\ EffectsOK /\ AdoptionOK
      /\ WorkersOK /\ ProofsOK /\ HistoryOK /\ ControlOK
    BY DEF ApprovalInv
<1>1. TypeOK'
    BY <1>0 DEF TypeOK, Busy, Down
<1>2. DecisionsOK' /\ ReservationsOK' /\ EffectsOK' /\ AdoptionOK' /\ ProofsOK'
    BY <1>0 DEF DecisionsOK, ReservationsOK, EffectsOK, HeldBy, AdoptionOK, ProofsOK
<1>3. WorkersOK'
    BY <1>0 DEF WorkersOK, TypeOK, Busy, Down, ControlOK, EffectsOK, HeldBy
<1>4. HistoryOK'
    BY <1>0 DEF HistoryOK, Settled, TypeOK, Busy, Down, ControlOK, EffectsOK, HeldBy, ProofsOK
<1>5. ControlOK'
    BY <1>0 DEF ControlOK, Busy, TypeOK, Down, EffectsOK, HeldBy, HistoryOK, Settled, DecisionsOK,
        ReservationsOK
<1> QED
    BY <1>1, <1>2, <1>3, <1>4, <1>5 DEF ApprovalInv

LEMMA StoreOutputOK ==
    ASSUME ApprovalInv, StoreOutput
    PROVE  ApprovalInv'
<1> USE ApprovalBounds DEF StoreOutput, EndRun, decisionVars, approvalVars, effectVars,
    targetVars, Decisions, Runs
<1>0. /\ TypeOK /\ DecisionsOK /\ ReservationsOK /\ EffectsOK /\ AdoptionOK
      /\ WorkersOK /\ ProofsOK /\ HistoryOK /\ ControlOK
    BY DEF ApprovalInv
<1>1. TypeOK'
    BY <1>0 DEF TypeOK, Busy, Down
<1>2. DecisionsOK' /\ ReservationsOK' /\ EffectsOK' /\ AdoptionOK' /\ ProofsOK'
    BY <1>0 DEF DecisionsOK, ReservationsOK, EffectsOK, HeldBy, AdoptionOK, ProofsOK
<1>3. WorkersOK'
    BY <1>0 DEF WorkersOK, TypeOK, Busy, Down, ControlOK, EffectsOK, HeldBy
<1>4. HistoryOK'
    BY <1>0 DEF HistoryOK, Settled, TypeOK, Busy, Down, ControlOK, EffectsOK, HeldBy, ProofsOK
<1>5. ControlOK'
    BY <1>0 DEF ControlOK, Busy, TypeOK, Down, EffectsOK, HeldBy, HistoryOK, Settled, DecisionsOK,
        ReservationsOK
<1> QED
    BY <1>1, <1>2, <1>3, <1>4, <1>5 DEF ApprovalInv

LEMMA CrashOK ==
    ASSUME ApprovalInv, Crash
    PROVE  ApprovalInv'
<1> USE ApprovalBounds DEF Crash, decisionVars, approvalVars, runVars, effectVars, targetVars,
    Decisions, Runs
<1>0. /\ TypeOK /\ DecisionsOK /\ ReservationsOK /\ EffectsOK /\ AdoptionOK
      /\ WorkersOK /\ ProofsOK /\ HistoryOK /\ ControlOK
    BY DEF ApprovalInv
<1>1. TypeOK'
    BY <1>0 DEF TypeOK, Busy, Down
<1>2. DecisionsOK' /\ ReservationsOK' /\ AdoptionOK' /\ ProofsOK' /\ HistoryOK'
    BY <1>0 DEF DecisionsOK, ReservationsOK, AdoptionOK, ProofsOK, HistoryOK, Settled
<1>3. EffectsOK'
    BY <1>0 DEF EffectsOK, HeldBy, TypeOK, Busy, Down, DecisionsOK, ReservationsOK, ControlOK
<1>4. WorkersOK'
    BY <1>0 DEF WorkersOK, TypeOK, Busy, Down, ControlOK, EffectsOK, HeldBy
<1>5. ControlOK'
    BY <1>0 DEF ControlOK, Busy, TypeOK, Down, EffectsOK, HeldBy, HistoryOK, Settled, DecisionsOK,
        ReservationsOK
<1> QED
    BY <1>1, <1>2, <1>3, <1>4, <1>5 DEF ApprovalInv

LEMMA ReconcileStartupOK ==
    ASSUME ApprovalInv, ReconcileStartup
    PROVE  ApprovalInv'
<1> USE ApprovalBounds DEF ReconcileStartup, Released, decisionVars, runVars, targetVars,
    Decisions, Runs
<1>0. /\ TypeOK /\ DecisionsOK /\ ReservationsOK /\ EffectsOK /\ AdoptionOK
      /\ WorkersOK /\ ProofsOK /\ HistoryOK /\ ControlOK
    BY DEF ApprovalInv
<1>1. TypeOK'
    <2>1. approval' \in ApprovalTypes
        BY <1>0 DEF TypeOK, ApprovalTypes
    <2>2. holder' \in [Decisions -> 0..MaxRuns]
        BY <1>0 DEF TypeOK
    <2>3. effect' \in EffectTypes
        BY <1>0 DEF TypeOK, EffectTypes
    <2> QED
        BY <1>0, <2>1, <2>2, <2>3 DEF TypeOK, ApprovalTypes, EffectTypes, Busy, Down
<1>2. HistoryOK'
    BY <1>0 DEF HistoryOK, Settled
<1>3. DecisionsOK'
    BY <1>0 DEF DecisionsOK, TypeOK, Busy, Down
<1>4. ReservationsOK'
    BY <1>0 DEF ReservationsOK, TypeOK, Busy, Down, EffectsOK, HeldBy, ControlOK
<1>5. EffectsOK'
    BY <1>0 DEF EffectsOK, HeldBy, TypeOK, Busy, Down, DecisionsOK, ReservationsOK, ControlOK
<1>6. AdoptionOK'
    BY <1>0 DEF AdoptionOK, TypeOK, Busy, Down, EffectsOK, HeldBy, ControlOK
<1>7. WorkersOK'
    BY <1>0 DEF WorkersOK, TypeOK, Busy, Down, ControlOK, EffectsOK, HeldBy
<1>8. ProofsOK'
    BY <1>0 DEF ProofsOK, TypeOK, Busy, Down, ControlOK, EffectsOK, HeldBy
<1>9. ControlOK'
    BY <1>0 DEF ControlOK, Busy, TypeOK, Down, EffectsOK, HeldBy, HistoryOK, Settled, DecisionsOK,
        ReservationsOK
<1> QED
    BY <1>1, <1>2, <1>3, <1>4, <1>5, <1>6, <1>7, <1>8, <1>9 DEF ApprovalInv

LEMMA RecoverPlanOK ==
    ASSUME ApprovalInv, RecoverPlan
    PROVE  ApprovalInv'
<1> USE ApprovalBounds DEF RecoverPlan, decisionVars, approvalVars, effectVars, targetVars,
    Decisions, Runs
<1>0. /\ TypeOK /\ DecisionsOK /\ ReservationsOK /\ EffectsOK /\ AdoptionOK
      /\ WorkersOK /\ ProofsOK /\ HistoryOK /\ ControlOK
    BY DEF ApprovalInv
<1>1. TypeOK'
    BY <1>0 DEF TypeOK, Busy, Down
<1>2. DecisionsOK' /\ ReservationsOK' /\ EffectsOK' /\ AdoptionOK' /\ ProofsOK'
    BY <1>0 DEF DecisionsOK, ReservationsOK, EffectsOK, HeldBy, AdoptionOK, ProofsOK
<1>3. WorkersOK'
    BY <1>0 DEF WorkersOK, TypeOK, Busy, Down, ControlOK, EffectsOK, HeldBy
<1>4. HistoryOK'
    BY <1>0 DEF HistoryOK, Settled, TypeOK, Busy, Down, ControlOK, EffectsOK, HeldBy, ProofsOK
<1>5. ControlOK'
    BY <1>0 DEF ControlOK, Busy, TypeOK, Down, EffectsOK, HeldBy, HistoryOK, Settled, DecisionsOK,
        ReservationsOK
<1> QED
    BY <1>1, <1>2, <1>3, <1>4, <1>5 DEF ApprovalInv

LEMMA ProveAppliedOK ==
    ASSUME ApprovalInv, ProveApplied
    PROVE  ApprovalInv'
<1> USE ApprovalBounds DEF ProveApplied, Reconcile, decisionVars, approvalVars, effectVars,
    targetVars, Decisions, Runs
<1>0. /\ TypeOK /\ DecisionsOK /\ ReservationsOK /\ EffectsOK /\ AdoptionOK
      /\ WorkersOK /\ ProofsOK /\ HistoryOK /\ ControlOK
    BY DEF ApprovalInv
<1>1. TypeOK'
    BY <1>0 DEF TypeOK, Busy, Down
<1>2. DecisionsOK' /\ ReservationsOK' /\ AdoptionOK'
    BY <1>0 DEF DecisionsOK, ReservationsOK, AdoptionOK
<1>3. EffectsOK'
    BY <1>0 DEF EffectsOK, HeldBy, TypeOK, Busy, Down, DecisionsOK, ReservationsOK, ControlOK
<1>4. WorkersOK'
    BY <1>0 DEF WorkersOK, TypeOK, Busy, Down, ControlOK, EffectsOK, HeldBy
<1>5. ProofsOK'
    BY <1>0 DEF ProofsOK, TypeOK, Busy, Down, ControlOK, EffectsOK, HeldBy
<1>6. HistoryOK'
    BY <1>0 DEF HistoryOK, Settled, TypeOK, Busy, Down, ControlOK, EffectsOK, HeldBy, ProofsOK
<1>7. ControlOK'
    BY <1>0 DEF ControlOK, Busy, TypeOK, Down, EffectsOK, HeldBy, HistoryOK, Settled, DecisionsOK,
        ReservationsOK
<1> QED
    BY <1>1, <1>2, <1>3, <1>4, <1>5, <1>6, <1>7 DEF ApprovalInv

LEMMA ProveFencedOK ==
    ASSUME ApprovalInv, ProveFenced
    PROVE  ApprovalInv'
<1> USE ApprovalBounds DEF ProveFenced, Reconcile, decisionVars, approvalVars, effectVars,
    targetVars, Decisions, Runs
<1>0. /\ TypeOK /\ DecisionsOK /\ ReservationsOK /\ EffectsOK /\ AdoptionOK
      /\ WorkersOK /\ ProofsOK /\ HistoryOK /\ ControlOK
    BY DEF ApprovalInv
<1>1. TypeOK'
    BY <1>0 DEF TypeOK, Busy, Down
<1>2. DecisionsOK' /\ ReservationsOK' /\ AdoptionOK'
    BY <1>0 DEF DecisionsOK, ReservationsOK, AdoptionOK
<1>3. EffectsOK'
    BY <1>0 DEF EffectsOK, HeldBy, TypeOK, Busy, Down, DecisionsOK, ReservationsOK, ControlOK
<1>4. WorkersOK'
    BY <1>0 DEF WorkersOK, TypeOK, Busy, Down, ControlOK, EffectsOK, HeldBy
<1>5. ProofsOK'
    BY <1>0 DEF ProofsOK, TypeOK, Busy, Down, ControlOK, EffectsOK, HeldBy
<1>6. HistoryOK'
    BY <1>0 DEF HistoryOK, Settled, TypeOK, Busy, Down, ControlOK, EffectsOK, HeldBy, ProofsOK
<1>7. ControlOK'
    BY <1>0 DEF ControlOK, Busy, TypeOK, Down, EffectsOK, HeldBy, HistoryOK, Settled, DecisionsOK,
        ReservationsOK
<1> QED
    BY <1>1, <1>2, <1>3, <1>4, <1>5, <1>6, <1>7 DEF ApprovalInv

LEMMA StepOK == ApprovalInv /\ [Next]_vars => ApprovalInv'
<1> SUFFICES ASSUME ApprovalInv, Next PROVE ApprovalInv'
    BY StutterOK
<1>1. CASE World
    <2>1. ASSUME NEW p \in Sessions, SessionLapses(p) \/ SessionRefused(p) \/ DecisionTooLate(p)
          PROVE  ApprovalInv'
        BY <2>1, SessionLapsesOK, SessionRefusedOK, DecisionTooLateOK
    <2>2. ASSUME NEW n \in Decisions, ApprovalLapses(n) PROVE ApprovalInv'
        BY <2>2, ApprovalLapsesOK
    <2>3. ASSUME NEW r \in Runs, WorkerCommits(r) PROVE ApprovalInv'
        BY <2>3, WorkerCommitsOK
    <2> QED
        BY <1>1, <2>1, <2>2, <2>3, TargetDriftsOK, CrashOK DEF World
<1>2. CASE Human
    <2>1. ASSUME NEW p \in Sessions, Authorize(p) \/ Reject(p) PROVE ApprovalInv'
        BY <2>1, AuthorizeOK, RejectOK
    <2> QED
        BY <1>2, <2>1, RetryOK, ProveAppliedOK, ProveFencedOK DEF Human
<1>3. CASE Executor
    BY <1>3, StartRunOK, ResolveContextOK, RefusedEarlyOK, MarkDispatchOK, ReserveOK,
       ReserveRefusedOK, DispatchRefusedOK, MarkEffectDispatchedOK, LaunchRefusedOK,
       ToolSucceedsOK, ToolFailsOK, MarkUncertainOK, FailRunOK, StoreOutputOK,
       ReconcileStartupOK, RecoverPlanOK
    DEF Executor
<1> QED
    BY <1>1, <1>2, <1>3 DEF Next

(* Decisions, approvals, effects, workers and the executor agree in every     *)
(* state.                                                                     *)
THEOREM ApprovalInvariant == Spec => []ApprovalInv
BY InitOK, StepOK, PTL DEF Spec

(* An approval is good for one adoption.                                      *)
THEOREM OneShotHolds == Spec => []OneShot
<1>1. ApprovalInv => OneShot
    BY DEF ApprovalInv, ReservationsOK, EffectsOK, AdoptionOK, TypeOK, OneShot, Runs
<1> QED
    BY <1>1, ApprovalInvariant, PTL

(* A run proved fenced never adopts, one proved applied did.                  *)
THEOREM ProofsHoldHolds == Spec => []ProofsHold
<1>1. ApprovalInv => ProofsHold
    BY DEF ApprovalInv, AdoptionOK, ProofsOK, ProofsHold
<1> QED
    BY <1>1, ApprovalInvariant, PTL

-----------------------------------------------------------------------------
(* The abstract state, written out.                                           *)
PermitMap == [n \in Decisions |-> Permit(n)]
Uses == {uses[r] : r \in applied}

LEMMA PermitOf ==
    ASSUME TypeOK, NEW n \in Decisions
    PROVE  /\ PermitMap[n] = Permit(n)
           /\ Permit(n) \in {"none", "granted", "spent", "void"}
           /\ Permit(n) = "none" <=> approval[n] = "none"
           /\ Permit(n) = "granted" <=> approval[n] \in {"issued", "reserved"}
           /\ Permit(n) = "spent" <=> approval[n] = "consumed"
           /\ Permit(n) = "void" <=> approval[n] \in {"revoked", "expired"}
BY DEF TypeOK, PermitMap, Permit

LEMMA PhaseIs ==
    ASSUME TypeOK
    PROVE  /\ step = "awaiting" => PhaseOf = "asking"
           /\ step \in {"ready", "running", "failed"} => PhaseOf = "allowed"
           /\ step = "checking" => PhaseOf = "closed"
           /\ step = "skipped" => PhaseOf = "rejected"
BY DEF TypeOK, PhaseOf

(* Approvals lapse, nothing else of the abstract state moves.                 *)
LEMMA LapseRefines ==
    ASSUME TypeOK, TypeOK', UNCHANGED <<PhaseOf, Uses>>,
           \A n \in Decisions : \/ approval'[n] = approval[n]
                                \/ /\ approval[n] \in {"issued", "reserved"}
                                   /\ approval'[n] \in {"issued", "reserved", "revoked", "expired"}
    PROVE  Promise!Lapse
<1> DEFINE N == {n \in Decisions : Permit(n) = "granted" /\ Permit(n)' = "void"}
<1>1. ASSUME NEW n \in Decisions
      PROVE  /\ PermitMap[n] = Permit(n) /\ PermitMap'[n] = Permit(n)'
             /\ n \in N => PermitMap[n] = "granted" /\ PermitMap'[n] = "void"
             /\ n \notin N => PermitMap'[n] = PermitMap[n]
    <2>1. PermitMap[n] = Permit(n) /\ PermitMap'[n] = Permit(n)'
        BY DEF PermitMap
    <2>2. n \notin N => Permit(n)' = Permit(n)
        BY DEF Permit, TypeOK
    <2> QED
        BY <2>1, <2>2
<1>2. N \in SUBSET Promise!Granted
    BY <1>1 DEF Promise!Granted, PermitMap
<1>3. PermitMap' = Promise!Without(N)
    BY <1>1 DEF Promise!Without, PermitMap
<1> QED
    BY <1>2, <1>3 DEF Promise!Lapse, PermitMap, Uses

LEMMA DecideRefines ==
    ASSUME ApprovalInv, ApprovalInv', NEW p \in Sessions, Authorize(p) \/ Reject(p)
    PROVE  Promise!Next
<1> USE ApprovalBounds DEF Decisions
<1>0. TypeOK /\ TypeOK' /\ DecisionsOK /\ step = "awaiting" /\ decided < MaxDecisions
    BY DEF ApprovalInv, Authorize, Reject, Decide
<1>1. decided + 1 \in Decisions /\ approval[decided + 1] = "none"
    BY <1>0 DEF TypeOK, DecisionsOK
<1>2. PhaseOf = "asking" /\ UNCHANGED Uses
    BY <1>0, <1>1, PhaseIs DEF Authorize, Reject, Decide, Uses, effectVars, targetVars
<1>3. CASE Authorize(p)
    <2>1. PermitMap' = [PermitMap EXCEPT ![decided + 1] = "granted"]
        BY <1>0, <1>1, <1>3 DEF Authorize, PermitMap, Permit, TypeOK
    <2>2. PermitMap[decided + 1] = "none" /\ PhaseOf' = "allowed"
        BY <1>0, <1>1, <1>3 DEF Authorize, PermitMap, Permit, PhaseOf
    <2> QED
        BY <1>0, <1>1, <1>2, <2>1, <2>2 DEF Promise!Next, Promise!Grant, PermitMap, Uses
<1>4. CASE Reject(p)
    <2>1. ASSUME NEW n \in Decisions
          PROVE  Permit(n)' = IF Permit(n) = "granted" THEN "void" ELSE Permit(n)
        <3>1. approval'[n] = IF approval[n] \in {"issued", "reserved"}
                             THEN "revoked" ELSE approval[n]
            BY <1>4 DEF Reject, Revocable
        <3> QED
            BY <1>0, <3>1 DEF Permit, TypeOK
    <2>2. PermitMap' = Promise!Without(Promise!Granted)
        BY <2>1 DEF PermitMap, Promise!Without, Promise!Granted
    <2>3. PhaseOf' = "rejected"
        BY <1>4 DEF Reject, PhaseOf
    <2> QED
        BY <1>2, <2>2, <2>3 DEF Promise!Next, Promise!Reject, PermitMap, Uses
<1> QED
    BY <1>3, <1>4

LEMMA CommitRefines ==
    ASSUME ApprovalInv, ApprovalInv', NEW r \in Runs, WorkerCommits(r)
    PROVE  Promise!Next
<1> DEFINE n == uses[r]
<1>1. /\ TypeOK /\ approval[n] = "reserved" /\ effect[r] = "dispatched" /\ step = "running"
      /\ applied = {} /\ applied' = {r} /\ UNCHANGED <<uses, step>>
    BY DEF ApprovalInv, WorkersOK, AdoptionOK, WorkerCommits, MayCommit, HeldBy, runVars
<1>2. n \in Decisions
    BY <1>1 DEF ApprovalInv, EffectsOK, TypeOK, Decisions
<1>3. PermitMap[n] = "granted" /\ PhaseOf = "allowed" /\ PhaseOf' = PhaseOf
    BY <1>1, <1>2, PermitOf, PhaseIs DEF PhaseOf
<1>4. PermitMap' = [PermitMap EXCEPT ![n] = "spent"]
    BY <1>1, <1>2 DEF WorkerCommits, PermitMap, Permit, TypeOK
<1>5. Uses = {} /\ Uses' = {n}
    BY <1>1 DEF Uses
<1> QED
    BY <1>2, <1>3, <1>4, <1>5 DEF Promise!Next, Promise!Apply, PermitMap, Uses

(* A run that is settled adopted nothing, nor did those before it.            *)
LEMMA NothingApplied ==
    ASSUME ApprovalInv, runs > 0, Settled(runs) PROVE Uses = {}
<1>1. ASSUME NEW r \in Runs, r <= runs PROVE r \notin applied
    <2>1. Settled(r)
        BY <1>1 DEF ApprovalInv, HistoryOK, TypeOK, Runs
    <2> QED
        BY <1>1, <2>1 DEF ApprovalInv, EffectsOK, AdoptionOK, ProofsOK, Settled
<1>2. ASSUME NEW r \in Runs, r > runs PROVE r \notin applied
    BY <1>2 DEF ApprovalInv, EffectsOK, AdoptionOK
<1>3. applied = {}
    BY <1>1, <1>2 DEF ApprovalInv, TypeOK, Runs
<1> QED
    BY <1>3 DEF Uses

LEMMA CloseRefines ==
    ASSUME ApprovalInv, StoreOutput \/ ProveApplied PROVE Promise!Next
<1>1. /\ TypeOK /\ step \in {"running", "failed"} /\ step' = "checking" /\ runs \in Runs
      /\ effect[runs] = "committed" /\ UNCHANGED <<approval, uses, applied>>
    BY DEF ApprovalInv, ControlOK, TypeOK, Busy, StoreOutput, EndRun, ProveApplied, Reconcile, Runs,
           approvalVars, effectVars, targetVars
<1>2. PhaseOf = "allowed" /\ PhaseOf' = "closed"
    BY <1>1, PhaseIs DEF PhaseOf
<1>3. PermitMap' = PermitMap /\ Uses' = Uses /\ Uses # {}
    BY <1>1 DEF PermitMap, Permit, Uses, ApprovalInv, AdoptionOK
<1> QED
    BY <1>2, <1>3 DEF Promise!Next, Promise!Close, PermitMap, Uses

LEMMA RetryRefines ==
    ASSUME ApprovalInv, Retry
    PROVE  Promise!Next \/ UNCHANGED <<PermitMap, PhaseOf, Uses>>
<1>1. /\ TypeOK /\ step = "failed" /\ step' \in {"awaiting", "ready"} /\ Uses = {}
      /\ UNCHANGED <<approval, uses, applied>>
    BY NothingApplied
    DEF ApprovalInv, ControlOK, Retry, approvalVars, effectVars, targetVars
<1>2. PhaseOf = "allowed" /\ PhaseOf' \in {"asking", "allowed"}
    BY <1>1, PhaseIs DEF PhaseOf
<1>3. PermitMap' = PermitMap /\ Uses' = Uses
    BY <1>1 DEF PermitMap, Permit, Uses
<1> QED
    BY <1>1, <1>2, <1>3 DEF Promise!Next, Promise!AskAgain, PermitMap, Uses

(* Approvals that an action may only lapse or hand back.                      *)
LEMMA LapseSteps ==
    ASSUME ApprovalInv, ApprovalInv',
           \/ \E p \in Sessions : DecisionTooLate(p)
           \/ ResolveContext \/ ReserveRefused \/ DispatchRefused \/ MarkUncertain
           \/ Reserve \/ ReconcileStartup
    PROVE  Promise!Next
<1> USE DEF Decisions
<1>1. TypeOK /\ TypeOK' /\ UNCHANGED PhaseOf
    BY DEF ApprovalInv, PhaseOf, DecisionTooLate, ResolveContext, ReserveRefused, DispatchRefused,
           MarkUncertain, Reserve, ReconcileStartup, runVars
<1>2. UNCHANGED applied /\ \A r \in applied : uses'[r] = uses[r]
    <2>1. CASE Reserve
        BY <2>1 DEF ApprovalInv, ControlOK, AdoptionOK, TypeOK, Reserve, targetVars
    <2>2. CASE ~Reserve
        BY <2>2 DEF DecisionTooLate, ResolveContext, ReserveRefused, DispatchRefused,
                    MarkUncertain, ReconcileStartup, targetVars, effectVars
    <2> QED
        BY <2>1, <2>2
<1>3. UNCHANGED Uses
    BY <1>2 DEF Uses
<1>4. ASSUME NEW n \in Decisions
      PROVE  \/ approval'[n] = approval[n]
             \/ /\ approval[n] \in {"issued", "reserved"}
                /\ approval'[n] \in {"issued", "reserved", "revoked", "expired"}
    <2>1. CASE ResolveContext
        BY <1>1, <2>1 DEF ResolveContext, WithoutStale, TypeOK
    <2>4. CASE ReserveRefused
        BY <1>1, <2>4 DEF ReserveRefused, TypeOK
    <2>5. CASE Reserve
        BY <1>1, <2>5 DEF Reserve, WithoutStale, Usable, TypeOK
    <2>2. CASE DispatchRefused \/ MarkUncertain
        BY <1>1, <2>2 DEF DispatchRefused, MarkUncertain, Released, HeldBy, TypeOK
    <2>3. CASE ReconcileStartup \/ \E p \in Sessions : DecisionTooLate(p)
        BY <1>1, <2>3 DEF ReconcileStartup, DecisionTooLate, Revocable, Released, TypeOK
    <2> QED
        BY <2>1, <2>2, <2>3, <2>4, <2>5
<1> QED
    BY <1>1, <1>3, <1>4, LapseRefines DEF Promise!Next

(* What the promise does not see.                                             *)
LEMMA Unseen ==
    ASSUME ApprovalInv,
           \/ \E p \in Sessions : SessionLapses(p) \/ SessionRefused(p)
           \/ \E n \in Decisions : ApprovalLapses(n)
           \/ TargetDrifts \/ Crash \/ ProveFenced \/ StartRun \/ RefusedEarly \/ MarkDispatch
           \/ MarkEffectDispatched \/ LaunchRefused \/ ToolSucceeds \/ ToolFails \/ FailRun
           \/ RecoverPlan \/ UNCHANGED vars
    PROVE  UNCHANGED <<PermitMap, PhaseOf, Uses>>
<1>1. UNCHANGED <<approval, uses, applied>>
    BY DEF SessionLapses, SessionRefused, ApprovalLapses, TargetDrifts, Crash, ProveFenced,
           Reconcile, StartRun, RefusedEarly, MarkDispatch, MarkEffectDispatched, LaunchRefused,
           ToolSucceeds, ToolFails, FailRun, EndRun, RecoverPlan, vars, approvalVars, effectVars,
           targetVars
<1>2. UNCHANGED step \/ (step \in {"ready", "running", "failed"} /\ step' \in {"running", "failed"})
    BY DEF ApprovalInv, ControlOK, Busy, SessionLapses, SessionRefused, ApprovalLapses,
           TargetDrifts, Crash, ProveFenced, Reconcile, StartRun, RefusedEarly, MarkDispatch,
           MarkEffectDispatched, LaunchRefused, ToolSucceeds, ToolFails, FailRun, EndRun,
           RecoverPlan, vars, runVars
<1>3. UNCHANGED PhaseOf
    BY <1>2 DEF PhaseOf
<1>4. UNCHANGED PermitMap
    BY <1>1 DEF PermitMap, Permit
<1>5. UNCHANGED Uses
    BY <1>1 DEF Uses
<1> QED
    BY <1>3, <1>4, <1>5

LEMMA NextRefines ==
    ASSUME ApprovalInv, ApprovalInv', [Next]_vars PROVE [Promise!Next]_(Promise!vars)
<1> DEFINE Refined == Promise!Next \/ UNCHANGED <<PermitMap, PhaseOf, Uses>>
<1>1. ASSUME World PROVE Refined
    <2>1. ASSUME NEW r \in Runs, WorkerCommits(r) PROVE Refined
        BY <2>1, CommitRefines
    <2>2. ASSUME NEW p \in Sessions, SessionLapses(p) \/ SessionRefused(p) PROVE Refined
        BY <2>2, Unseen
    <2>3. ASSUME NEW p \in Sessions, DecisionTooLate(p) PROVE Refined
        BY <2>3, LapseSteps
    <2>4. (\E n \in Decisions : ApprovalLapses(n)) \/ TargetDrifts \/ Crash => Refined
        BY Unseen
    <2> QED
        BY <1>1, <2>1, <2>2, <2>3, <2>4 DEF World
<1>2. ASSUME Human PROVE Refined
    <2>1. ASSUME NEW p \in Sessions, Authorize(p) \/ Reject(p) PROVE Refined
        BY <2>1, DecideRefines
    <2> QED
        BY <1>2, <2>1, RetryRefines, CloseRefines, Unseen DEF Human
<1>3. ASSUME Executor PROVE Refined
    BY <1>3, LapseSteps, CloseRefines, Unseen DEF Executor
<1>4. ASSUME UNCHANGED vars PROVE Refined
    BY <1>4, Unseen
<1>5. Refined
    BY <1>1, <1>2, <1>3, <1>4 DEF Next
<1> QED
    BY <1>5 DEF Promise!vars, PermitMap, Uses

(* Decisions, runner, worker and startup implement what approval promises.    *)
THEOREM PromiseKept == Spec => ImplementsGovernedEffect
<1>1. Init => Promise!Init
    BY DEF Init, Promise!Init, Permit, PhaseOf
<1> QED
    BY <1>1, NextRefines, ApprovalInvariant, PTL DEF Spec, ImplementsGovernedEffect, Promise!Spec
-----------------------------------------------------------------------------
(* A session never becomes live again, so what is overruled stays overruled.  *)
LEMMA YieldsKept ==
    ASSUME ApprovalInv, NewestOK, UNCHANGED <<decided, verdict, author>>,
           \A p \in Sessions : session[p] # "active" => session'[p] # "active",
           \A r \in Runs : effect'[r] \in {"dispatched", "committed"} =>
               effect[r] \in {"dispatched", "committed"} /\ uses'[r] = uses[r],
           step' = step \/ step # "skipped"
    PROVE  NewestOK'
<1>1. ASSUME NEW r \in Runs, effect'[r] \in {"dispatched", "committed"}, NEW m \in uses'[r]+1..decided'
      PROVE  verdict'[m] = "approve" /\ session'[author'[m]] # "active"
  <2>1. effect[r] \in {"dispatched", "committed"} /\ uses'[r] = uses[r] /\ m \in uses[r]+1..decided
      BY <1>1
  <2>2. m \in Decisions /\ m <= decided
      BY <2>1, ApprovalBounds DEF ApprovalInv, TypeOK, Decisions
  <2>3. author[m] \in Sessions
      BY <2>2 DEF ApprovalInv, DecisionsOK
  <2> QED BY <2>1, <2>3 DEF NewestOK, Yields
<1>2. ASSUME NEW m \in 1..decided', verdict'[m] = "reject" PROVE step' = "skipped"
    BY <1>2 DEF NewestOK
<1> QED BY <1>1, <1>2 DEF NewestOK, Yields

(* Somebody is asked only when nothing dispatched is left unsettled.          *)
LEMMA NothingDispatchedWhenAsked ==
    ASSUME ApprovalInv, step = "awaiting", NEW r \in Runs
    PROVE  effect[r] \notin {"dispatched", "committed"}
<1>1. effect[r] # "none" => r \in marked /\ r \in 1..runs
    BY DEF ApprovalInv, EffectsOK, Runs, TypeOK
<1>2. r \in 1..runs => Settled(r)
    BY DEF ApprovalInv, HistoryOK
<1> QED BY <1>1, <1>2 DEF Settled, ApprovalInv, ProofsOK

(* A decision is taken while nothing is dispatched; a rejection closes the    *)
(* step.                                                                      *)
LEMMA DecideKeepsNewest ==
    ASSUME ApprovalInv, NewestOK, NEW p \in Sessions, Authorize(p) \/ Reject(p)
    PROVE  NewestOK'
<1> USE DEF Authorize, Reject, Decide
<1>1. step = "awaiting" /\ UNCHANGED <<effect, uses>>
    BY DEF effectVars
<1>2. \A r \in Runs : effect'[r] \notin {"dispatched", "committed"}
    BY <1>1, NothingDispatchedWhenAsked
<1>3. \A m \in 1..decided : verdict[m] # "reject"
    BY <1>1 DEF NewestOK
<1>4. decided \in Nat /\ decided + 1 \in Decisions /\ verdict \in [Decisions -> {"none", "approve", "reject"}]
    BY ApprovalBounds DEF ApprovalInv, TypeOK, Decisions
<1>5. ASSUME NEW m \in 1..decided', verdict'[m] = "reject" PROVE step' = "skipped"
  <2>1. m \in Decisions /\ (m = decided + 1 \/ m \in 1..decided)
      BY <1>4, ApprovalBounds DEF Decisions
  <2> QED BY <1>3, <1>4, <1>5, <2>1
<1> QED BY <1>2, <1>5 DEF NewestOK

(* The dispatch looks for the newest live decision once more: what is newer   *)
(* has lapsed, and it was no rejection, for the step runs.                    *)
LEMMA DispatchKeepsNewest ==
    ASSUME ApprovalInv, NewestOK, MarkEffectDispatched
    PROVE  NewestOK'
<1> USE DEF MarkEffectDispatched, decisionVars, runVars
<1>1. step = "running" /\ runs \in Runs
    BY CurrentRun DEF ApprovalInv, ControlOK, Busy
<1>2. \A m \in 1..decided : verdict[m] = "approve"
    BY <1>1, ApprovalBounds DEF NewestOK, ApprovalInv, TypeOK, DecisionsOK, Decisions
<1>3. uses[runs] \in 1..decided
    BY DEF Latest
<1>4. Yields(uses[runs])
    BY <1>2, <1>3 DEF Latest, Yields, ApprovalInv, TypeOK
<1>5. ASSUME NEW r \in Runs, effect'[r] \in {"dispatched", "committed"} PROVE Yields(uses[r])
    BY <1>1, <1>4, <1>5 DEF NewestOK, ApprovalInv, TypeOK
<1> QED BY <1>1, <1>5 DEF NewestOK, Yields

LEMMA NewestStep ==
    ASSUME ApprovalInv, NewestOK, [Next]_vars
    PROVE  NewestOK'
<1> DEFINE Kept ==
        /\ UNCHANGED <<decided, verdict, author>>
        /\ \A p \in Sessions : session[p] # "active" => session'[p] # "active"
        /\ \A r \in Runs : effect'[r] \in {"dispatched", "committed"} =>
               effect[r] \in {"dispatched", "committed"} /\ uses'[r] = uses[r]
        /\ step' = step \/ step # "skipped"
<1>1. Kept => NewestOK'
    BY YieldsKept
<1>2. ASSUME NEW p \in Sessions, SessionLapses(p) \/ SessionRefused(p) \/ DecisionTooLate(p) PROVE Kept
    BY <1>2 DEF SessionLapses, SessionRefused, DecisionTooLate, runVars, effectVars, ApprovalInv, TypeOK
<1>3. ASSUME NEW n \in Decisions, ApprovalLapses(n) PROVE Kept
    BY <1>3 DEF ApprovalLapses, decisionVars, runVars, effectVars
<1>4. CASE TargetDrifts \/ Crash \/ UNCHANGED vars
    BY <1>1, <1>4 DEF TargetDrifts, Crash, vars, decisionVars, runVars, effectVars
<1>5. ASSUME NEW r \in Runs, WorkerCommits(r) PROVE Kept
    BY <1>5 DEF WorkerCommits, MayCommit, decisionVars, runVars, ApprovalInv, TypeOK
<1>6. CASE Retry \/ ProveApplied \/ ProveFenced
    BY <1>1, <1>6 DEF Retry, ProveApplied, ProveFenced, Reconcile, decisionVars, effectVars
<1>7. CASE StartRun \/ ResolveContext \/ RefusedEarly \/ MarkDispatch \/ ReserveRefused
    BY <1>1, <1>7 DEF StartRun, ResolveContext, RefusedEarly, MarkDispatch, ReserveRefused, decisionVars,
        runVars, effectVars
<1>8. CASE Reserve
  <2>1. runs \in Runs
      BY <1>8, CurrentRun DEF Reserve, ApprovalInv, Busy
  <2> QED BY <1>1, <1>8, <2>1 DEF Reserve, decisionVars, runVars, ApprovalInv, TypeOK
<1>9. CASE DispatchRefused \/ MarkUncertain
  <2>1. runs \in Runs
      BY <1>9, CurrentRun DEF DispatchRefused, MarkUncertain, ApprovalInv, Busy
  <2> QED BY <1>1, <1>9, <2>1 DEF DispatchRefused, MarkUncertain, decisionVars, runVars, ApprovalInv, TypeOK
<1>10. CASE LaunchRefused \/ ToolSucceeds \/ ToolFails
    BY <1>1, <1>10 DEF LaunchRefused, ToolSucceeds, ToolFails, decisionVars, runVars, effectVars
<1>11. CASE FailRun \/ StoreOutput
    BY <1>1, <1>11 DEF FailRun, StoreOutput, EndRun, decisionVars, effectVars, ApprovalInv, ControlOK, Busy
<1>12. CASE ReconcileStartup \/ RecoverPlan
    BY <1>1, <1>12 DEF ReconcileStartup, RecoverPlan, decisionVars, runVars, effectVars
<1> QED BY <1>1, <1>2, <1>3, <1>4, <1>5, <1>6, <1>7, <1>8, <1>9, <1>10, <1>11, <1>12,
       DecideKeepsNewest, DispatchKeepsNewest DEF Next, World, Human, Executor

(* OverruledNeverActs: whoever rejects, decides later or leaves, and whatever *)
(* worker is still alive, an adoption happens under an older approval only    *)
(* past newer approvals whose sessions had ended (_latest_exact_decision_row, *)
(* governance/repository.py:1024, used at resolution, reservation and         *)
(* dispatch).                                                                 *)
THEOREM OverruledNeverActsHolds == Spec => []OverruledNeverActs
<1>1. Init => NewestOK
    BY DEF Init, NewestOK
<1>2. ApprovalInv /\ NewestOK => OverruledNeverActs
    BY DEF ApprovalInv, AdoptionOK, TypeOK, NewestOK, OverruledNeverActs
<1> QED BY <1>1, <1>2, NewestStep, ApprovalInvariant, PTL DEF Spec
=============================================================================
