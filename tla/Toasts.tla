---- MODULE Toasts ----
(***************************************************************************)
(* The toasts of the Workbench: pushToast and dismissToast                 *)
(* (workbench-context.tsx) and the region that shows them                  *)
(* (toast-region.tsx).  The timer of a neutral toast is never cancelled.   *)
(***************************************************************************)
EXTENDS Naturals, FiniteSets

CONSTANT MaxToasts   \* bound: toasts pushed

ASSUME ToastAssumption == MaxToasts \in Nat

VARIABLES
  toasts,    \* the toasts on screen
  toastId,   \* the last id given
  timers     \* the timers set and not yet fired

toastVars == <<toasts, toastId, timers>>

\* Variant: a toast is numbered by its place on screen.
NextIdByCount == Cardinality(toasts) + 1

NextId == toastId + 1

pushToast(tone) ==
  /\ toastId < MaxToasts
  /\ toastId' = NextId
  /\ toasts' = toasts \union {[id |-> NextId, tone |-> tone]}
  /\ timers' = IF tone = "neutral" THEN timers \union {NextId} ELSE timers

\* A copy button: the clipboard takes the value or refuses it.  The other callers
\* push toasts of the same two tones.
copyValue == pushToast("neutral") \/ pushToast("error")

Without(id) == {t \in toasts : t.id # id}

\* The close button every toast has.
Close ==
  \E t \in toasts :
    /\ toasts' = Without(t.id)
    /\ UNCHANGED <<toastId, timers>>

\* 4200 ms after a neutral toast was pushed, on screen or not.
TimerFires ==
  \E id \in timers :
    /\ toasts' = Without(id)
    /\ timers' = timers \ {id}
    /\ UNCHANGED toastId

ToastsInit == toasts = {} /\ toastId = 0 /\ timers = {}
ToastsNext == copyValue \/ Close \/ TimerFires

ToastsSpec == ToastsInit /\ [][ToastsNext]_toastVars

(***************************************************************************)
(* Properties.                                                             *)
(***************************************************************************)
\* An error stays until the user closes it: the timer of a toast closed before it
\* fired removes no other toast, in particular no error pushed since.
ErrorsStay ==
  [][\A t \in toasts \ toasts' : t.tone = "error" =>
       toasts' = toasts \ {t} /\ timers' = timers]_toastVars
====
