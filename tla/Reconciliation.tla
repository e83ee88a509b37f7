---------------------------- MODULE Reconciliation ----------------------------
(***************************************************************************)
(* What the remote-write controller of a process promises about which      *)
(* tenants it serves, and with which configuration, whatever races it: it  *)
(* serves what a List returned, taken as a whole, or what passes for it.   *)
(* Start serves the first List piece by piece, the loop every later one at *)
(* once; between two Lists nothing changes but by Stop and by the end of   *)
(* the process; and a loop that was cancelled lists no more.               *)
(*                                                                         *)
(* JobLifecycle implements this for the jobs and collectors of one         *)
(* process, Leadership for each of its replicas.                           *)
(***************************************************************************)
CONSTANTS
    Keys,       \* namespace/name of the MetricAccess resources
    Nothing,    \* no configuration
    Passes      \* pairs of configurations: one that may go on being served, and
                \* the one listed

VARIABLES
    wanted,     \* key -> the configuration its resource asks for, or Nothing
    serving,    \* key -> the configuration it is served with, or Nothing
    listed,     \* key -> what was wanted at the List under way; Nothing without one
    phase,      \* "new", "loading" (Start), "waiting", "ticking", "returned" (the loop)
    told        \* what tells the loop to end: "cancelled", "stopped"

vars == <<wanted, serving, listed, phase, told>>

Unserved == [k \in Keys |-> Nothing]

Init ==
    /\ serving = Unserved
    /\ listed = Unserved
    /\ phase = "new"
    /\ told = {}

-----------------------------------------------------------------------------
(* Start and the loop.                                                     *)

\* A List that succeeds, as none does under a cancelled context.
List(from, to) ==
    /\ phase = from
    /\ "cancelled" \notin told
    /\ listed' = wanted
    /\ phase' = to
    /\ UNCHANGED <<wanted, serving, told>>

\* Start's List fails: it has nothing to load.
StartWithoutList ==
    /\ phase = "new"
    /\ phase' \in {"loading", "waiting"}
    /\ UNCHANGED <<wanted, serving, listed, told>>

\* Start has served some of the listed keys.
Load ==
    /\ phase = "loading"
    /\ \A k \in Keys : serving'[k] \in {serving[k], listed[k]}
    /\ serving' = [k \in Keys |-> serving'[k]]
    /\ UNCHANGED <<wanted, listed, phase, told>>

\* What is listed is served, no less and no more, but where what is served
\* passes for it; the loop waits for its ticker.
Serve(from) ==
    /\ phase = from
    /\ \A k \in Keys : \/ serving'[k] = listed[k]
                       \/ serving'[k] = serving[k] /\ <<serving[k], listed[k]>> \in Passes
    /\ serving' = [k \in Keys |-> serving'[k]]
    /\ listed' = Unserved
    /\ phase' = "waiting"
    /\ UNCHANGED <<wanted, told>>

Return ==
    /\ phase = "waiting"
    /\ told # {}
    /\ phase' = "returned"
    /\ UNCHANGED <<wanted, serving, listed, told>>

-----------------------------------------------------------------------------
(* The others.                                                             *)

Tell ==
    /\ \E reason \in {"cancelled", "stopped"} : told' = told \cup {reason}
    /\ UNCHANGED <<wanted, serving, listed, phase>>

Stop ==
    /\ "stopped" \in told
    /\ serving' = Unserved
    /\ UNCHANGED <<wanted, listed, phase, told>>

ProcessEnds ==
    /\ serving' = Unserved
    /\ listed' = Unserved
    /\ phase' = "new"
    /\ told' = {}
    /\ UNCHANGED wanted

\* Resources are created, edited or deleted.
Edit ==
    /\ wanted' # wanted
    /\ UNCHANGED <<serving, listed, phase, told>>

Next ==
    \/ List("new", "loading") \/ StartWithoutList \/ Load \/ Serve("loading")
    \/ List("waiting", "ticking") \/ Serve("ticking") \/ Return
    \/ Tell \/ Stop \/ ProcessEnds \/ Edit

Spec == Init /\ [][Next]_vars

-----------------------------------------------------------------------------
(* Convergence: one List after the last edit is enough, and for good.      *)

\* The loop runs and nothing tells it to end.
Serving == phase \in {"waiting", "ticking"} /\ told = {}

\* No List is under way that is older than the last edit.
Fresh == phase = "ticking" => listed = wanted

\* Each key is served with what its resource asks for, or what passes for it.
Kept ==
    \A k \in Keys : serving[k] = wanted[k] \/ <<serving[k], wanted[k]>> \in Passes

Settled == Fresh /\ Kept

LOCAL INSTANCE TLAPS

(***************************************************************************)
(* Once the resources stay as they are and the loop goes on, what is       *)
(* served comes to be what is wanted or passes for it, and stays so.  The  *)
(* hypotheses are about states alone, so that no fairness is needed here:  *)
(* that a loop that goes on keeps ticking and waiting is left to the       *)
(* implementation.                                                         *)
(***************************************************************************)
THEOREM Settles ==
    /\ [][Next]_vars
    /\ <>[]Serving
    /\ []<>(phase = "waiting") /\ []<>(phase = "ticking")
    /\ <>[][FALSE]_wanted
    => <>[]Kept
<1> DEFINE CalmStep == Serving /\ Serving' /\ wanted' = wanted /\ Next
           Caught == Fresh /\ phase = "ticking"
<1>1. [Next]_vars /\ Serving /\ Serving' /\ [FALSE]_wanted => [CalmStep]_vars
  OBVIOUS
<1>2. /\ phase = "waiting" => Fresh
      /\ Fresh /\ phase = "ticking" => Caught
      /\ ~(Caught /\ phase = "waiting")
      /\ Settled => Kept
  BY DEF Fresh, Settled
<1>3. /\ Fresh /\ [CalmStep]_vars => Fresh'
      /\ Settled /\ [CalmStep]_vars => Settled'
      /\ Caught /\ [CalmStep]_vars => Caught' \/ Settled'
  BY DEF Settled, Kept, Fresh, Serving, Next, vars, List, StartWithoutList, Load, Serve, Return,
         Tell, Stop, ProcessEnds, Edit
<1> HIDE DEF CalmStep, Caught
<1>4. [][Next]_vars /\ <>[]Serving /\ <>[][FALSE]_wanted => <>[][CalmStep]_vars
  BY <1>1, PTL
<1>5. <>[][CalmStep]_vars /\ []<>(phase = "waiting") => <>([][CalmStep]_vars /\ []Fresh)
  BY <1>2, <1>3, PTL
<1>6. /\ <>([][CalmStep]_vars /\ []Fresh)
      /\ []<>(phase = "waiting") /\ []<>(phase = "ticking")
      => <>([][CalmStep]_vars /\ Settled)
  BY <1>2, <1>3, PTL
<1>7. <>([][CalmStep]_vars /\ Settled) => <>[]Settled
  BY <1>3, PTL
<1> QED
  BY <1>2, <1>4, <1>5, <1>6, <1>7, PTL
=============================================================================
