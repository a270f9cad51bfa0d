------------------------------- MODULE Shutdown -------------------------------
(***************************************************************************)
(* What the shutdown coordinator (src/src/signals.py) promises to main.py  *)
(* and to the owners of cleanups, without its phases, handlers, locks and  *)
(* threads.  The first signal cancels the process and starts the one drain *)
(* there is.  The drain starts cleanups newest first and ends when every   *)
(* accepted one that nobody withdrew has started, unless a further signal  *)
(* gave it up or its time ran out.  Each signal is handed to the prior     *)
(* disposition at most once, the signal of the drain only after it, and    *)
(* none while the main program counts on a drain that nobody gave up.      *)
(***************************************************************************)
EXTENDS Integers

CONSTANTS
  Cleanups,      \* a cleanup is the number of its registration
  Signals,       \* signal occurrences
  EarlySignals   \* may a signal arrive while install() is running?

VARIABLES
  main,          \* the main program: starting, working, leaving
  cancelled,     \* the cancellation token of the process
  accepted,      \* cleanups whose register() has returned a token
  withdrawn,     \* cleanups that somebody has tried to unregister
  started,       \* cleanups that have been started
  drain,         \* none, running, over
  taken,         \* the signals that have started a drain
  latched,       \* a further signal has given the drain up
  late,          \* the grace period has run out
  handed,        \* signals the prior disposition has seen
  ended          \* the process is gone

cleanups == <<accepted, withdrawn, started>>
draining == <<drain, taken, latched, late>>
vars == <<main, cancelled, cleanups, draining, handed, ended>>

Init ==
  /\ main = "starting" /\ cancelled = FALSE
  /\ accepted = {} /\ withdrawn = {} /\ started = {}
  /\ drain = "none" /\ taken = {} /\ latched = FALSE /\ late = FALSE
  /\ handed = {} /\ ended = FALSE

\* The main program counts on a drain that nobody has given up.
Undisturbed == drain = "running" /\ ~latched /\ main = "working"

Work ==             \* install() returns: from here on cleanups are guaranteed
  /\ main = "starting" /\ main' = "working"
  /\ UNCHANGED <<cancelled, cleanups, draining, handed, ended>>

Leave ==
  /\ main # "leaving" /\ main' = "leaving"
  /\ UNCHANGED <<cancelled, cleanups, draining, handed, ended>>

Cancel ==
  /\ main # "starting" /\ ~cancelled /\ cancelled' = TRUE
  /\ UNCHANGED <<main, cleanups, draining, handed, ended>>

\* After the drain nothing is accepted, unless the drain was given up.
Accept(i) ==
  /\ i \notin accepted /\ main # "starting"
  /\ drain = "over" => latched
  /\ accepted' = accepted \cup {i}
  /\ UNCHANGED <<main, cancelled, withdrawn, started, draining, handed, ended>>

Withdraw(i) ==
  /\ i \in accepted \ withdrawn /\ withdrawn' = withdrawn \cup {i}
  /\ UNCHANGED <<main, cancelled, accepted, started, draining, handed, ended>>

Begin(k) ==
  /\ main # "starting" /\ cancelled /\ drain = "none" /\ k \notin handed
  /\ drain' = "running" /\ taken' = {k}
  /\ UNCHANGED <<main, cancelled, cleanups, latched, late, handed, ended>>

Start(i) ==
  /\ drain = "running" /\ \A j \in started : j > i
  /\ started' = started \cup {i}
  /\ UNCHANGED <<main, cancelled, accepted, withdrawn, draining, handed, ended>>

Latch ==
  /\ ~latched /\ cancelled /\ latched' = TRUE
  /\ UNCHANGED <<main, cancelled, cleanups, drain, taken, late, handed, ended>>

Expire ==
  /\ ~late /\ cancelled /\ late' = TRUE
  /\ UNCHANGED <<main, cancelled, cleanups, drain, taken, latched, handed, ended>>

Finish ==
  /\ drain = "running" /\ drain' = "over"
  /\ latched \/ late \/ accepted \ withdrawn \subseteq started
  /\ UNCHANGED <<main, cancelled, cleanups, taken, latched, late, handed, ended>>

\* The prior disposition sees signal k; it may end the process.
Hand(k) ==
  /\ k \notin handed /\ ~Undisturbed
  /\ k \in taken => drain = "over"
  /\ ~EarlySignals /\ main # "leaving" => main = "working" /\ cancelled
  /\ handed' = handed \cup {k} /\ ended' \in BOOLEAN
  /\ UNCHANGED <<main, cancelled, cleanups, draining>>

\* The interpreter exits, or the worker ends the process after its drain.
End ==
  /\ main = "leaving" \/ drain = "over"
  /\ ended' = TRUE
  /\ UNCHANGED <<main, cancelled, cleanups, draining, handed>>

Next ==
  /\ ~ended
  /\ \/ Work \/ Leave \/ Cancel \/ Latch \/ Expire \/ Finish \/ End
     \/ \E i \in Cleanups : Accept(i) \/ Withdraw(i) \/ Start(i)
     \/ \E k \in Signals : Begin(k) \/ Hand(k)

Spec == Init /\ [][Next]_vars
==============================================================================
