----------------------------------- MODULE Log ---------------------------------
(***************************************************************************)
(* The log (src/log/log.cpp) and the descriptor table it shares with the   *)
(* rest of the process.  Both are values, so that a thread's step can      *)
(* write a line before or after it opens and closes descriptors of its     *)
(* own; write holds mutex_ throughout and is never interrupted by another. *)
(*                                                                         *)
(* A descriptor table maps a number to what it is open on.                 *)
(***************************************************************************)
EXTENDS Integers

\* A number that is not in use.
FreeFd == <<"free">>

Full(fds) == \A fd \in DOMAIN fds : fds[fd] # FreeFd

\* The kernel hands out the lowest free number.
Lowest(fds) ==
    CHOOSE fd \in DOMAIN fds :
        /\ fds[fd] = FreeFd
        /\ \A f \in DOMAIN fds : fds[f] = FreeFd => fd <= f

Opened(fds, what) == [fds EXCEPT ![Lowest(fds)] = what]

\* close of a set of numbers, whatever they are open on by now.
Closed(fds, nums) == [fd \in DOMAIN fds |-> IF fd \in nums THEN FreeFd ELSE fds[fd]]
--------------------------------------------------------------------------------
\* The members of a new Log: init_, the state of of_ and its descriptor.
NewLog == [init |-> FALSE, stream |-> "closed", fd |-> -1]

\* The outcomes of Log::init: open fails and init_ stays false, or succeeds.  open
\* on a stream that is open already sets its failbit, after which it takes no
\* line, and leaves is_open() true.
LogInit(log, fds) ==
    IF log.stream # "closed"
    THEN {[log |-> [log EXCEPT !.init = TRUE, !.stream = "failed"], fds |-> fds]}
    ELSE {[log |-> log, fds |-> fds]} \cup
         (IF Full(fds) THEN {}
          ELSE {[log |-> [init |-> TRUE, stream |-> "open", fd |-> Lowest(fds)],
                 fds |-> Opened(fds, <<"log">>)]})

\* The outcomes of Log::write, which opens the file "default" while there is none.
LogWrite(log, fds) ==
    IF log.init THEN {[log |-> log, fds |-> fds]} ELSE LogInit(log, fds)

\* Log::~Log.
LogClosed(log) == [log EXCEPT !.stream = "closed"]
================================================================================
