------------------------------- MODULE March -------------------------------
(***************************************************************************)
(* What a memory test promises, without segments, chunks and pointers: it  *)
(* is a program of sweeps, each of which deals with its words one after    *)
(* the other in the order of their addresses, every word once, by reading  *)
(* the word if it has something to expect and then writing it if it has    *)
(* something to write.  It ends after the last word of the last sweep,     *)
(* unless it is told to stop before.                                       *)
(***************************************************************************)
EXTENDS FaultyMemory

CONSTANTS
  Trials,        \* what may be run, on which memory
  Sweeps(_),     \* the number of sweeps of a trial
  Sweep(_, _),   \* its nth sweep: [words, down, read, write]
  NoWord         \* instead of a word: nothing to read, nothing to write

VARIABLES trial, sweep, dealt, mem, reported, status

vars == <<trial, sweep, dealt, mem, reported, status>>

Sweeping == status = "running" /\ sweep <= Sweeps(trial)

Init ==
  /\ trial \in Trials
  /\ sweep = 1 /\ dealt = {}
  /\ reported = {}
  /\ status = "running"

(* The first of the words that are left, from below or from above *)
First(left, down, a) == \A b \in left : IF down THEN b <= a ELSE a <= b

Operation ==
  /\ Sweeping
  /\ LET s    == Sweep(trial, sweep)
         left == s.words \ dealt
     IN \E a \in left :
          /\ dealt' = dealt \cup {a}
          /\ First(left, s.down, a)
          /\ reported' = IF s.read[a] # NoWord /\ Load(mem, trial.fault, a) # s.read[a]
                         THEN reported \cup {a} ELSE reported
          /\ mem' = IF s.write[a] = NoWord THEN mem
                    ELSE Store(mem, trial.fault, a, s.write[a])
  /\ UNCHANGED <<trial, sweep, status>>

NextSweep ==
  /\ Sweeping /\ sweep' = sweep + 1 /\ dealt' = {}
  /\ dealt = Sweep(trial, sweep).words
  /\ UNCHANGED <<trial, mem, reported, status>>

Finish ==
  /\ status = "running" /\ sweep = Sweeps(trial) + 1
  /\ status' = "finished"
  /\ UNCHANGED <<trial, sweep, dealt, mem, reported>>

Stop ==
  /\ status = "running"
  /\ status' = "stopped"
  /\ UNCHANGED <<trial, sweep, dealt, mem, reported>>

Next == Operation \/ NextSweep \/ Finish \/ Stop

Spec == Init /\ [][Next]_vars
=============================================================================
