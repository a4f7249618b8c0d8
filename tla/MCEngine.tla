------------------------------ MODULE MCEngine ------------------------------
(* The write-ahead log and the engine for TLC; Engine uses the log as Wal  *)
(* shows it to be, so they share no state here.  The calls of either are   *)
(* interchangeable, and the same model values.  Each behaviour has one of  *)
(* four modes: the machine loses power under concurrent appends; a         *)
(* checkpoint runs beside three appends, or a checkpoint and a truncation  *)
(* beside two; the engine runs without a crash, and compactions wait for   *)
(* two files; the process may crash at every step, with one flush and one  *)
(* forced compaction of single rows.                                       *)
EXTENDS Wal, Engine, TLC

VARIABLE mode

modeVars == <<mode, vars, engVars>>

Appends == \A c \in Ckpts \cup Truncs : pc[c] = "idle"
Truncating ==
    /\ losses' = losses
    /\ (\E c \in Truncs : pc'[c] # "idle") => \E p \in Puts : pc'[p] = "idle"
Runtime ==
    /\ crashes' = crashes
    /\ comp.st = "idle" /\ comp'.st # "idle" => Cardinality(Registered) >= 2
Crashing ==
    /\ flushes' <= 1 /\ compactions' <= 1 /\ ioErrors' = 0 /\ pins' = {}
    /\ \A c \in WriteCalls : call'[c].kind # "batch"

\* A log with no call under way may rest: the modes leave some calls out.
AtRest == up /\ \A c \in DOMAIN pc : ~InFlight(c)

ModeNext ==
    /\ UNCHANGED mode
    /\ \/ mode = "losses" /\ Next /\ Appends' /\ UNCHANGED engVars
       \/ mode \in {"losses", "truncation"} /\ AtRest /\ UNCHANGED <<vars, engVars>>
       \/ mode = "truncation" /\ Next /\ Truncating /\ UNCHANGED engVars
       \/ mode = "runtime" /\ EngNext /\ Runtime /\ UNCHANGED vars
       \/ mode = "crashing" /\ EngNext /\ Crashing /\ UNCHANGED vars

ModeInit == Init /\ EngInit /\ mode \in {"losses", "truncation", "runtime", "crashing"}

ModeSpec == ModeInit /\ [][ModeNext]_modeVars

CallSymmetry == Permutations(Puts)

============================================================================
