------------------------------ MODULE AgentProfile ------------------------------
(***************************************************************************)
(* An agent profile on a workstation (src/agent.rs: create_profile,        *)
(* bind_profile, AgentClient::load): a seed file and a profile file,       *)
(* created by commands that may run in two terminals at once and end       *)
(* anywhere.  A person registers the public key that a creation prints.    *)
(***************************************************************************)
EXTENDS Naturals

CONSTANTS
  Procs,      \* terminals and MCP servers
  Keys,       \* signing seeds, each with its public key
  None,       \* no key, approval or idempotency key
  MaxStops    \* bound: commands stopped, requests delayed, answers lost

ASSUME ProfileAssumption == None \notin Keys /\ MaxStops \in Nat

VARIABLES
  seed,       \* keys/NAME.seed
  profile,    \* profiles/NAME.yaml
  registered, \* the public keys that creations printed
  pc, cmd,    \* process -> where it is, and in which command
  held,       \* process -> the seed it holds in memory
  stops

files == <<seed, profile, registered>>

FileState == {"absent", "torn", "ok"}
NoCommand == [kind |-> "none"]
Create    == [kind |-> "create"]

ProfileInit ==
  /\ seed = [state |-> "absent", key |-> None]
  /\ profile = [state |-> "absent", key |-> None, bound |-> FALSE]
  /\ registered = {}
  /\ pc = [p \in Procs |-> "idle"] /\ cmd = [p \in Procs |-> NoCommand]
  /\ held = [p \in Procs |-> None]
  /\ stops = 0

At(p, l)   == pc[p] = l
Goto(p, l) == pc' = [pc EXCEPT ![p] = l]
Starts(p, l, c, k) ==
  /\ At(p, "idle") /\ Goto(p, l)
  /\ cmd' = [cmd EXCEPT ![p] = c] /\ held' = [held EXCEPT ![p] = k]
Ends(p) ==
  /\ Goto(p, "idle")
  /\ cmd' = [cmd EXCEPT ![p] = NoCommand] /\ held' = [held EXCEPT ![p] = None]
Fails == stops < MaxStops /\ stops' = stops + 1

-------------------------------------------------------------------------------
\* create_profile: a fresh seed, unless the profile exists ...
CreateBegin(p) ==
  /\ profile.state = "absent"
  /\ \E k \in Keys : /\ k # seed.key /\ \A q \in Procs : held[q] # k
                     /\ Starts(p, "seed", Create, k)
  /\ UNCHANGED <<files, stops>>

\* Mutant: the seed file of an earlier creation is written over.
SeedOpenAny(p) ==
  /\ At(p, "seed")
  /\ seed' = [state |-> "torn", key |-> held[p]]
  /\ Goto(p, "seeding")
  /\ UNCHANGED <<profile, registered, cmd, held, stops>>

\* ... is written to a seed file that is not there (write_private_new) ...
SeedOpen(p) ==
  /\ At(p, "seed") /\ seed.state = "absent"
  /\ seed' = [state |-> "torn", key |-> held[p]]
  /\ Goto(p, "seeding")
  /\ UNCHANGED <<profile, registered, cmd, held, stops>>

SeedWrite(p) ==
  /\ At(p, "seeding")
  /\ seed' = [state |-> "ok", key |-> held[p]]
  /\ Goto(p, "profile")
  /\ UNCHANGED <<profile, registered, cmd, held, stops>>

\* ... then the profile likewise, and the public key is printed.
ProfileOpen(p) ==
  /\ At(p, "profile") /\ profile.state = "absent"
  /\ profile' = [profile EXCEPT !.state = "torn"]
  /\ Goto(p, "profiling")
  /\ UNCHANGED <<seed, registered, cmd, held, stops>>

ProfileWrite(p) ==
  /\ At(p, "profiling")
  /\ profile' = [state |-> "ok", key |-> held[p], bound |-> FALSE]
  /\ registered' = registered \cup {held[p]}
  /\ Ends(p)
  /\ UNCHANGED <<seed, stops>>

\* write_private_new fails over a file that appeared meanwhile, or was left.
CreateRefused(p) ==
  /\ \/ At(p, "seed") /\ seed.state # "absent"
     \/ At(p, "profile") /\ profile.state # "absent"
  /\ Ends(p)
  /\ UNCHANGED <<files, stops>>

\* bind_profile: read, then renamed over.
Bind ==
  /\ profile.state = "ok" /\ ~profile.bound
  /\ profile' = [profile EXCEPT !.bound = TRUE]
  /\ UNCHANGED <<seed, registered, pc, cmd, held, stops>>

\* AgentClient::load, and the delegation that every request needs.
Usable == profile.state = "ok" /\ seed.state = "ok" /\ profile.bound

Creation(p) ==
  SeedOpen(p) \/ SeedWrite(p) \/ ProfileOpen(p) \/ ProfileWrite(p) \/ CreateRefused(p)

-------------------------------------------------------------------------------
\* Two creations at once, stopped anywhere, never leave a profile that signs
\* with another key than the one that was printed and registered.
ProfileSigns ==
  /\ profile.state = "ok" => seed = [state |-> "ok", key |-> profile.key]
  /\ registered # {} => registered = {seed.key}
===============================================================================
