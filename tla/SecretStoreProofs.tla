--------------------------- MODULE SecretStoreProofs ---------------------------
(***************************************************************************)
(* Theorems about SecretStore: any number of terminals, names, commands,   *)
(* stops and disabled versions.  The invariants are stated for the runs in *)
(* which nothing happened that spoils a batch; each then says what         *)
(* an initialization in progress can rely on.                              *)
(***************************************************************************)
EXTENDS SecretStore, SequenceTheorems, TLAPS

N == Len(InternalNames)

LEMMA NameFacts ==
  /\ InternalNames \in Seq(Internal) /\ AllNames \in Seq(Names)
  /\ N \in Nat \ {0} /\ Len(AllNames) \in Nat /\ N <= Len(AllNames)
  /\ Internal \subseteq Names
  /\ \A i \in 1..N : InternalNames[i] \in Internal
  /\ \A i \in 1..Len(AllNames) : AllNames[i] \in Names
  /\ \A n \in Internal : \E i \in 1..N : n = InternalNames[i]
  /\ \A i, j \in 1..N : InternalNames[i] = InternalNames[j] => i = j
<1>1. InternalNames \in Seq(Internal) /\ InternalNames # <<>>
  BY StoreAssumption
<1>2. N \in Nat \ {0}
  BY <1>1 DEF N
<1>3. /\ OtherNames \in Seq(Names) /\ Len(OtherNames) \in Nat
  BY StoreAssumption
<1>4. /\ Len(AllNames) = N + Len(OtherNames)
      /\ \A i \in 1..N : AllNames[i] = InternalNames[i]
      /\ \A i \in 1..Len(OtherNames) : AllNames[N + i] = OtherNames[i]
  BY <1>1, <1>2, <1>3 DEF AllNames, N
<1>5. \A i \in 1..N : i \in 1..Len(AllNames)
  BY <1>2, <1>3, <1>4
<1>6. /\ Internal \subseteq Names
      /\ \A n \in Internal : \E i \in 1..N : n = InternalNames[i]
      /\ \A i \in 1..N : InternalNames[i] \in Internal
      /\ \A i \in 1..Len(AllNames) : AllNames[i] \in Names
  BY <1>4, <1>5 DEF Internal, Names, N
<1>7. AllNames \in Seq(Internal \cup Names)
  <2>1. InternalNames \in Seq(Internal \cup Names) /\ OtherNames \in Seq(Internal \cup Names)
    BY <1>1, <1>3, SeqMonotonic
  <2> QED  BY <2>1, ConcatProperties DEF AllNames
<1>8. AllNames \in Seq(Names)
  <2>1. Internal \cup Names = Names
    BY <1>6
  <2> QED  BY <1>7, <2>1
<1>9. \A i, j \in 1..N : InternalNames[i] = InternalNames[j] => i = j
  BY <1>4, <1>5, StoreAssumption
<1> QED  BY <1>1, <1>2, <1>3, <1>4, <1>6, <1>8, <1>9 DEF N

LEMMA Counting ==
  /\ 1 \in 1..N /\ 1 \in 1..Len(AllNames)
  /\ \A i \in 1..N : i \in 1..Len(AllNames) /\ (i # N => i + 1 \in 1..N)
  /\ \A i \in 1..Len(AllNames) : i # Len(AllNames) => i + 1 \in 1..Len(AllNames)
BY NameFacts

\* The names a command goes through.
LEMMA NamesOfFacts ==
  ASSUME NEW p \in Procs, k[p] \in 1..Len(AllNames),
         cmd[p].kind = "initialize" => k[p] \in 1..N
  PROVE  /\ k[p] \in 1..Len(NamesOf(p)) /\ NamesOf(p)[k[p]] \in Names
         /\ k[p] # Len(NamesOf(p)) => /\ k[p] + 1 \in 1..Len(AllNames)
                                      /\ k[p] + 1 \in 1..Len(NamesOf(p))
         /\ cmd[p].kind = "initialize" => Len(NamesOf(p)) = N
<1>1. CASE cmd[p].kind = "initialize"
  BY <1>1, NameFacts, Counting DEF NamesOf, N
<1>2. CASE cmd[p].kind # "initialize"
  BY <1>2, NameFacts, Counting DEF NamesOf
<1> QED  BY <1>1, <1>2

-------------------------------------------------------------------------------
(* Types.                                                                  *)

\* A command is at a place of its kind, at a name it goes through, and has
\* generated a batch when it writes one.
Placed(p) ==
  /\ pc[p] # "idle" => cmd[p] \in Command
  /\ pc[p] = "idle" => cmd[p] = NoCommand /\ k[p] = 1 /\ found[p] = Unpinned
  /\ pc[p] \in {"look", "decide"} => cmd[p].kind \in {"initialize", "up", "render"}
  /\ pc[p] = "write" => cmd[p].kind \in {"initialize", "set"}
  /\ cmd[p].kind = "initialize" => k[p] \in 1..N
  /\ pc[p] = "write" /\ cmd[p].kind = "initialize" => batch[p] # 0

Types == TypeOK /\ \A p \in Procs : Placed(p)

LEMMA CommandFacts ==
  /\ \A c \in Command : c.kind \in {"initialize", "up", "render", "set"}
  /\ \A c \in Command : c.kind = "set" => c.name \in Names
  /\ NoCommand.kind = "none"
BY StoreAssumption DEF Command, NoCommand

LEMMA SeesFacts ==
  ASSUME store \in [Names -> Seq(Version)], NEW p \in Procs, NEW n \in Names,
         NEW v \in Sees(p, n)
  PROVE  /\ v \in Nat
         /\ cmd[p].kind = "render" =>
              /\ v # 0 => v \in 1..Len(store[n])
              /\ \A w \in 1..Len(store[n]) : store[n][w].enabled => w <= v
         /\ cmd[p].kind # "render" /\ v = 0 => ~Exists(n) \/ ChecksMayFail
<1>1. Len(store[n]) \in Nat
  OBVIOUS
<1>2. Enabled(n) \subseteq 1..Len(store[n]) /\ Newest(n) \subseteq Enabled(n)
  BY DEF Enabled, Newest
<1>3. CASE cmd[p].kind # "render"
  BY <1>3 DEF Sees
<1>4. CASE cmd[p].kind = "render" /\ Enabled(n) = {}
  BY <1>1, <1>4 DEF Sees, Enabled
<1>5. CASE cmd[p].kind = "render" /\ Enabled(n) # {}
  <2>1. v \in Newest(n)
    BY <1>5 DEF Sees
  <2> QED  BY <1>1, <1>2, <1>5, <2>1 DEF Newest, Enabled
<1> QED  BY <1>3, <1>4, <1>5

\* What an action does to one terminal's session, and what it leaves.
LEMMA EndsKeeps ==
  ASSUME Types, NEW p \in Procs, Ends(p)
  PROVE  /\ pc' \in [Procs -> {"idle", "look", "decide", "write"}]
         /\ cmd' \in [Procs -> Command \cup {NoCommand}]
         /\ k' \in [Procs -> 1..Len(AllNames)]
         /\ found' \in [Procs -> [Names -> Nat]]
         /\ since' \in [Procs -> [Names -> SUBSET Nat]]
         /\ batch' \in [Procs -> Nat]
         /\ \A q \in Procs : Placed(q)'
<1> USE NameFacts, CommandFacts DEF Types, TypeOK, Ends
<1>1. Unpinned \in [Names -> Nat] /\ [n \in Names |-> {}] \in [Names -> SUBSET Nat]
  BY DEF Unpinned
<1>2. 1 \in 1..Len(AllNames)
  OBVIOUS
<1>3. \A q \in Procs : Placed(q)'
  <2> SUFFICES ASSUME NEW q \in Procs PROVE Placed(q)'
    OBVIOUS
  <2>1. CASE q = p
    BY <2>1 DEF Placed
  <2>2. CASE q # p
    BY <2>2 DEF Placed
  <2> QED  BY <2>1, <2>2
<1>4. /\ found' \in [Procs -> [Names -> Nat]]
      /\ since' \in [Procs -> [Names -> SUBSET Nat]]
  BY <1>1
<1>5. /\ pc' \in [Procs -> {"idle", "look", "decide", "write"}]
      /\ cmd' \in [Procs -> Command \cup {NoCommand}]
      /\ batch' \in [Procs -> Nat]
  OBVIOUS
<1>6. k' \in [Procs -> 1..Len(AllNames)]
  BY <1>2
<1> QED  BY <1>3, <1>4, <1>5, <1>6

\* A store after a version was added to one name.
LEMMA AppendKeeps ==
  ASSUME store \in [Names -> Seq(Version)], NEW n \in Names, NEW x \in Version,
         store' = [store EXCEPT ![n] = Append(@, x)]
  PROVE  /\ store' \in [Names -> Seq(Version)]
         /\ Len(store'[n]) = Len(store[n]) + 1 /\ store'[n][Len(store[n]) + 1] = x
         /\ \A v \in 1..Len(store[n]) : store'[n][v] = store[n][v]
         /\ \A m \in Names : m # n => store'[m] = store[m]
  OBVIOUS

\* A store after a version was disabled.
LEMMA DisableKeeps ==
  ASSUME store \in [Names -> Seq(Version)], NEW n \in Names,
         NEW v \in 1..Len(store[n]),
         store' = [store EXCEPT ![n][v].enabled = FALSE]
  PROVE  /\ store' \in [Names -> Seq(Version)]
         /\ \A m \in Names : Len(store'[m]) = Len(store[m])
         /\ \A m \in Names : \A w \in 1..Len(store[m]) :
              /\ store'[m][w].by = store[m][w].by
              /\ store'[m][w].batch = store[m][w].batch
              /\ store'[m][w].enabled => store[m][w].enabled
              /\ m # n \/ w # v => store'[m][w] = store[m][w]
<1> DEFINE x == [store[n][v] EXCEPT !.enabled = FALSE]
<1>1. store[n][v] \in Version
  BY ElementOfSeq
<1>2. x \in Version /\ x.by = store[n][v].by /\ x.batch = store[n][v].batch /\ ~x.enabled
  BY <1>1 DEF Version
<1>3. store' = [store EXCEPT ![n] = [@ EXCEPT ![v] = x]]
  OBVIOUS
<1> HIDE DEF x
<1>4. /\ [store[n] EXCEPT ![v] = x] \in Seq(Version)
      /\ Len([store[n] EXCEPT ![v] = x]) = Len(store[n])
      /\ \A w \in 1..Len(store[n]) :
           [store[n] EXCEPT ![v] = x][w] = IF w = v THEN x ELSE store[n][w]
  BY <1>2, ExceptSeq
<1>5. store'[n] = [store[n] EXCEPT ![v] = x] /\ \A m \in Names : m # n => store'[m] = store[m]
  BY <1>3
<1>6. store' \in [Names -> Seq(Version)]
  BY <1>3, <1>4
<1> QED  BY <1>2, <1>4, <1>5, <1>6

LEMMA ValueFacts ==
  /\ Typed \in Version /\ Typed.by = "operator" /\ Typed.enabled
  /\ \A b \in Nat \ {0} : /\ Generated(b) \in Version /\ Generated(b).by = "generated"
                          /\ Generated(b).batch = b /\ Generated(b).enabled
BY DEF Typed, Generated, Version

LEMMA TypesInit == Init => Types
<1> SUFFICES ASSUME Init PROVE Types
  OBVIOUS
<1>1. Unpinned \in [Names -> Nat] /\ 1 \in 1..Len(AllNames)
  BY NameFacts DEF Unpinned
<1>2. TypeOK
  BY <1>1, StoreAssumption DEF Init, TypeOK
<1>3. \A p \in Procs : Placed(p)
  BY CommandFacts DEF Init, Placed
<1> QED  BY <1>2, <1>3 DEF Types

LEMMA KeepsPlace ==
  ASSUME NEW q \in Procs, Placed(q),
         pc'[q] = pc[q], cmd'[q] = cmd[q], k'[q] = k[q],
         found'[q] = found[q], batch'[q] = batch[q]
  PROVE  Placed(q)'
BY DEF Placed

LEMMA BeginTypes ==
  ASSUME Types, NEW p \in Procs, NEW c \in Command, Begin(p, c)
  PROVE  Types'
<1> USE NameFacts, CommandFacts DEF Types, TypeOK, Begin, At, Goto
<1>1. since' \in [Procs -> [Names -> SUBSET Nat]]
  <2>1. [n \in Names |-> Enabled(n)] \in [Names -> SUBSET Nat]
    BY DEF Enabled
  <2> QED  BY <2>1
<1>2. ops' \in 0..MaxOps
  BY StoreAssumption
<1>3. TypeOK'
  BY <1>1, <1>2 DEF cloud
<1>4. \A q \in Procs : Placed(q)'
  <2> SUFFICES ASSUME NEW q \in Procs PROVE Placed(q)'
    OBVIOUS
  <2>1. CASE q = p
    <3>1. pc'[p] = IF c.kind = "set" THEN "write" ELSE "look"
      OBVIOUS
    <3>2. cmd'[p] = c /\ c.kind \in {"initialize", "up", "render", "set"} /\ k'[p] = 1
      BY DEF Placed
    <3>3. CASE c.kind = "set"
      BY <2>1, <3>1, <3>2, <3>3 DEF Placed
    <3>4. CASE c.kind # "set"
      <4>1. pc'[p] = "look" /\ c.kind # "set" /\ c.kind \in {"initialize", "up", "render"}
        BY <3>1, <3>2, <3>4
      <4> QED  BY <2>1, <3>2, <4>1 DEF Placed
    <3> QED  BY <3>3, <3>4
  <2>2. CASE q # p
    BY <2>2, KeepsPlace
  <2> QED  BY <2>1, <2>2
<1> QED  BY <1>3, <1>4

LEMMA LookTypes ==
  ASSUME Types, NEW p \in Procs, Look(p)
  PROVE  Types'
<1> USE NameFacts, CommandFacts DEF Types, TypeOK, Look, At, Goto
<1>1. /\ k[p] \in 1..Len(NamesOf(p)) /\ NamesOf(p)[k[p]] \in Names
      /\ k[p] # Len(NamesOf(p)) => /\ k[p] + 1 \in 1..Len(AllNames)
                                   /\ k[p] + 1 \in 1..Len(NamesOf(p))
      /\ cmd[p].kind = "initialize" => Len(NamesOf(p)) = N
  BY NamesOfFacts DEF Placed
<1>2. PICK v \in Sees(p, NamesOf(p)[k[p]]) :
        /\ found' = [found EXCEPT ![p][NamesOf(p)[k[p]]] = v]
        /\ spoiled' = IF cmd[p].kind = "initialize" /\ v = 0 /\ Exists(NamesOf(p)[k[p]])
                        THEN spoiled \cup {"check"} ELSE spoiled
  OBVIOUS
<1>3. v \in Nat
  BY <1>1, SeesFacts
<1>4. found' \in [Procs -> [Names -> Nat]]
  BY <1>1, <1>2, <1>3
<1>5. spoiled' \subseteq {"overlap", "check", "raced", "disabled"}
  BY <1>2
<1>6. CASE k[p] = Len(NamesOf(p))
  <2>1. TypeOK'
    BY <1>4, <1>5, <1>6 DEF cloud, bounds
  <2>2. pc'[p] = "decide" /\ UNCHANGED <<cmd, k, batch>>
        /\ \A q \in Procs : q # p => pc'[q] = pc[q] /\ found'[q] = found[q]
    BY <1>2, <1>6
  <2>3. \A q \in Procs : Placed(q)'
    <3> SUFFICES ASSUME NEW q \in Procs PROVE Placed(q)'
      OBVIOUS
    <3>1. CASE q = p
      BY <2>2, <3>1 DEF Placed
    <3>2. CASE q # p
      BY <2>2, <3>2, KeepsPlace
    <3> QED  BY <3>1, <3>2
  <2> QED  BY <2>1, <2>3
<1>7. CASE k[p] # Len(NamesOf(p))
  <2>1. k' = [k EXCEPT ![p] = k[p] + 1] /\ pc' = pc /\ UNCHANGED <<cmd, batch>>
        /\ \A q \in Procs : q # p => found'[q] = found[q]
    BY <1>2, <1>7
  <2>5. k[p] + 1 \in 1..Len(NamesOf(p)) /\ k[p] + 1 \in 1..Len(AllNames)
    BY <1>1, <1>7
  <2>2. k' \in [Procs -> 1..Len(AllNames)]
    BY <2>1, <2>5
  <2>3. TypeOK'
    BY <1>4, <1>5, <2>1, <2>2 DEF cloud, bounds
  <2>4. \A q \in Procs : Placed(q)'
    <3> SUFFICES ASSUME NEW q \in Procs PROVE Placed(q)'
      OBVIOUS
    <3>1. CASE q = p
      BY <1>1, <2>1, <2>5, <3>1 DEF Placed
    <3>2. CASE q # p
      BY <2>1, <3>2 DEF Placed
    <3> QED  BY <3>1, <3>2
  <2> QED  BY <2>3, <2>4
<1> QED  BY <1>6, <1>7

LEMMA GenerateTypes ==
  ASSUME Types, NEW p \in Procs, Generate(p)
  PROVE  Types'
<1>1. 1 \in 1..Len(AllNames) /\ 1 \in 1..N /\ batches + 1 \in Nat \ {0}
  BY Counting DEF Types, TypeOK
<1> USE CommandFacts DEF Types, TypeOK, Generate, At, Goto
<1>2. /\ k' \in [Procs -> 1..Len(AllNames)] /\ batch' \in [Procs -> Nat]
      /\ pc' \in [Procs -> {"idle", "look", "decide", "write"}]
  BY <1>1
<1>3. TypeOK'
  BY <1>1, <1>2 DEF cloud, bounds
<1>4. \A q \in Procs : Placed(q)'
  <2> SUFFICES ASSUME NEW q \in Procs PROVE Placed(q)'
    OBVIOUS
  <2>1. CASE q = p
    BY <1>1, <2>1 DEF Placed
  <2>2. CASE q # p
    BY <2>2 DEF Placed
  <2> QED  BY <2>1, <2>2
<1> QED  BY <1>3, <1>4

LEMMA WriteTypes ==
  ASSUME Types, NEW p \in Procs, Write(p)
  PROVE  Types'
<1> USE NameFacts, CommandFacts DEF Types, TypeOK, At
<1>1. /\ k[p] \in 1..N /\ batch[p] \in Nat \ {0} /\ InternalNames[k[p]] \in Names
      /\ pc[p] = "write" /\ cmd[p].kind = "initialize" /\ cmd[p] \in Command
  BY DEF Write, Placed
<1>2. store' \in [Names -> Seq(Version)]
  <2>1. Generated(batch[p]) \in Version
    BY <1>1, ValueFacts
  <2> QED  BY <1>1, <2>1, AppendKeeps DEF Write
<1>3. CASE k[p] = N
  <2>1. Ends(p)
    BY <1>3 DEF Write, N
  <2> QED  BY <1>2, <2>1, EndsKeeps DEF Write, bounds
<1>4. CASE k[p] # N
  <2>1. k' = [k EXCEPT ![p] = k[p] + 1] /\ UNCHANGED <<pc, cmd, found, batch, since>>
    BY <1>4 DEF Write, N
  <2>5. k[p] + 1 \in 1..N /\ k[p] + 1 \in 1..Len(AllNames)
    BY <1>1, <1>4, Counting
  <2>2. k' \in [Procs -> 1..Len(AllNames)]
    BY <2>1, <2>5
  <2>3. TypeOK'
    BY <1>2, <2>1, <2>2 DEF Write, bounds
  <2>4. \A q \in Procs : Placed(q)'
    <3> SUFFICES ASSUME NEW q \in Procs PROVE Placed(q)'
      OBVIOUS
    <3>1. CASE q = p
      <4>1. pc'[p] = "write" /\ cmd'[p] = cmd[p] /\ k'[p] \in 1..N /\ batch'[p] # 0
        BY <1>1, <2>1, <2>5
      <4> QED  BY <1>1, <3>1, <4>1 DEF Placed
    <3>2. CASE q # p
      BY <2>1, <3>2, KeepsPlace
    <3> QED  BY <3>1, <3>2
  <2> QED  BY <2>3, <2>4
<1> QED  BY <1>3, <1>4

LEMMA SetTypes ==
  ASSUME Types, NEW p \in Procs, Set(p)
  PROVE  Types'
<1>1. cmd[p].name \in Names
  BY CommandFacts DEF Types, Placed, Set, At
<1>2. store' \in [Names -> Seq(Version)]
  BY <1>1, ValueFacts, AppendKeeps DEF Set, Types, TypeOK
<1>3. spoiled' \subseteq {"overlap", "check", "raced", "disabled"}
  BY DEF Set, Types, TypeOK
<1> QED  BY <1>2, <1>3, EndsKeeps DEF Set, Types, TypeOK, bounds

LEMMA TypesStep == Types /\ [Next]_vars => Types'
<1> SUFFICES ASSUME Types, [Next]_vars PROVE Types'
  OBVIOUS
<1>1. ASSUME NEW p \in Procs, NEW c \in Command, Begin(p, c) PROVE Types'
  BY <1>1, BeginTypes
<1>2. ASSUME NEW p \in Procs,
             Look(p) \/ Generate(p) \/ Write(p) \/ Set(p)
      PROVE  Types'
  BY <1>2, LookTypes, GenerateTypes, WriteTypes, SetTypes
<1>3. ASSUME NEW p \in Procs, Kept(p) \/ Refuse(p) PROVE Types'
  <2>1. Ends(p) /\ UNCHANGED <<cloud, nodeConfig, batches, spoiled, bounds>>
    BY <1>3 DEF Kept, Refuse
  <2> QED  BY <2>1, EndsKeeps DEF Types, TypeOK, cloud, bounds
<1>4. ASSUME NEW p \in Procs, Up(p) PROVE Types'
  BY <1>4, EndsKeeps DEF Up, Types, TypeOK, bounds
<1>5. ASSUME NEW p \in Procs, Render(p) PROVE Types'
  BY <1>5, EndsKeeps DEF Render, Types, TypeOK, cloud, bounds
<1>6. ASSUME NEW p \in Procs, Stop(p) PROVE Types'
  <2>1. stops' \in 0..MaxStops
    BY <1>6, StoreAssumption DEF Stop, Types, TypeOK
  <2> QED  BY <1>6, <2>1, EndsKeeps DEF Stop, Types, TypeOK, cloud
<1>7. CASE Prepare
  BY <1>7 DEF Prepare, Types, TypeOK, Placed, session, bounds
<1>8. ASSUME NEW n \in Names, NEW v \in 1..Len(store[n]), Disable(n, v) PROVE Types'
  <2>1. store' \in [Names -> Seq(Version)]
    BY <1>8, DisableKeeps DEF Disable, Types, TypeOK
  <2>2. disabled' \in 0..MaxDisabled
    BY <1>8, StoreAssumption DEF Disable, Types, TypeOK
  <2>3. spoiled' \subseteq {"overlap", "check", "raced", "disabled"}
    BY <1>8 DEF Disable, Types, TypeOK
  <2> QED  BY <1>8, <2>1, <2>2, <2>3 DEF Disable, Types, TypeOK, Placed, session
<1>9. CASE UNCHANGED vars
  BY <1>9 DEF vars, Types, TypeOK, Placed, cloud, session, bounds
<1> QED  BY <1>1, <1>2, <1>3, <1>4, <1>5, <1>6, <1>7, <1>8, <1>9 DEF Next

\* TypeOK holds: every variable keeps its type (secrets.rs, all commands).
THEOREM TypesKept == Spec => []TypeOK
<1>1. Types => TypeOK
  BY DEF Types
<1> QED  BY <1>1, TypesInit, TypesStep, PTL DEF Spec

-------------------------------------------------------------------------------
(* How a step changes the store and the sessions.                          *)

Acts(p) ==
  \/ \E c \in Command : Begin(p, c)
  \/ Look(p) \/ Kept(p) \/ Generate(p) \/ Write(p) \/ Set(p)
  \/ Up(p) \/ Render(p) \/ Refuse(p) \/ Stop(p)

\* A terminal does not touch the commands of the others.
LEMMA OthersKeep ==
  ASSUME Types, NEW p \in Procs, Acts(p)
  PROVE  \A q \in Procs : q # p =>
           /\ pc'[q] = pc[q] /\ cmd'[q] = cmd[q] /\ k'[q] = k[q]
           /\ found'[q] = found[q] /\ batch'[q] = batch[q] /\ since'[q] = since[q]
<1> USE DEF Types, TypeOK
<1>1. ASSUME Ends(p)
      PROVE  \A q \in Procs : q # p =>
               /\ pc'[q] = pc[q] /\ cmd'[q] = cmd[q] /\ k'[q] = k[q]
               /\ found'[q] = found[q] /\ batch'[q] = batch[q] /\ since'[q] = since[q]
  BY <1>1 DEF Ends
<1>2. ASSUME NEW c \in Command, Begin(p, c)
      PROVE  \A q \in Procs : q # p =>
               /\ pc'[q] = pc[q] /\ cmd'[q] = cmd[q] /\ k'[q] = k[q]
               /\ found'[q] = found[q] /\ batch'[q] = batch[q] /\ since'[q] = since[q]
  BY <1>2 DEF Begin, Goto
<1>3. CASE Look(p)
  BY <1>3 DEF Look, Goto
<1>4. CASE Generate(p)
  BY <1>4 DEF Generate, Goto
<1>5. CASE Write(p)
  BY <1>1, <1>5 DEF Write
<1>6. CASE Kept(p) \/ Set(p) \/ Up(p) \/ Render(p) \/ Refuse(p) \/ Stop(p)
  BY <1>1, <1>6 DEF Kept, Set, Up, Render, Refuse, Stop
<1> QED  BY <1>2, <1>3, <1>4, <1>5, <1>6 DEF Acts

\* Versions are added at the end and never lose their value; a version that
\* was disabled stays disabled.
LEMMA StoreGrows ==
  ASSUME Types, [Next]_vars, NEW n \in Names
  PROVE  /\ Len(store[n]) \in Nat /\ Len(store'[n]) \in Nat
         /\ Len(store[n]) <= Len(store'[n])
         /\ \A v \in 1..Len(store[n]) :
              /\ store'[n][v].by = store[n][v].by
              /\ store'[n][v].batch = store[n][v].batch
              /\ store'[n][v].enabled => store[n][v].enabled
<1>1. store \in [Names -> Seq(Version)] /\ store[n] \in Seq(Version) /\ Len(store[n]) \in Nat
  BY DEF Types, TypeOK
<1>2. ASSUME NEW m \in Names, NEW x \in Version,
             store' = [store EXCEPT ![m] = Append(@, x)]
      PROVE  /\ Len(store'[n]) \in Nat /\ Len(store[n]) <= Len(store'[n])
             /\ \A v \in 1..Len(store[n]) : store'[n][v] = store[n][v]
  <2>1. CASE m = n
    BY <1>1, <1>2, <2>1, AppendKeeps
  <2>2. CASE m # n
    BY <1>1, <1>2, <2>2, AppendKeeps
  <2> QED  BY <2>1, <2>2
<1>3. ASSUME NEW p \in Procs, Write(p)
      PROVE  \E m \in Names : \E x \in Version : store' = [store EXCEPT ![m] = Append(@, x)]
  <2>1. InternalNames[k[p]] \in Names /\ Generated(batch[p]) \in Version
    BY <1>3, NameFacts, ValueFacts DEF Types, TypeOK, Placed, Write, At
  <2> QED  BY <1>3, <2>1 DEF Write
<1>4. ASSUME NEW p \in Procs, Set(p)
      PROVE  \E m \in Names : \E x \in Version : store' = [store EXCEPT ![m] = Append(@, x)]
  <2>1. cmd[p].name \in Names /\ Typed \in Version
    BY <1>4, CommandFacts, ValueFacts DEF Types, Placed, Set, At
  <2> QED  BY <1>4, <2>1 DEF Set
<1>5. ASSUME NEW m \in Names, NEW v \in 1..Len(store[m]), Disable(m, v)
      PROVE  /\ Len(store'[n]) = Len(store[n])
             /\ \A w \in 1..Len(store[n]) :
                  /\ store'[n][w].by = store[n][w].by
                  /\ store'[n][w].batch = store[n][w].batch
                  /\ store'[n][w].enabled => store[n][w].enabled
  BY <1>1, <1>5, DisableKeeps DEF Disable
<1>6. \/ store' = store
      \/ \E p \in Procs : Write(p) \/ Set(p)
      \/ \E m \in Names : \E v \in 1..Len(store[m]) : Disable(m, v)
  BY DEF Next, Begin, Look, Kept, Generate, Up, Render, Refuse, Stop, Prepare,
         vars, cloud
<1>7. CASE \E p \in Procs : Write(p) \/ Set(p)
  <2>1. PICK m \in Names, x \in Version : store' = [store EXCEPT ![m] = Append(@, x)]
    BY <1>3, <1>4, <1>7
  <2> QED  BY <1>1, <1>2, <2>1
<1>8. CASE \E m \in Names : \E v \in 1..Len(store[m]) : Disable(m, v)
  BY <1>1, <1>5, <1>8
<1> QED  BY <1>1, <1>6, <1>7, <1>8

-------------------------------------------------------------------------------
(* What a rendering pins.                                                  *)

\* The name at index i was looked at.
Looked(p, i) == pc[p] = "decide" \/ i < k[p]

\* Pins are versions that exist, and none is older than a version that was
\* enabled when the rendering began and still is.
Pinned ==
  /\ nodeConfig # Unpinned => \A n \in Names : nodeConfig[n] \in 1..Len(store[n])
  /\ \A p \in Procs : \A n \in Names : since[p][n] \subseteq 1..Len(store[n])
  /\ \A p \in Procs : cmd[p].kind = "render" =>
       /\ \A n \in Names : found[p][n] # 0 => found[p][n] \in 1..Len(store[n])
       /\ \A i \in 1..Len(AllNames) : Looked(p, i) =>
            \A w \in since[p][AllNames[i]] :
              w <= found[p][AllNames[i]] \/ ~store[AllNames[i]][w].enabled

\* The part about one terminal.
PinnedBy(p) ==
  /\ \A n \in Names : since[p][n] \subseteq 1..Len(store[n])
  /\ cmd[p].kind = "render" =>
       /\ \A n \in Names : found[p][n] # 0 => found[p][n] \in 1..Len(store[n])
       /\ \A i \in 1..Len(AllNames) : Looked(p, i) =>
            \A w \in since[p][AllNames[i]] :
              w <= found[p][AllNames[i]] \/ ~store[AllNames[i]][w].enabled

LEMMA PinnedByKept ==
  ASSUME Types, [Next]_vars, NEW p \in Procs, PinnedBy(p),
         pc'[p] = pc[p], cmd'[p] = cmd[p], k'[p] = k[p],
         found'[p] = found[p], since'[p] = since[p]
  PROVE  PinnedBy(p)'
<1>1. \A n \in Names : since'[p][n] \subseteq 1..Len(store'[n])
  BY StoreGrows DEF PinnedBy
<1>2. ASSUME cmd'[p].kind = "render", NEW n \in Names, found'[p][n] # 0
      PROVE  found'[p][n] \in 1..Len(store'[n])
  BY <1>2, StoreGrows DEF PinnedBy
<1>3. ASSUME cmd'[p].kind = "render", NEW i \in 1..Len(AllNames), Looked(p, i)',
             NEW w \in since'[p][AllNames[i]]
      PROVE  w <= found'[p][AllNames[i]] \/ ~store'[AllNames[i]][w].enabled
  <2>1. AllNames[i] \in Names
    BY NameFacts
  <2>2. Looked(p, i)
    BY <1>3 DEF Looked
  <2>3. w \in 1..Len(store[AllNames[i]])
    BY <1>3, <2>1 DEF PinnedBy
  <2>4. w <= found[p][AllNames[i]] \/ ~store[AllNames[i]][w].enabled
    BY <1>3, <2>2 DEF PinnedBy
  <2> QED  BY <2>1, <2>3, <2>4, StoreGrows
<1> QED  BY <1>1, <1>2, <1>3 DEF PinnedBy

LEMMA PinnedInit == Init => Pinned
<1> SUFFICES ASSUME Init PROVE Pinned
  OBVIOUS
<1>1. \A n \in Names, p \in Procs : since[p][n] = {}
  BY DEF Init
<1> QED  BY <1>1 DEF Init, Pinned, NoCommand

LEMMA LookPins ==
  ASSUME Types, [Next]_vars, NEW p \in Procs, PinnedBy(p), Look(p)
  PROVE  PinnedBy(p)'
<1> DEFINE n == NamesOf(p)[k[p]]
<1>1. /\ store \in [Names -> Seq(Version)] /\ k[p] \in 1..Len(AllNames)
      /\ cmd[p].kind = "initialize" => k[p] \in 1..N
  BY DEF Types, TypeOK, Placed
<1>2. n \in Names /\ k[p] \in 1..Len(NamesOf(p))
  BY <1>1, NamesOfFacts
<1>3. /\ store' = store /\ since' = since /\ cmd' = cmd
      /\ pc[p] = "look"
      /\ \E v \in Sees(p, n) : found' = [found EXCEPT ![p][n] = v]
  BY DEF Look, cloud, At
<1>4. PICK v \in Sees(p, n) : found' = [found EXCEPT ![p][n] = v]
  BY <1>3
<1>5. /\ found'[p][n] = v
      /\ \A m \in Names : m # n => found'[p][m] = found[p][m]
  BY <1>2, <1>4 DEF Types, TypeOK
<1>6. /\ k[p] = Len(NamesOf(p)) => pc'[p] = "decide" /\ k' = k
      /\ k[p] # Len(NamesOf(p)) => pc'[p] = "look" /\ k'[p] = k[p] + 1
  BY <1>3 DEF Look, Goto, Types, TypeOK
<1> HIDE DEF n
<1>7. \A m \in Names : since'[p][m] \subseteq 1..Len(store'[m])
  BY <1>3 DEF PinnedBy
<1>8. ASSUME cmd[p].kind = "render" PROVE PinnedBy(p)'
  <2>1. n = AllNames[k[p]] /\ NamesOf(p) = AllNames
    BY <1>8 DEF NamesOf, n
  <2>2. /\ v # 0 => v \in 1..Len(store[n])
        /\ \A w \in 1..Len(store[n]) : store[n][w].enabled => w <= v
    BY <1>1, <1>2, <1>8, SeesFacts
  <2>3. \A m \in Names : found'[p][m] # 0 => found'[p][m] \in 1..Len(store'[m])
    BY <1>3, <1>5, <1>8, <2>2 DEF PinnedBy
  <2>4. ASSUME NEW i \in 1..Len(AllNames), Looked(p, i)', NEW w \in since'[p][AllNames[i]]
        PROVE  w <= found'[p][AllNames[i]] \/ ~store'[AllNames[i]][w].enabled
    <3>1. AllNames[i] \in Names /\ w \in 1..Len(store[AllNames[i]])
      BY <1>3, <2>4, NameFacts DEF PinnedBy
    <3>2. CASE AllNames[i] = n
      BY <1>3, <1>5, <2>2, <3>1, <3>2
    <3>3. CASE AllNames[i] # n
      <4>1. i # k[p]
        BY <2>1, <3>3
      <4>2. i < k[p]
        BY <1>1, <1>6, <2>1, <2>4, <4>1, NameFacts DEF Looked
      <4>3. w <= found[p][AllNames[i]] \/ ~store[AllNames[i]][w].enabled
        BY <1>3, <1>8, <2>4, <4>2 DEF PinnedBy, Looked
      <4> QED  BY <1>3, <1>5, <3>1, <3>3, <4>3
    <3> QED  BY <3>2, <3>3
  <2> QED  BY <1>7, <2>3, <2>4 DEF PinnedBy
<1>9. CASE cmd[p].kind # "render"
  BY <1>3, <1>7, <1>9 DEF PinnedBy
<1> QED  BY <1>8, <1>9

LEMMA PinnedStep == Types /\ Pinned /\ [Next]_vars => Pinned'
<1> SUFFICES ASSUME Types, Pinned, [Next]_vars PROVE Pinned'
  OBVIOUS
<1>1. \A p \in Procs : PinnedBy(p)
  BY DEF Pinned, PinnedBy
<1>2. ASSUME NEW p \in Procs, Acts(p) PROVE PinnedBy(p)'
  <2>1. ASSUME Ends(p) PROVE PinnedBy(p)'
    <3>1. cmd'[p] = NoCommand /\ \A n \in Names : since'[p][n] = {}
      BY <2>1 DEF Ends, Types, TypeOK
    <3> QED  BY <3>1, CommandFacts DEF PinnedBy
  <2>2. ASSUME NEW c \in Command, Begin(p, c) PROVE PinnedBy(p)'
    <3>1. /\ store' = store /\ pc'[p] \in {"look", "write"} /\ k'[p] = 1
          /\ \A n \in Names : since'[p][n] = Enabled(n) /\ found'[p][n] = 0
      BY <2>2 DEF Begin, At, Goto, Types, TypeOK, Placed, cloud, Unpinned
    <3>2. \A n \in Names : since'[p][n] \subseteq 1..Len(store'[n])
      BY <3>1 DEF Enabled
    <3>3. \A i \in 1..Len(AllNames) : ~Looked(p, i)'
      BY <3>1 DEF Looked
    <3> QED  BY <3>1, <3>2, <3>3 DEF PinnedBy
  <2>3. CASE Look(p)
    BY <1>1, <2>3, LookPins
  <2>4. CASE Generate(p) \/ (Write(p) /\ ~Ends(p))
    <3>1. /\ cmd' = cmd /\ cmd[p].kind = "initialize" /\ since' = since
      BY <2>4 DEF Generate, Write
    <3>2. \A n \in Names : since'[p][n] \subseteq 1..Len(store'[n])
      BY <1>1, <3>1, StoreGrows DEF PinnedBy
    <3> QED  BY <3>1, <3>2 DEF PinnedBy
  <2>5. CASE Kept(p) \/ (Write(p) /\ Ends(p)) \/ Set(p) \/ Up(p) \/ Render(p)
             \/ Refuse(p) \/ Stop(p)
    BY <2>1, <2>5 DEF Kept, Set, Up, Render, Refuse, Stop
  <2> QED  BY <1>2, <2>2, <2>3, <2>4, <2>5 DEF Acts
<1>3. ASSUME NEW p \in Procs, NEW q \in Procs, Acts(p) PROVE PinnedBy(q)'
  <2>1. CASE q = p
    BY <1>2, <1>3, <2>1
  <2>2. CASE q # p
    BY <1>1, <1>3, <2>2, OthersKeep, PinnedByKept
  <2> QED  BY <2>1, <2>2
<1>4. ASSUME NEW q \in Procs, ~\E p \in Procs : Acts(p) PROVE PinnedBy(q)'
  <2>1. UNCHANGED session
    BY <1>4 DEF Next, Acts, Prepare, Disable, vars
  <2> QED  BY <1>1, <2>1, PinnedByKept DEF session
<1>5. \A q \in Procs : PinnedBy(q)'
  BY <1>3, <1>4
<1>6. nodeConfig' # Unpinned => \A n \in Names : nodeConfig'[n] \in 1..Len(store'[n])
  <2>1. CASE nodeConfig' = nodeConfig
    BY <2>1, StoreGrows DEF Pinned
  <2>2. ASSUME NEW p \in Procs, Render(p)
        PROVE  \A n \in Names : nodeConfig'[n] \in 1..Len(store'[n])
    <3>1. /\ nodeConfig' = found[p] /\ cmd[p].kind = "render" /\ store' = store
          /\ \A n \in Names : found[p][n] # 0
      BY <2>2 DEF Render, Found, cloud
    <3> QED  BY <1>1, <3>1 DEF PinnedBy
  <2>3. nodeConfig' = nodeConfig \/ \E p \in Procs : Render(p)
    BY DEF Next, Begin, Look, Kept, Generate, Write, Set, Up, Refuse, Stop, Prepare,
           Disable, vars
  <2> QED  BY <2>1, <2>2, <2>3
<1> QED  BY <1>5, <1>6 DEF Pinned, PinnedBy

\* AdoptsRotations: a rendering pins nothing older than what was there when
\* it began (activation.rs, pin_latest_gcp_secret_versions).
THEOREM RotationsAdopted == Spec => AdoptsRotations
<1>1. ASSUME Types, Pinned, NEW p \in Procs, Render(p), NEW n \in Names,
             NEW v \in since[p][n]
      PROVE  v <= nodeConfig'[n] \/ ~store[n][v].enabled
  <2>1. PICK i \in 1..Len(AllNames) : n = AllNames[i]
    BY DEF Names
  <2>2. /\ nodeConfig' = found[p] /\ cmd[p].kind = "render" /\ pc[p] = "decide"
    BY <1>1 DEF Render, At
  <2> QED  BY <1>1, <2>1, <2>2 DEF Pinned, Looked
<1>2. Types /\ Pinned /\ [Next]_vars =>
        [\A p \in Procs : Render(p) =>
           \A n \in Names : \A v \in since[p][n] :
             v <= nodeConfig'[n] \/ ~store[n][v].enabled]_vars
  BY <1>1
<1> QED  BY <1>2, TypesInit, TypesStep, PinnedInit, PinnedStep, PTL DEF Spec, AdoptsRotations

-------------------------------------------------------------------------------
(* One batch.                                                              *)

\* The new version of a name is written by an initialization or a `set`.
LEMMA StoreAdds ==
  ASSUME Types, [Next]_vars, NEW n \in Names
  PROVE  \/ Len(store'[n]) = Len(store[n])
         \/ \E p \in Procs : /\ Write(p) /\ n = InternalNames[k[p]]
                             /\ Len(store'[n]) = Len(store[n]) + 1
                             /\ store'[n][Len(store'[n])] = Generated(batch[p])
         \/ \E p \in Procs : /\ Set(p) /\ n = cmd[p].name
                             /\ Len(store'[n]) = Len(store[n]) + 1
                             /\ store'[n][Len(store'[n])] = Typed
<1>1. store \in [Names -> Seq(Version)]
  BY DEF Types, TypeOK
<1>2. ASSUME NEW p \in Procs, Write(p)
      PROVE  \/ Len(store'[n]) = Len(store[n])
             \/ /\ n = InternalNames[k[p]] /\ Len(store'[n]) = Len(store[n]) + 1
                /\ store'[n][Len(store'[n])] = Generated(batch[p])
  <2>1. InternalNames[k[p]] \in Names /\ Generated(batch[p]) \in Version
    BY <1>2, NameFacts, ValueFacts DEF Types, TypeOK, Placed, Write, At
  <2>2. store' = [store EXCEPT ![InternalNames[k[p]]] = Append(@, Generated(batch[p]))]
    BY <1>2 DEF Write
  <2>3. CASE n = InternalNames[k[p]]
    BY <1>1, <2>1, <2>2, <2>3, AppendKeeps
  <2>4. CASE n # InternalNames[k[p]]
    BY <1>1, <2>1, <2>2, <2>4, AppendKeeps
  <2> QED  BY <2>3, <2>4
<1>3. ASSUME NEW p \in Procs, Set(p)
      PROVE  \/ Len(store'[n]) = Len(store[n])
             \/ /\ n = cmd[p].name /\ Len(store'[n]) = Len(store[n]) + 1
                /\ store'[n][Len(store'[n])] = Typed
  <2>1. cmd[p].name \in Names /\ Typed \in Version
    BY <1>3, CommandFacts, ValueFacts DEF Types, Placed, Set, At
  <2>2. store' = [store EXCEPT ![cmd[p].name] = Append(@, Typed)]
    BY <1>3 DEF Set
  <2>3. CASE n = cmd[p].name
    BY <1>1, <2>1, <2>2, <2>3, AppendKeeps
  <2>4. CASE n # cmd[p].name
    BY <1>1, <2>1, <2>2, <2>4, AppendKeeps
  <2> QED  BY <2>3, <2>4
<1>4. ASSUME NEW m \in Names, NEW v \in 1..Len(store[m]), Disable(m, v)
      PROVE  Len(store'[n]) = Len(store[n])
  BY <1>1, <1>4, DisableKeeps DEF Disable
<1>5. \/ store' = store
      \/ \E p \in Procs : Write(p) \/ Set(p)
      \/ \E m \in Names : \E v \in 1..Len(store[m]) : Disable(m, v)
  BY DEF Next, Begin, Look, Kept, Generate, Up, Render, Refuse, Stop, Prepare,
         vars, cloud
<1> QED  BY <1>2, <1>3, <1>4, <1>5

\* What spoils a batch is never forgotten.
LEMMA SpoiledGrows == [Next]_vars => spoiled \subseteq spoiled'
<1> SUFFICES ASSUME [Next]_vars PROVE spoiled \subseteq spoiled'
  OBVIOUS
<1>1. \/ spoiled' = spoiled
      \/ \E x \in {"overlap", "check", "raced", "disabled"} : spoiled' = spoiled \cup {x}
  BY DEF Next, Begin, Look, Kept, Generate, Write, Set, Up, Render, Refuse, Stop,
         Prepare, Disable, vars
<1> QED  BY <1>1

\* Initializations that do not overlap are one at a time, and versions that
\* are not disabled are enabled.
Alone   == "overlap" \notin spoiled => \A p, q \in Initializing : p = q
FirstOn == "disabled" \notin spoiled =>
             \A n \in Internal : Len(store[n]) # 0 => store[n][1].enabled

\* A name an initialization found missing and has not written.
Pending(p, i) ==
  \/ pc[p] = "look" /\ i < k[p] /\ found[p][InternalNames[i]] = 0
  \/ pc[p] = "decide" /\ found[p][InternalNames[i]] = 0
  \/ pc[p] = "write" /\ k[p] <= i

LEMMA AloneStep == Types /\ Alone /\ [Next]_vars => Alone'
<1> SUFFICES ASSUME Types, Alone, [Next]_vars, "overlap" \notin spoiled',
                    NEW p \in Initializing', NEW q \in Initializing'
             PROVE  p = q
  BY DEF Alone
<1>1. "overlap" \notin spoiled
  BY SpoiledGrows
<1>2. p \in Procs /\ q \in Procs
  BY DEF Initializing
<1>3. ASSUME NEW r \in Initializing', r \notin Initializing
      PROVE  \E c \in Command : Begin(r, c) /\ c.kind = "initialize"
  <2>1. r \in Procs /\ pc'[r] # "idle" /\ cmd'[r].kind = "initialize"
    BY DEF Initializing
  <2>2. PICK s \in Procs : Acts(s)
    <3>1. CASE UNCHANGED session
      BY <1>3, <2>1, <3>1 DEF session, Initializing
    <3> QED  BY <3>1 DEF Next, Acts, Prepare, Disable, vars
  <2>3. CASE r # s
    BY <1>3, <2>1, <2>2, <2>3, OthersKeep DEF Initializing
  <2>4. CASE r = s
    <3>1. ~Ends(r)
      BY <2>1 DEF Ends, Types, TypeOK
    <3>2. CASE \E c \in Command : Begin(r, c)
      <4>1. PICK c \in Command : Begin(r, c)
        BY <3>2
      <4>2. cmd'[r] = c
        BY <2>1, <4>1 DEF Begin, Types, TypeOK
      <4> QED  BY <2>1, <4>1, <4>2 DEF Begin
    <3>3. CASE Look(r) \/ Generate(r) \/ Write(r)
      BY <1>3, <2>1, <3>1, <3>3 DEF Look, Generate, Write, At, Initializing
    <3> QED  BY <2>2, <2>4, <3>1, <3>2, <3>3
             DEF Acts, Kept, Set, Up, Render, Refuse, Stop
  <2> QED  BY <2>3, <2>4
<1>4. ASSUME NEW r \in Initializing', r \notin Initializing
      PROVE  Initializing = {} /\ \A s \in Initializing' : s = r
  <2>1. PICK c \in Command : Begin(r, c) /\ c.kind = "initialize"
    BY <1>3, <1>4
  <2>2. Initializing = {}
    BY <2>1 DEF Begin
  <2>3. ASSUME NEW s \in Initializing', s # r PROVE FALSE
    <3>1. r \in Procs /\ s \in Procs
      BY DEF Initializing
    <3>2. pc'[s] = pc[s] /\ cmd'[s] = cmd[s]
      BY <2>1, <2>3, <3>1, OthersKeep DEF Acts
    <3> QED  BY <2>2, <3>1, <3>2 DEF Initializing
  <2> QED  BY <2>2, <2>3
<1>5. CASE p \in Initializing /\ q \in Initializing
  BY <1>1, <1>5 DEF Alone
<1> QED  BY <1>4, <1>5

LEMMA FirstOnStep == Types /\ FirstOn /\ [Next]_vars => FirstOn'
<1> SUFFICES ASSUME Types, FirstOn, [Next]_vars, "disabled" \notin spoiled',
                    NEW n \in Internal, Len(store'[n]) # 0
             PROVE  store'[n][1].enabled
  BY DEF FirstOn
<1>1. n \in Names /\ Len(store[n]) \in Nat
  BY NameFacts, StoreGrows
<1>2. "disabled" \notin spoiled
  BY SpoiledGrows
<1>3. CASE Len(store[n]) = 0
  <2>1. /\ Typed.enabled
        /\ \A p \in Procs : Write(p) => Generated(batch[p]).enabled
    BY ValueFacts DEF Generated
  <2> QED  BY <1>1, <1>3, <2>1, StoreAdds
<1>4. CASE Len(store[n]) # 0
  <2>1. store[n][1].enabled /\ 1 \in 1..Len(store[n])
    BY <1>1, <1>2, <1>4 DEF FirstOn
  <2>2. CASE store' = store
    BY <2>1, <2>2
  <2>3. ASSUME NEW m \in Names, NEW x \in Version,
               store' = [store EXCEPT ![m] = Append(@, x)]
        PROVE  store'[n][1] = store[n][1]
    <3>1. CASE m = n
      BY <1>1, <2>1, <2>3, <3>1, AppendKeeps DEF Types, TypeOK
    <3>2. CASE m # n
      BY <1>1, <2>1, <2>3, <3>2, AppendKeeps DEF Types, TypeOK
    <3> QED  BY <3>1, <3>2
  <2>4. ASSUME NEW p \in Procs, Write(p) PROVE store'[n][1] = store[n][1]
    <3>1. InternalNames[k[p]] \in Names /\ Generated(batch[p]) \in Version
      BY <2>4, NameFacts, ValueFacts DEF Types, TypeOK, Placed, Write, At
    <3> QED  BY <2>3, <2>4, <3>1 DEF Write
  <2>5. ASSUME NEW p \in Procs, Set(p) PROVE store'[n][1] = store[n][1]
    <3>1. cmd[p].name \in Names /\ Typed \in Version
      BY <2>5, CommandFacts, ValueFacts DEF Types, Placed, Set, At
    <3> QED  BY <2>3, <2>5, <3>1 DEF Set
  <2>6. ASSUME NEW m \in Names, NEW v \in 1..Len(store[m]), Disable(m, v)
        PROVE  store'[n][1] = store[n][1]
    <3>1. m # n \/ v # 1
      BY <2>6 DEF Disable
    <3> QED  BY <1>1, <2>1, <2>6, <3>1, DisableKeeps DEF Disable, Types, TypeOK
  <2>7. \/ store' = store
        \/ \E p \in Procs : Write(p) \/ Set(p)
        \/ \E m \in Names : \E v \in 1..Len(store[m]) : Disable(m, v)
    BY DEF Next, Begin, Look, Kept, Generate, Up, Render, Refuse, Stop, Prepare,
           vars, cloud
  <2> QED  BY <2>1, <2>2, <2>4, <2>5, <2>6, <2>7
<1> QED  BY <1>3, <1>4

\* A name that is pending was pending before, or was just looked at and is
\* missing; a name that was just written is not pending.
LEMMA PendingStep ==
  ASSUME Types, [Next]_vars, "check" \notin spoiled',
         NEW p \in Initializing', NEW i \in 1..N, Pending(p, i)'
  PROVE  /\ p \in Procs
         /\ \/ p \in Initializing /\ Pending(p, i) /\ (Write(p) => i # k[p])
            \/ p \in Initializing /\ store' = store /\ ~Exists(InternalNames[i])
<1>1. p \in Procs /\ pc'[p] # "idle" /\ cmd'[p].kind = "initialize"
  BY DEF Initializing
<1>2. InternalNames[i] \in Names /\ i \in 1..Len(AllNames)
  BY NameFacts, Counting
<1>3. ASSUME pc'[p] = pc[p], cmd'[p] = cmd[p], k'[p] = k[p], found'[p] = found[p],
             ~Write(p)
      PROVE  p \in Initializing /\ Pending(p, i)
  BY <1>1, <1>3 DEF Initializing, Pending
<1>4. CASE ~\E q \in Procs : Acts(q)
  <2>1. UNCHANGED session
    BY <1>4 DEF Next, Acts, Prepare, Disable, vars
  <2> QED  BY <1>1, <1>3, <1>4, <2>1 DEF session, Acts
<1>5. ASSUME NEW q \in Procs, Acts(q), q # p
      PROVE  p \in Initializing /\ Pending(p, i) /\ ~Write(p)
  <2>1. /\ pc'[p] = pc[p] /\ cmd'[p] = cmd[p] /\ k'[p] = k[p] /\ found'[p] = found[p]
    BY <1>1, <1>5, OthersKeep
  <2>2. ~Write(p)
    <3>1. CASE k[p] = N
      <4>1. Write(p) => pc'[p] = "idle"
        BY <1>1, <3>1 DEF Write, Ends, Types, TypeOK, N
      <4> QED  BY <1>1, <4>1
    <3>2. CASE k[p] # N
      <4>1. Write(p) => k'[p] = k[p] + 1 /\ k[p] \in Nat
        BY <1>1, <3>2, NameFacts DEF Write, Types, TypeOK, N
      <4> QED  BY <2>1, <4>1
    <3> QED  BY <3>1, <3>2
  <2> QED  BY <1>3, <2>1, <2>2
<1>6. ASSUME \E c \in Command : Begin(p, c) PROVE FALSE
  <2>1. pc'[p] \in {"look", "write"} /\ k'[p] = 1
        /\ (cmd'[p].kind = "initialize" => pc'[p] = "look")
    BY <1>1, <1>6 DEF Begin, Goto, At, Types, TypeOK, Placed
  <2> QED  BY <1>1, <2>1 DEF Pending
<1>7. CASE Look(p)
  <2>1. /\ pc[p] = "look" /\ cmd[p].kind = "initialize" /\ cmd'[p] = cmd[p]
        /\ store' = store /\ k[p] \in 1..N
    BY <1>1, <1>7 DEF Look, At, cloud, Types, Placed
  <2>2. /\ NamesOf(p) = InternalNames /\ InternalNames[k[p]] \in Names
        /\ k[p] \in 1..Len(AllNames)
    BY <2>1, NameFacts, Counting DEF NamesOf
  <2>3. PICK v \in Sees(p, InternalNames[k[p]]) :
          /\ found' = [found EXCEPT ![p][InternalNames[k[p]]] = v]
          /\ spoiled' = IF v = 0 /\ Exists(InternalNames[k[p]])
                          THEN spoiled \cup {"check"} ELSE spoiled
    BY <1>7, <2>1, <2>2 DEF Look
  <2>4. /\ found'[p][InternalNames[k[p]]] = v
        /\ \A m \in Names : m # InternalNames[k[p]] => found'[p][m] = found[p][m]
    BY <1>1, <2>2, <2>3 DEF Types, TypeOK
  <2>5. p \in Initializing
    BY <1>1, <2>1 DEF Initializing
  <2>6. found'[p][InternalNames[i]] = 0 /\ i \in 1..k[p]
    <3>1. \/ k[p] = N /\ pc'[p] = "decide" /\ k' = k
          \/ k'[p] = k[p] + 1 /\ pc'[p] = "look"
      BY <1>1, <1>7, <2>1, <2>2 DEF Look, Goto, Types, TypeOK, N
    <3> QED  BY <2>1, <3>1, NameFacts DEF Pending
  <2>7. CASE i = k[p]
    <3>1. v = 0
      BY <2>4, <2>6, <2>7
    <3>2. ~Exists(InternalNames[i])
      BY <2>3, <2>7, <3>1
    <3> QED  BY <1>1, <2>1, <2>5, <3>2
  <2>8. CASE i # k[p]
    <3>1. InternalNames[i] # InternalNames[k[p]]
      BY <2>1, <2>8, NameFacts
    <3>2. Pending(p, i)
      BY <1>2, <2>1, <2>4, <2>6, <2>8, <3>1 DEF Pending
    <3>3. ~Write(p)
      BY <2>1 DEF Write, At
    <3> QED  BY <1>1, <2>5, <3>2, <3>3
  <2> QED  BY <2>7, <2>8
<1>8. CASE Generate(p)
  <2>1. /\ pc[p] = "decide" /\ cmd[p].kind = "initialize" /\ Found(p) = {}
    BY <1>8 DEF Generate, At
  <2>2. found[p][InternalNames[i]] = 0
    BY <1>2, <2>1 DEF Found
  <2> QED  BY <1>1, <2>1, <2>2 DEF Pending, Initializing, Write, At
<1>9. CASE Write(p)
  <2>1. pc[p] = "write" /\ cmd[p].kind = "initialize" /\ k[p] \in Nat
    BY <1>1, <1>9 DEF Write, At, Types, TypeOK
  <2>2. k'[p] = k[p] + 1 /\ pc'[p] = "write"
    <3>1. ~Ends(p)
      BY <1>1 DEF Ends, Types, TypeOK
    <3> QED  BY <1>1, <1>9, <2>1, <3>1 DEF Write, Types, TypeOK
  <2>3. k[p] + 1 <= i
    BY <2>2 DEF Pending
  <2> QED  BY <1>1, <2>1, <2>3 DEF Pending, Initializing
<1>10. ASSUME Kept(p) \/ Set(p) \/ Up(p) \/ Render(p) \/ Refuse(p) \/ Stop(p)
       PROVE  FALSE
  <2>1. Ends(p)
    BY <1>10 DEF Kept, Set, Up, Render, Refuse, Stop
  <2> QED  BY <1>1, <2>1 DEF Ends, Types, TypeOK
<1> QED  BY <1>1, <1>4, <1>5, <1>6, <1>7, <1>8, <1>9, <1>10 DEF Acts

IsGenerated(n, v) == store[n][v].by = "generated"
Ungenerated(n)    == \A v \in 1..Len(store[n]) : ~IsGenerated(n, v)

\* Nothing that an initialization is about to write was ever generated, what
\* was generated is of the batch it writes, and all of one batch.
Once ==
  spoiled \cap {"overlap", "check", "disabled"} = {} =>
    /\ \A p \in Initializing : \A i \in 1..N : Pending(p, i) => Ungenerated(InternalNames[i])
    /\ \A p \in Initializing : pc[p] = "write" =>
         \A n \in Internal : \A v \in 1..Len(store[n]) :
           IsGenerated(n, v) => store[n][v].batch = batch[p]
    /\ \A m, n \in Internal : \A v \in 1..Len(store[m]), w \in 1..Len(store[n]) :
         IsGenerated(m, v) /\ IsGenerated(n, w) => store[m][v].batch = store[n][w].batch

\* A name that does not exist, as long as no first version was disabled, is
\* empty.
LEMMA ExistsEmpty ==
  ASSUME Types, FirstOn, "disabled" \notin spoiled, NEW n \in Internal, ~Exists(n)
  PROVE  Len(store[n]) = 0
<1>1. n \in Names /\ store[n] \in Seq(Version)
  BY NameFacts DEF Types, TypeOK
<1>2. CASE store[n] = <<>>
  BY <1>2
<1>3. CASE store[n] # <<>>
  <2>1. Len(store[n]) # 0
    BY <1>1, <1>3, EmptySeq
  <2> QED  BY <1>3, <2>1 DEF Exists, FirstOn
<1> QED  BY <1>2, <1>3

LEMMA OnceStep == Types /\ Alone /\ FirstOn /\ Once /\ [Next]_vars => Once'
<1> DEFINE Bad == {"overlap", "check", "disabled"}
<1> SUFFICES ASSUME Types, Alone, FirstOn, Once, [Next]_vars, spoiled' \cap Bad = {}
             PROVE  /\ \A p \in Initializing' : \A i \in 1..N :
                         Pending(p, i)' => Ungenerated(InternalNames[i])'
                    /\ \A p \in Initializing' : pc'[p] = "write" =>
                         \A n \in Internal : \A v \in 1..Len(store'[n]) :
                           IsGenerated(n, v)' => store'[n][v].batch = batch'[p]
                    /\ \A m, n \in Internal :
                         \A v \in 1..Len(store'[m]), w \in 1..Len(store'[n]) :
                           IsGenerated(m, v)' /\ IsGenerated(n, w)'
                             => store'[m][v].batch = store'[n][w].batch
  BY DEF Once
<1>1. /\ spoiled \cap Bad = {} /\ "check" \notin spoiled' /\ "overlap" \notin spoiled
      /\ "disabled" \notin spoiled
  BY SpoiledGrows
<1>2. \A n \in Internal : n \in Names
  BY NameFacts
<1> HIDE DEF Bad
<1>3. /\ \A p \in Initializing : \A i \in 1..N : Pending(p, i) => Ungenerated(InternalNames[i])
      /\ \A p \in Initializing : pc[p] = "write" =>
           \A n \in Internal : \A v \in 1..Len(store[n]) :
             IsGenerated(n, v) => store[n][v].batch = batch[p]
      /\ \A m, n \in Internal : \A v \in 1..Len(store[m]), w \in 1..Len(store[n]) :
           IsGenerated(m, v) /\ IsGenerated(n, w) => store[m][v].batch = store[n][w].batch
  BY <1>1 DEF Once, Bad
\* A generated version was there, or is the one an initialization writes.
<1>4. ASSUME NEW n \in Internal, NEW v \in 1..Len(store'[n]), IsGenerated(n, v)'
      PROVE  \/ /\ v \in 1..Len(store[n]) /\ IsGenerated(n, v)
                /\ store'[n][v].batch = store[n][v].batch
             \/ \E p \in Procs : /\ Write(p) /\ n = InternalNames[k[p]]
                                 /\ store'[n][v].batch = batch[p]
  <2>1. CASE v \in 1..Len(store[n])
    BY <1>2, <1>4, <2>1, StoreGrows DEF IsGenerated
  <2>2. CASE v \notin 1..Len(store[n])
    <3>1. Len(store'[n]) = Len(store[n]) + 1 /\ v = Len(store'[n])
      BY <1>2, <1>4, <2>2, StoreGrows, StoreAdds
    <3>2. Typed.by # "generated"
      BY ValueFacts
    <3>3. Len(store'[n]) # Len(store[n])
      BY <1>2, <3>1, StoreGrows
    <3>4. ~\E p \in Procs : /\ Set(p) /\ n = cmd[p].name
                            /\ Len(store'[n]) = Len(store[n]) + 1
                            /\ store'[n][Len(store'[n])] = Typed
      BY <1>4, <3>1, <3>2 DEF IsGenerated
    <3>5. PICK p \in Procs : /\ Write(p) /\ n = InternalNames[k[p]]
                             /\ store'[n][v] = Generated(batch[p])
      BY <1>2, <3>1, <3>3, <3>4, StoreAdds
    <3>6. Generated(batch[p]).batch = batch[p]
      BY DEF Generated
    <3> QED  BY <3>5, <3>6
  <2> QED  BY <2>1, <2>2
<1>5. ASSUME NEW p \in Procs, Write(p)
      PROVE  /\ p \in Initializing /\ pc[p] = "write" /\ k[p] \in 1..N
             /\ \A q \in Initializing : q = p
             /\ batch'[p] = batch[p] \/ pc'[p] = "idle"
  <2>1. p \in Initializing /\ pc[p] = "write" /\ k[p] \in 1..N
    BY <1>5 DEF Write, At, Initializing, Types, Placed
  <2>2. \A q \in Initializing : q = p
    BY <1>1, <2>1 DEF Alone
  <2> QED  BY <1>5, <2>1, <2>2 DEF Write, Ends, Types, TypeOK
<1>6. ASSUME NEW p \in Initializing', NEW i \in 1..N, Pending(p, i)'
      PROVE  Ungenerated(InternalNames[i])'
  <2>1. InternalNames[i] \in Internal
    BY NameFacts
  <2>2. CASE p \in Initializing /\ Pending(p, i) /\ (Write(p) => i # k[p])
    <3>1. Ungenerated(InternalNames[i])
      BY <1>3, <2>2
    <3>2. ASSUME NEW q \in Procs, Write(q), InternalNames[i] = InternalNames[k[q]]
          PROVE  FALSE
      <4>1. p = q /\ k[q] \in 1..N
        BY <1>5, <2>2, <3>2
      <4>2. i = k[q]
        BY <3>2, <4>1, NameFacts
      <4> QED  BY <2>2, <3>2, <4>1, <4>2
    <3> QED  BY <1>4, <2>1, <3>1, <3>2 DEF Ungenerated
  <2>3. CASE store' = store /\ ~Exists(InternalNames[i])
    <3>1. Len(store[InternalNames[i]]) = 0
      BY <1>1, <2>1, <2>3, ExistsEmpty
    <3> QED  BY <2>3, <3>1 DEF Ungenerated, IsGenerated
  <2> QED  BY <1>1, <1>6, <2>2, <2>3, PendingStep
<1>7. ASSUME NEW m \in Internal, NEW n \in Internal,
             NEW v \in 1..Len(store'[m]), NEW w \in 1..Len(store'[n]),
             IsGenerated(m, v)', IsGenerated(n, w)'
      PROVE  store'[m][v].batch = store'[n][w].batch
  <2>1. CASE \E p \in Procs : Write(p)
    <3>1. PICK p \in Procs : Write(p)
      BY <2>1
    <3>2. \A q \in Procs : Write(q) => q = p
      BY <1>5, <3>1
    <3>3. store'[m][v].batch = batch[p]
      BY <1>3, <1>4, <1>5, <1>7, <3>1, <3>2
    <3>4. store'[n][w].batch = batch[p]
      BY <1>3, <1>4, <1>5, <1>7, <3>1, <3>2
    <3> QED  BY <3>3, <3>4
  <2>2. CASE ~\E p \in Procs : Write(p)
    BY <1>3, <1>4, <1>7, <2>2
  <2> QED  BY <2>1, <2>2
<1>8. ASSUME NEW p \in Initializing', pc'[p] = "write",
             NEW n \in Internal, NEW v \in 1..Len(store'[n]), IsGenerated(n, v)'
      PROVE  store'[n][v].batch = batch'[p]
  <2>1. p \in Procs /\ cmd'[p].kind = "initialize"
    BY DEF Initializing
  <2>2. CASE pc[p] = "write" /\ p \in Initializing /\ batch'[p] = batch[p]
    <3>1. \A q \in Procs : Write(q) => q = p
      BY <1>5, <2>2
    <3> QED  BY <1>3, <1>4, <1>8, <2>2, <3>1
  <2>3. CASE Generate(p)
    <3>1. /\ p \in Initializing /\ store' = store
          /\ pc[p] = "decide" /\ Found(p) = {}
      BY <2>3 DEF Generate, At, Initializing, cloud
    <3>2. PICK i \in 1..N : n = InternalNames[i]
      BY NameFacts
    <3>3. Pending(p, i)
      BY <1>2, <3>1, <3>2 DEF Pending, Found
    <3>4. Ungenerated(n)
      BY <1>3, <3>1, <3>2, <3>3
    <3> QED  BY <1>8, <3>1, <3>4 DEF Ungenerated, IsGenerated
  <2>4. (pc[p] = "write" /\ p \in Initializing /\ batch'[p] = batch[p]) \/ Generate(p)
    <3>1. CASE UNCHANGED session
      BY <1>8, <2>1, <3>1 DEF session, Initializing
    <3>2. ASSUME NEW q \in Procs, Acts(q), q # p
          PROVE  pc[p] = "write" /\ p \in Initializing /\ batch'[p] = batch[p]
      BY <1>8, <2>1, <3>2, OthersKeep DEF Initializing
    <3>3. CASE Acts(p)
      <4>1. ~Ends(p)
        BY <1>8, <2>1 DEF Ends, Types, TypeOK
      <4>2. ~\E c \in Command : Begin(p, c)
        BY <1>8, <2>1 DEF Begin, Goto, Types, TypeOK
      <4>3. ~Look(p)
        BY <1>8, <2>1 DEF Look, Goto, At, Types, TypeOK
      <4>4. CASE Write(p)
        BY <1>5, <1>8, <4>4, <2>1
      <4> QED  BY <3>3, <4>1, <4>2, <4>3, <4>4
               DEF Acts, Kept, Set, Up, Render, Refuse, Stop
    <3>4. UNCHANGED session \/ \E q \in Procs : Acts(q)
      BY DEF Next, Acts, Prepare, Disable, vars
    <3> QED  BY <3>1, <3>2, <3>3, <3>4
  <2> QED  BY <2>2, <2>3, <2>4
<1> QED  BY <1>6, <1>7, <1>8

LEMMA BatchesInit == Init => Alone /\ FirstOn /\ Once
<1> SUFFICES ASSUME Init PROVE Alone /\ FirstOn /\ Once
  OBVIOUS
<1>1. Initializing = {} /\ \A n \in Internal : Len(store[n]) = 0
  BY NameFacts DEF Init, Initializing
<1> QED  BY <1>1 DEF Alone, FirstOn, Once

\* PinsCorrelated: the generated values a node is given are of one batch
\* (secrets.rs, initialize_internal, with render_node_config).
THEOREM PinsOfOneBatch == Spec => []PinsCorrelated
<1>1. Types /\ Pinned /\ Once => PinsCorrelated
  <2> SUFFICES ASSUME Types, Pinned, Once, nodeConfig # Unpinned,
                      spoiled \cap {"overlap", "check", "disabled"} = {},
                      NEW m \in Internal, NEW n \in Internal,
                      PinnedFrom(m).by = "generated", PinnedFrom(n).by = "generated"
               PROVE  PinnedFrom(m).batch = PinnedFrom(n).batch
    BY DEF PinsCorrelated
  <2>1. nodeConfig[m] \in 1..Len(store[m]) /\ nodeConfig[n] \in 1..Len(store[n])
    BY NameFacts DEF Pinned
  <2> QED  BY <2>1 DEF Once, PinnedFrom, IsGenerated
<1> QED  BY <1>1, TypesInit, TypesStep, PinnedInit, PinnedStep, BatchesInit, AloneStep,
            FirstOnStep, OnceStep, PTL DEF Spec

-------------------------------------------------------------------------------
(* The operator's values.                                                  *)

\* Where nothing races with an initialization, what it finds missing is
\* empty until it writes it, and generated values are first versions.
Uncovered ==
  spoiled \cap {"overlap", "check", "raced", "disabled"} = {} =>
    /\ \A p \in Initializing : \A i \in 1..N :
         Pending(p, i) => Len(store[InternalNames[i]]) = 0
    /\ \A n \in Internal : \A v \in 1..Len(store[n]) : IsGenerated(n, v) => v = 1

LEMMA UncoveredStep == Types /\ Alone /\ FirstOn /\ Uncovered /\ [Next]_vars => Uncovered'
<1> DEFINE Bad == {"overlap", "check", "raced", "disabled"}
<1> SUFFICES ASSUME Types, Alone, FirstOn, Uncovered, [Next]_vars, spoiled' \cap Bad = {}
             PROVE  /\ \A p \in Initializing' : \A i \in 1..N :
                         Pending(p, i)' => Len(store'[InternalNames[i]]) = 0
                    /\ \A n \in Internal : \A v \in 1..Len(store'[n]) :
                         IsGenerated(n, v)' => v = 1
  BY DEF Uncovered
<1>1. /\ spoiled \cap Bad = {} /\ "check" \notin spoiled' /\ "overlap" \notin spoiled
      /\ "disabled" \notin spoiled /\ "raced" \notin spoiled'
  BY SpoiledGrows
<1>2. \A n \in Internal : n \in Names
  BY NameFacts
<1> HIDE DEF Bad
<1>3. /\ \A p \in Initializing : \A i \in 1..N :
           Pending(p, i) => Len(store[InternalNames[i]]) = 0
      /\ \A n \in Internal : \A v \in 1..Len(store[n]) : IsGenerated(n, v) => v = 1
  BY <1>1 DEF Uncovered, Bad
<1>4. ASSUME NEW p \in Procs, Write(p)
      PROVE  /\ p \in Initializing /\ k[p] \in 1..N /\ Pending(p, k[p])
             /\ \A q \in Initializing : q = p
  <2>1. p \in Initializing /\ pc[p] = "write" /\ k[p] \in 1..N
    BY <1>4 DEF Write, At, Initializing, Types, Placed
  <2> QED  BY <1>1, <2>1, NameFacts DEF Alone, Pending
<1>5. ASSUME NEW p \in Procs, Set(p), cmd[p].name \in Internal
      PROVE  Initializing = {}
  BY <1>1, <1>5 DEF Set
<1>6. ASSUME NEW p \in Initializing', NEW i \in 1..N, Pending(p, i)'
      PROVE  Len(store'[InternalNames[i]]) = 0
  <2>1. InternalNames[i] \in Internal /\ InternalNames[i] \in Names
    BY NameFacts
  <2>2. CASE p \in Initializing /\ Pending(p, i) /\ (Write(p) => i # k[p])
    <3>1. Len(store[InternalNames[i]]) = 0
      BY <1>3, <2>2
    <3>2. ASSUME NEW q \in Procs, Write(q), InternalNames[i] = InternalNames[k[q]]
          PROVE  FALSE
      <4>1. p = q /\ k[q] \in 1..N
        BY <1>4, <2>2, <3>2
      <4>2. i = k[q]
        BY <3>2, <4>1, NameFacts
      <4> QED  BY <2>2, <3>2, <4>1, <4>2
    <3>3. ASSUME NEW q \in Procs, Set(q), InternalNames[i] = cmd[q].name
          PROVE  FALSE
      BY <1>5, <2>1, <2>2, <3>3
    <3> QED  BY <2>1, <3>1, <3>2, <3>3, StoreAdds
  <2>3. CASE store' = store /\ ~Exists(InternalNames[i])
    <3>1. Len(store[InternalNames[i]]) = 0
      BY <1>1, <2>1, <2>3, ExistsEmpty
    <3> QED  BY <2>3, <3>1
  <2> QED  BY <1>1, <1>6, <2>2, <2>3, PendingStep
<1>7. ASSUME NEW n \in Internal, NEW v \in 1..Len(store'[n]), IsGenerated(n, v)'
      PROVE  v = 1
  <2>1. CASE v \in 1..Len(store[n])
    <3>1. IsGenerated(n, v)
      BY <1>2, <1>7, <2>1, StoreGrows DEF IsGenerated
    <3> QED  BY <1>3, <2>1, <3>1
  <2>2. CASE v \notin 1..Len(store[n])
    <3>1. /\ Len(store'[n]) = Len(store[n]) + 1 /\ v = Len(store'[n])
          /\ Len(store'[n]) # Len(store[n])
      BY <1>2, <1>7, <2>2, StoreGrows, StoreAdds
    <3>2. Typed.by # "generated"
      BY ValueFacts
    <3>3. ~\E p \in Procs : /\ Set(p) /\ n = cmd[p].name
                            /\ Len(store'[n]) = Len(store[n]) + 1
                            /\ store'[n][Len(store'[n])] = Typed
      BY <1>7, <3>1, <3>2 DEF IsGenerated
    <3>4. PICK p \in Procs : Write(p) /\ n = InternalNames[k[p]]
      BY <1>2, <3>1, <3>3, StoreAdds
    <3>5. Len(store[n]) = 0
      BY <1>3, <1>4, <3>4
    <3> QED  BY <3>1, <3>5
  <2> QED  BY <2>1, <2>2
<1> QED  BY <1>6, <1>7

\* OperatorNotCovered: an initialization does not write over a value the
\* operator set before (secrets.rs, initialize_internal).
THEOREM OperatorValuesStay == Spec => []OperatorNotCovered
<1>1. Init => Uncovered
  <2> SUFFICES ASSUME Init PROVE Uncovered
    OBVIOUS
  <2>1. Initializing = {} /\ \A n \in Internal : Len(store[n]) = 0
    BY NameFacts DEF Init, Initializing
  <2> QED  BY <2>1 DEF Uncovered
<1>2. Types /\ Uncovered => OperatorNotCovered
  <2> SUFFICES ASSUME Types, Uncovered,
                      spoiled \cap {"overlap", "check", "raced", "disabled"} = {},
                      NEW n \in Internal, NEW v \in 1..Len(store[n]),
                      NEW w \in 1..Len(store[n]),
                      store[n][v].by = "operator", store[n][w].by = "generated"
               PROVE  w < v
    BY DEF OperatorNotCovered
  <2>1. w = 1 /\ v # w
    BY DEF Uncovered, IsGenerated
  <2>2. Len(store[n]) \in Nat
    BY NameFacts DEF Types, TypeOK
  <2> QED  BY <2>1, <2>2
<1> QED  BY <1>1, <1>2, TypesInit, TypesStep, BatchesInit, AloneStep, FirstOnStep,
            UncoveredStep, PTL DEF Spec
===============================================================================
