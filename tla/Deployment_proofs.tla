------------------------- MODULE Deployment_proofs -------------------------
(***************************************************************************)
(* However the scripts are interrupted, resumed or started, for all        *)
(* scripts of the assumed form: what the files name is on the chain and of *)
(* the right kind, and so is whatever a contract was linked to.  The       *)
(* invariant adds the memory of the running script, which feeds both, and  *)
(* what the script has already checked about the configured addresses,     *)
(* whose contracts a chain that is not a fork does not have.               *)
(***************************************************************************)
EXTENDS Deployment, SequenceTheorems, TLAPS

\* Anything the steps can deploy.
ArgsOf == {<<>>} \cup {Scripts[n][i].args : n \in 1 .. Len(Scripts), i \in Nat}
UsesOf == UNION {[R -> Nat] : R \in SUBSET DOMAIN RoleKind}
Contract == [is : Names \cup {""}, args : ArgsOf, uses : UsesOf]

\* What is in the files and in memory is of the files' form.
Shape ==
    /\ network \in Networks
    /\ chain \in Seq(Contract)
    /\ files = [f \in Files |-> files[f]]
    /\ \A f \in Files : Readable(f) => files[f] \in [DOMAIN Kind[f] -> Nat]
    /\ mem = [p \in Places |-> mem[p]]
    /\ \A p \in Places : mem[p] \in [DOMAIN Kind[p] -> Nat]
    /\ pc \in Nat \ {0}
    /\ at \in 1 .. Len(Scripts)
    /\ until \in 1 .. Len(Scripts)

\* What was there before stays, if it was there at all.
Foundation ==
    /\ Len(External) <= Len(chain)
    /\ \A a \in DOMAIN External : chain[a] \in {External[a], NoCode}

\* The running script's memory is as good as the files.
MemoryDescribesChain ==
    /\ mem["env"] = env
    /\ \A p \in Places \ {"env"} : \A k \in DOMAIN Kind[p] :
          mem[p][k] # 0 => Fits(mem[p][k], Kind[p][k])

\* A check of the configuration that was passed still holds.
ConfigurationChecked ==
    \A j \in 1 .. pc - 1 : j <= Len(Scripts[at]) =>
        LET s == Scripts[at][j] IN
        s.op = "check" /\ s.file = "env" /\ network \in s.on =>
            \A k \in s.keys : HasCode(env[k])

IInv == /\ Shape /\ Foundation /\ MemoryDescribesChain /\ ConfigurationChecked
        /\ FilesDescribeChain /\ LinksAreRight
\* Fits, after a step.
FitsNext(a, is) == a \in DOMAIN chain' /\ chain'[a].is = is

\* The contracts that are there beforehand.
LEMMA ExternalFacts ==
    /\ Len(External) \in Nat
    /\ DOMAIN External = 1 .. Len(External)
    /\ \A a \in DOMAIN External :
          External[a] \in [is : Names, args : {<<>>}, uses : {<<>>}]
<1> DEFINE S == [is : Names, args : {<<>>}, uses : {<<>>}]
<1>1. External \in Seq(S)
  BY EntriesAssumption
<1> HIDE DEF S
<1>2. /\ Len(External) \in Nat /\ DOMAIN External = 1 .. Len(External)
      /\ \A a \in DOMAIN External : External[a] \in S
  BY <1>1
<1> QED BY <1>2 DEF S

\* The address of a contract that is not there.
LEMMA NoCodeFacts ==
    /\ NoCode.is = "" /\ NoCode.uses = <<>>
    /\ NoCode \in [is : {""}, args : {<<>>}, uses : {<<>>}]
<1>1. \A s, e : /\ [is |-> s, args |-> e, uses |-> e] \in [is : {s}, args : {e}, uses : {e}]
               /\ [is |-> s, args |-> e, uses |-> e].is = s
               /\ [is |-> s, args |-> e, uses |-> e].uses = e
  OBVIOUS
<1> QED BY <1>1, Zenon DEF NoCode

\* A configured address is one of a contract that is there beforehand.
LEMMA EnvIsExternal ==
    /\ env \in [DOMAIN Kind["env"] -> Nat]
    /\ \A k \in DOMAIN Kind["env"] :
          env[k] \in DOMAIN External /\ External[env[k]].is = Kind["env"][k]
<1>1. ASSUME NEW k \in DOMAIN Kind["env"]
      PROVE  env[k] \in DOMAIN External /\ External[env[k]].is = Kind["env"][k]
  BY EntriesAssumption DEF env
<1>2. DOMAIN External \subseteq Nat
  BY ExternalFacts
<1> QED BY <1>1, <1>2 DEF env

\* What a chain has, it keeps: contracts are only added.
LEMMA ChainGrows ==
    ASSUME chain \in Seq(Contract), NEW c \in Contract, chain' = Append(chain, c)
    PROVE  /\ chain' \in Seq(Contract)
           /\ Len(chain') = Len(chain) + 1
           /\ DOMAIN chain \subseteq DOMAIN chain'
           /\ \A a \in DOMAIN chain : chain'[a] = chain[a]
           /\ chain'[Len(chain) + 1] = c
           /\ DOMAIN chain' = DOMAIN chain \cup {Len(chain) + 1}
           /\ \A a, is : Fits(a, is) => FitsNext(a, is)
           /\ \A a : HasCode(a) => HasCode(a)'
<1>1. /\ chain' \in Seq(Contract)
      /\ Len(chain') = Len(chain) + 1
      /\ \A a \in DOMAIN chain : chain'[a] = chain[a]
      /\ chain'[Len(chain) + 1] = c
  BY AppendProperties
<1>2. DOMAIN chain = 1 .. Len(chain) /\ DOMAIN chain' = 1 .. Len(chain') /\ Len(chain) \in Nat
  BY <1>1
<1>3. DOMAIN chain \subseteq DOMAIN chain' /\ DOMAIN chain' = DOMAIN chain \cup {Len(chain) + 1}
  BY <1>1, <1>2
<1> QED BY <1>1, <1>3 DEF Fits, FitsNext, HasCode

\* A configured address whose contract is there is of the right kind.
LEMMA EnvFits ==
    ASSUME Shape, Foundation, NEW k \in DOMAIN Kind["env"], HasCode(env[k])
    PROVE  Fits(env[k], Kind["env"][k])
<1>1. env[k] \in DOMAIN External /\ External[env[k]].is = Kind["env"][k]
  BY EnvIsExternal
<1>2. chain[env[k]] # NoCode
  BY NoCodeFacts DEF HasCode
<1>3. chain[env[k]] = External[env[k]]
  BY <1>1, <1>2 DEF Foundation
<1> QED BY <1>1, <1>3 DEF HasCode, Fits

\* A process that starts remembers nothing.
LEMMA BlankMemory ==
    ASSUME mem' = NoMemory
    PROVE  /\ mem' = [p \in Places |-> mem'[p]]
           /\ \A p \in Places : mem'[p] \in [DOMAIN Kind[p] -> Nat]
           /\ MemoryDescribesChain'
<1>1. mem'["env"] = env
  BY EntriesAssumption DEF NoMemory
<1>2. \A p \in Places \ {"env"} : mem'[p] = Blank(p)
  BY DEF NoMemory
<1>3. ASSUME NEW p \in Places \ {"env"} PROVE mem'[p] \in [DOMAIN Kind[p] -> Nat]
  <2>1. Blank(p) \in [DOMAIN Kind[p] -> Nat]
    BY DEF Blank
  <2> QED BY <1>2, <2>1
<1>4. \A p \in Places \ {"env"} : \A k \in DOMAIN Kind[p] : mem'[p][k] = 0
  BY <1>2 DEF Blank
<1>5. env' = env
  BY DEF env
<1> QED BY <1>1, <1>3, <1>4, <1>5, EnvIsExternal DEF MemoryDescribesChain, NoMemory

\* The step that is run is of the assumed form.
LEMMA StepIsOK ==
    ASSUME Shape, NEW op, Running(op)
    PROVE  StepOK(at, pc) /\ step = Scripts[at][pc] /\ step.op = op /\ Passes(step)
BY ScriptsAssumption DEF Shape, Running, step

\* Steps that pass one after the other leave what was checked checked.
LEMMA ChecksLast ==
    ASSUME Shape, MemoryDescribesChain, ConfigurationChecked,
           NEW op, Running(op), Advance, network' = network,
           \A a : HasCode(a) => HasCode(a)'
    PROVE  ConfigurationChecked'
<1> SUFFICES ASSUME NEW j \in 1 .. pc' - 1, j <= Len(Scripts[at]),
                    Scripts[at][j].op = "check", Scripts[at][j].file = "env",
                    network \in Scripts[at][j].on,
                    NEW k \in Scripts[at][j].keys
             PROVE  HasCode(env[k])'
  <2>1. at' = at /\ pc' = pc + 1 /\ env' = env
    BY DEF Advance, env
  <2> QED BY <2>1 DEF ConfigurationChecked
<1>1. env' = env /\ pc' = pc + 1
  BY DEF Advance, env
<1>2. CASE j \in 1 .. pc - 1
  BY <1>1, <1>2 DEF ConfigurationChecked
<1>3. CASE j = pc
  <2>1. Passes(step) /\ step = Scripts[at][j]
    BY <1>3, StepIsOK
  <2>2. Checks(step)
    BY <2>1 DEF Passes
  <2>3. HasCode(mem["env"][k])
    BY <2>1, <2>2 DEF Checks
  <2> QED BY <1>1, <2>3 DEF MemoryDescribesChain
<1> QED BY <1>1, <1>2, <1>3 DEF Shape

\* An address that a step refers to is one of the right kind, or none yet.
LEMMA ValueFits ==
    ASSUME IInv, NEW p \in Places \ {"env"}, NEW k \in DOMAIN Kind[p]
    PROVE  /\ mem[p][k] \in Nat
           /\ mem[p][k] # 0 => Fits(mem[p][k], Kind[p][k])
BY DEF IInv, Shape, MemoryDescribesChain

\* The invariant holds at the start.
LEMMA InitIInv == Init => IInv
<1> SUFFICES ASSUME Init PROVE IInv
  OBVIOUS
<1>1. /\ \A a \in DOMAIN External : External[a] \in Contract
      /\ NoCode \in Contract
  <2>1. <<>> \in UsesOf
    <3>1. <<>> \in [{} -> Nat]
      OBVIOUS
    <3> QED BY <3>1 DEF UsesOf
  <2>2. <<>> \in ArgsOf
    BY DEF ArgsOf
  <2>3. ASSUME NEW a \in DOMAIN External PROVE External[a] \in Contract
    <3>1. External[a] \in [is : Names, args : {<<>>}, uses : {<<>>}]
      BY ExternalFacts
    <3> QED BY <2>1, <2>2, <3>1 DEF Contract
  <2>4. NoCode \in Contract
    BY <2>1, <2>2, NoCodeFacts DEF Contract
  <2> QED BY <2>3, <2>4
<1>2. chain \in Seq(Contract) /\ Len(chain) = Len(External) /\ DOMAIN chain = DOMAIN External
      /\ \A a \in DOMAIN External : chain[a] \in {External[a], NoCode}
  <2>1. External \in Seq(Contract)
    <3>1. External \in Seq([is : Names, args : {<<>>}, uses : {<<>>}])
      BY EntriesAssumption
    <3>2. External = [a \in 1 .. Len(External) |-> External[a]]
      BY <3>1
    <3>3. External \in [1 .. Len(External) -> Contract]
      BY <1>1, <3>2, ExternalFacts
    <3> QED BY <3>3, ExternalFacts
  <2>2. CASE chain = External
    BY <2>1, <2>2
  <2>3. CASE chain = [a \in DOMAIN External |-> NoCode]
    <3>1. DOMAIN External = 1 .. Len(External) /\ Len(External) \in Nat
      BY ExternalFacts
    <3>2. chain \in [1 .. Len(External) -> Contract]
      BY <1>1, <2>3, <3>1
    <3>3. chain \in Seq(Contract) /\ Len(chain) = Len(External)
      BY <3>1, <3>2
    <3> QED BY <2>3, <3>3
  <2> QED BY <2>2, <2>3 DEF Init
<1>3. mem = NoMemory
  BY DEF Init
<1>4. /\ mem = [p \in Places |-> mem[p]]
      /\ \A p \in Places : mem[p] \in [DOMAIN Kind[p] -> Nat]
      /\ MemoryDescribesChain
  <2>1. mem["env"] = env
    BY <1>3, EntriesAssumption DEF NoMemory
  <2>2. \A p \in Places \ {"env"} : mem[p] = Blank(p)
    BY <1>3 DEF NoMemory
  <2>3. ASSUME NEW p \in Places \ {"env"} PROVE mem[p] \in [DOMAIN Kind[p] -> Nat]
    <3>1. Blank(p) \in [DOMAIN Kind[p] -> Nat]
      BY DEF Blank
    <3> QED BY <2>2, <3>1
  <2>4. \A p \in Places \ {"env"} : \A k \in DOMAIN Kind[p] : mem[p][k] = 0
    BY <2>2 DEF Blank
  <2> QED BY <1>3, <2>1, <2>3, <2>4, EnvIsExternal DEF MemoryDescribesChain, NoMemory
<1>5. at \in 1 .. Len(Scripts) /\ until \in 1 .. Len(Scripts) /\ pc = 1
  BY ScriptsAssumption DEF Init
<1>6. \A f \in Files : ~Readable(f)
  BY DEF Init, Readable
<1>7. Shape
  BY <1>2, <1>4, <1>5, <1>6 DEF Shape, Init
<1>8. Foundation
  BY <1>2, ExternalFacts DEF Foundation
<1>9. ConfigurationChecked
  BY <1>5 DEF ConfigurationChecked
<1>10. LinksAreRight
  <2>1. ASSUME NEW a \in DOMAIN chain PROVE chain[a].uses = <<>>
    <3>1. External[a].uses = <<>>
      BY <1>2, ExternalFacts
    <3> QED BY <1>2, <3>1, NoCodeFacts
  <2>2. DOMAIN (<<>>) = {}
    OBVIOUS
  <2>3. \A a \in DOMAIN chain : DOMAIN chain[a].uses = {}
    BY <2>1, <2>2
  <2> QED BY <2>3 DEF LinksAreRight
<1> QED BY <1>4, <1>6, <1>7, <1>8, <1>9, <1>10 DEF IInv, FilesDescribeChain

\* While no contract is added, the contracts stay as good as they were.
LEMMA SameChain ==
    ASSUME IInv, UNCHANGED <<network, chain>>
    PROVE  /\ Foundation' /\ LinksAreRight'
           /\ \A a, is : Fits(a, is) => FitsNext(a, is)
           /\ \A a : HasCode(a) => HasCode(a)'
BY DEF IInv, Foundation, LinksAreRight, Fits, FitsNext, HasCode

\* A file that stays, or is lost, is as good as it was.
LEMMA FilesStay ==
    ASSUME IInv, \A a, is : Fits(a, is) => FitsNext(a, is),
           files' = [f \in Files |-> files'[f]],
           \A f \in Files : files'[f] = files[f] \/ ~Readable(f)'
    PROVE  /\ FilesDescribeChain'
           /\ \A f \in Files : Readable(f)' => files'[f] \in [DOMAIN Kind[f] -> Nat]
<1>1. ASSUME NEW f \in Files, Readable(f)'
      PROVE  files'[f] = files[f] /\ Readable(f)
  BY <1>1 DEF Readable
<1>2. ASSUME NEW f \in Files, Readable(f)', NEW k \in DOMAIN files'[f], files'[f][k] # 0
      PROVE  FitsNext(files'[f][k], Kind[f][k])
  <2>1. Fits(files[f][k], Kind[f][k])
    BY <1>1, <1>2 DEF IInv, FilesDescribeChain
  <2> QED BY <1>1, <1>2, <2>1
<1> QED BY <1>1, <1>2 DEF IInv, Shape, FilesDescribeChain, Fits, FitsNext

\* A step that stores an address of the right kind, or none, in memory.
LEMMA MemoryStore ==
    ASSUME IInv, NEW p \in Places \ {"env"}, NEW k \in DOMAIN Kind[p], NEW a \in Nat,
           mem' = [mem EXCEPT ![p][k] = a],
           \A b, is : Fits(b, is) => FitsNext(b, is),
           a # 0 => FitsNext(a, Kind[p][k])
    PROVE  /\ mem' = [q \in Places |-> mem'[q]]
           /\ \A q \in Places : mem'[q] \in [DOMAIN Kind[q] -> Nat]
           /\ MemoryDescribesChain'
<1>1. /\ mem = [q \in Places |-> mem[q]]
      /\ \A q \in Places : mem[q] \in [DOMAIN Kind[q] -> Nat]
  BY DEF IInv, Shape
<1>2. mem' = [q \in Places |-> IF q = p THEN [mem[p] EXCEPT ![k] = a] ELSE mem[q]]
  BY <1>1
<1>3. mem'[p] = [mem[p] EXCEPT ![k] = a] /\ \A q \in Places \ {p} : mem'[q] = mem[q]
  BY <1>2
<1>4. \A q \in Places : mem'[q] \in [DOMAIN Kind[q] -> Nat]
  BY <1>1, <1>3
<1>5. mem'["env"] = env /\ env' = env
  BY <1>3, EntriesAssumption DEF IInv, MemoryDescribesChain, env
<1>6. ASSUME NEW q \in Places \ {"env"}, NEW l \in DOMAIN Kind[q], mem'[q][l] # 0
      PROVE  FitsNext(mem'[q][l], Kind[q][l])
  <2>1. CASE q = p /\ l = k
    <3>1. mem'[q][l] = a
      BY <1>1, <1>3, <2>1
    <3> QED BY <1>6, <2>1, <3>1
  <2>2. CASE ~(q = p /\ l = k)
    <3>1. mem'[q][l] = mem[q][l]
      BY <1>1, <1>3, <2>2
    <3>2. Fits(mem[q][l], Kind[q][l])
      BY <1>6, <3>1 DEF IInv, MemoryDescribesChain
    <3> QED BY <3>1, <3>2
  <2> QED BY <2>1, <2>2
<1>7. mem' = [q \in Places |-> mem'[q]]
  BY <1>2
<1> QED BY <1>4, <1>5, <1>6, <1>7 DEF MemoryDescribesChain, Fits, FitsNext

\* A step that passes on keeps the shape of what it leaves alone.
LEMMA AdvanceShape ==
    ASSUME Shape, Advance, network' = network, chain' \in Seq(Contract),
           files' = files \/ (/\ files' = [f \in Files |-> files'[f]]
                              /\ \A f \in Files : Readable(f)' =>
                                     files'[f] \in [DOMAIN Kind[f] -> Nat]),
           mem' = [p \in Places |-> mem'[p]],
           \A p \in Places : mem'[p] \in [DOMAIN Kind[p] -> Nat]
    PROVE  Shape'
<1>1. /\ pc' \in Nat \ {0} /\ at' \in 1 .. Len(Scripts) /\ until' \in 1 .. Len(Scripts)
  BY DEF Shape, Advance
<1>2. /\ files' = [f \in Files |-> files'[f]]
      /\ \A f \in Files : Readable(f)' => files'[f] \in [DOMAIN Kind[f] -> Nat]
  BY DEF Shape, Readable
<1> QED BY <1>1, <1>2 DEF Shape

\* Checks change nothing and establish what they check.
LEMMA CheckStepKeeps == IInv /\ CheckStep => IInv'
<1> SUFFICES ASSUME IInv, CheckStep PROVE IInv'
  OBVIOUS
<1>1. PICK op : Running(op)
  BY DEF CheckStep
<1>2. /\ UNCHANGED <<network, chain, files, mem>> /\ Advance
  BY DEF CheckStep, disk
<1>3. Foundation' /\ LinksAreRight' /\ (\A a, is : Fits(a, is) => FitsNext(a, is))
      /\ \A a : HasCode(a) => HasCode(a)'
  BY <1>2, SameChain
<1>4. ConfigurationChecked'
  BY <1>1, <1>2, <1>3, ChecksLast DEF IInv
<1>5. Shape'
  BY <1>2, AdvanceShape DEF IInv, Shape
<1>6. MemoryDescribesChain'
  BY <1>2, <1>3 DEF IInv, MemoryDescribesChain, env, Fits, FitsNext
<1>7. FilesDescribeChain'
  BY <1>2, <1>3 DEF IInv, FilesDescribeChain, Readable, Fits, FitsNext
<1> QED BY <1>3, <1>4, <1>5, <1>6, <1>7 DEF IInv

\* What is read from a file is as good as the file.
LEMMA LoadKeeps == IInv /\ Load => IInv'
<1> SUFFICES ASSUME IInv, Load PROVE IInv'
  OBVIOUS
<1>1. Running("load")
  BY DEF Load
<1>2. UNCHANGED <<network, chain, files>> /\ Advance
      /\ mem' = [mem EXCEPT ![step.file] = files[step.file]]
  BY DEF Load, disk
<1>3. Foundation' /\ LinksAreRight' /\ (\A a, is : Fits(a, is) => FitsNext(a, is))
      /\ \A a : HasCode(a) => HasCode(a)'
  BY <1>2, SameChain
<1>4. ConfigurationChecked'
  BY <1>1, <1>2, <1>3, ChecksLast DEF IInv
<1> DEFINE f == step.file
<1>5. f \in Files /\ f \in Places \ {"env"} /\ Readable(f)
  <2>1. StepOK(at, pc) /\ step = Scripts[at][pc] /\ step.op = "load" /\ Passes(step)
    BY <1>1, StepIsOK DEF IInv
  <2>2. f \in Files
    BY <2>1 DEF StepOK
  <2>3. Readable(f)
    BY <2>1 DEF Passes
  <2> QED BY <2>2, <2>3, EntriesAssumption
<1>6. files[f] \in [DOMAIN Kind[f] -> Nat]
  BY <1>5 DEF IInv, Shape
<1>7. ASSUME NEW k \in DOMAIN Kind[f], files[f][k] # 0 PROVE Fits(files[f][k], Kind[f][k])
  BY <1>5, <1>6, <1>7 DEF IInv, FilesDescribeChain
<1> HIDE DEF f
<1>8. mem' = [q \in Places |-> IF q = f THEN files[f] ELSE mem[q]]
  BY <1>2 DEF IInv, Shape, f
<1>9. /\ mem' = [q \in Places |-> mem'[q]]
      /\ \A q \in Places : mem'[q] \in [DOMAIN Kind[q] -> Nat]
  BY <1>6, <1>8 DEF IInv, Shape
<1>10. MemoryDescribesChain'
  <2>1. mem'["env"] = env /\ env' = env
    BY <1>5, <1>8, EntriesAssumption DEF IInv, MemoryDescribesChain, env
  <2>2. ASSUME NEW q \in Places \ {"env"}, NEW l \in DOMAIN Kind[q], mem'[q][l] # 0
        PROVE  FitsNext(mem'[q][l], Kind[q][l])
    <3>1. CASE q = f
      BY <1>3, <1>7, <1>8, <2>2, <3>1
    <3>2. CASE q # f
      BY <1>3, <1>8, <2>2, <3>2 DEF IInv, MemoryDescribesChain
    <3> QED BY <3>1, <3>2
  <2> QED BY <2>1, <2>2 DEF MemoryDescribesChain, Fits, FitsNext
<1>11. Shape'
  BY <1>2, <1>9, AdvanceShape DEF IInv, Shape
<1>12. FilesDescribeChain'
  BY <1>2, <1>3 DEF IInv, FilesDescribeChain, Readable, Fits, FitsNext
<1> QED BY <1>3, <1>4, <1>10, <1>11, <1>12 DEF IInv

\* A contract is linked only to contracts of the right kind, and its
\* address goes where such an address is expected.
LEMMA DeployKeeps == IInv /\ Deploy => IInv'
<1> SUFFICES ASSUME IInv, Deploy PROVE IInv'
  OBVIOUS
<1> DEFINE c == Deployed(step)
<1>1. Running("deploy") /\ Advance /\ UNCHANGED <<network, files>>
      /\ chain' = Append(chain, c)
      /\ mem' = [mem EXCEPT ![step.file][step.key] = Len(chain) + 1]
  BY DEF Deploy
<1>2. StepOK(at, pc) /\ step = Scripts[at][pc] /\ step.op = "deploy" /\ Passes(step)
  BY <1>1, StepIsOK DEF IInv
<1>3. /\ IsEntry(step.file, step.key)
      /\ step.is = Kind[step.file][step.key]
      /\ \A r \in DOMAIN step.uses :
            /\ r \in DOMAIN RoleKind
            /\ step.uses[r].role = ""
            /\ IsEntry(step.uses[r].place, step.uses[r].key)
            /\ Kind[step.uses[r].place][step.uses[r].key] = RoleKind[r]
  BY <1>2 DEF StepOK
<1>4. \A r \in DOMAIN step.uses : Value(step.uses[r]) # 0
  BY <1>2 DEF Passes, Deployable
<1>5. ASSUME NEW r \in DOMAIN step.uses
      PROVE  /\ Value(step.uses[r]) \in Nat
             /\ Fits(Value(step.uses[r]), RoleKind[r])
  <2> DEFINE ref == step.uses[r]
  <2>1. Value(ref) = mem[ref.place][ref.key]
    BY <1>3 DEF Value
  <2>2. ref.place \in Places \ {"env"} /\ ref.key \in DOMAIN Kind[ref.place]
    BY <1>3 DEF IsEntry
  <2>3. mem[ref.place][ref.key] \in Nat
        /\ (mem[ref.place][ref.key] # 0 =>
                Fits(mem[ref.place][ref.key], Kind[ref.place][ref.key]))
    BY <2>2, ValueFits
  <2>4. Kind[ref.place][ref.key] = RoleKind[r]
    BY <1>3
  <2> QED BY <1>4, <2>1, <2>3, <2>4
<1>6. /\ c.is = step.is /\ DOMAIN c.uses = DOMAIN step.uses
      /\ \A r \in DOMAIN step.uses : c.uses[r] = Value(step.uses[r])
  BY DEF Deployed
<1>7. c \in Contract
  <2>1. step.is \in Names
    <3>1. step.file \in Places /\ step.key \in DOMAIN Kind[step.file]
      BY <1>3 DEF IsEntry
    <3>2. step.is \in {Kind[step.file][k] : k \in DOMAIN Kind[step.file]}
      BY <1>3, <3>1
    <3> QED BY <3>1, <3>2 DEF Names
  <2>2. step.args \in ArgsOf
    BY <1>2 DEF ArgsOf, IInv, Shape
  <2>3. [r \in DOMAIN step.uses |-> Value(step.uses[r])] \in [DOMAIN step.uses -> Nat]
    BY <1>5
  <2>4. DOMAIN step.uses \in SUBSET DOMAIN RoleKind
    BY <1>3
  <2>5. [r \in DOMAIN step.uses |-> Value(step.uses[r])] \in UsesOf
    BY <2>3, <2>4 DEF UsesOf
  <2> QED BY <2>1, <2>2, <2>5 DEF Contract, Deployed
<1> HIDE DEF c
<1>8. /\ chain' \in Seq(Contract)
      /\ Len(chain') = Len(chain) + 1 /\ Len(chain) \in Nat
      /\ DOMAIN chain = 1 .. Len(chain)
      /\ \A a \in DOMAIN chain : chain'[a] = chain[a]
      /\ chain'[Len(chain) + 1] = c
      /\ DOMAIN chain' = DOMAIN chain \cup {Len(chain) + 1}
      /\ \A a, is : Fits(a, is) => FitsNext(a, is)
      /\ \A a : HasCode(a) => HasCode(a)'
  BY <1>1, <1>7, ChainGrows DEF IInv, Shape
<1>9. ConfigurationChecked'
  BY <1>1, <1>8, ChecksLast DEF IInv
<1>10. FitsNext(Len(chain) + 1, Kind[step.file][step.key])
  BY <1>3, <1>6, <1>8 DEF FitsNext
<1>11. /\ mem' = [q \in Places |-> mem'[q]]
       /\ \A q \in Places : mem'[q] \in [DOMAIN Kind[q] -> Nat]
       /\ MemoryDescribesChain'
  <2>1. step.file \in Places \ {"env"} /\ step.key \in DOMAIN Kind[step.file]
    BY <1>3 DEF IsEntry
  <2>2. Len(chain) + 1 \in Nat
    BY <1>8
  <2>3. mem' = [mem EXCEPT ![step.file][step.key] = Len(chain) + 1]
    BY <1>1
  <2>4. \A a, is : Fits(a, is) => FitsNext(a, is)
    BY <1>8
  <2> QED BY <1>10, <2>1, <2>2, <2>3, <2>4, MemoryStore
<1>12. Shape'
  BY <1>1, <1>8, <1>11, AdvanceShape DEF IInv
<1>13. Foundation'
  BY <1>8, ExternalFacts DEF IInv, Foundation
<1>14. FilesDescribeChain'
  BY <1>1, <1>8 DEF IInv, FilesDescribeChain, Readable, Fits, FitsNext
<1>15. ASSUME NEW a \in DOMAIN chain', NEW r \in DOMAIN chain'[a].uses
       PROVE  chain'[a].uses[r] < a /\ FitsNext(chain'[a].uses[r], RoleKind[r])
  <2>1. CASE a \in DOMAIN chain
    BY <1>8, <2>1 DEF IInv, LinksAreRight
  <2>2. CASE a = Len(chain) + 1
    <3>1. chain'[a].uses[r] = Value(step.uses[r]) /\ r \in DOMAIN step.uses
      BY <1>6, <1>8, <2>2
    <3>2. Fits(Value(step.uses[r]), RoleKind[r])
      BY <1>5, <3>1
    <3>3. Value(step.uses[r]) \in 1 .. Len(chain)
      BY <1>8, <3>2 DEF Fits
    <3> QED BY <1>8, <2>2, <3>1, <3>2, <3>3
  <2> QED BY <1>8, <2>1, <2>2
<1>16. LinksAreRight'
  BY <1>15 DEF LinksAreRight, Fits, FitsNext
<1> QED BY <1>9, <1>11, <1>12, <1>13, <1>14, <1>16 DEF IInv

\* What is copied in memory is copied to an entry of the same kind; a
\* configured address was checked before.
LEMMA PutKeeps == IInv /\ Put => IInv'
<1> SUFFICES ASSUME IInv, Put PROVE IInv'
  OBVIOUS
<1> DEFINE src == step.src
           a == Value(src)
<1>1. Running("put") /\ Advance /\ UNCHANGED <<network, chain, files>>
      /\ mem' = [mem EXCEPT ![step.file][step.key] = a]
  BY DEF Put, disk
<1>2. StepOK(at, pc) /\ step = Scripts[at][pc] /\ step.op = "put" /\ Passes(step)
  BY <1>1, StepIsOK DEF IInv
<1>3. /\ IsEntry(step.file, step.key)
      /\ IF src.place = "env"
         THEN /\ src.role = ""
              /\ src.key \in DOMAIN Kind["env"]
              /\ CheckedBefore(at, pc, src.key)
         ELSE IsEntry(src.place, src.key)
      /\ Kind[step.file][step.key] = IF src.role = "" THEN Kind[src.place][src.key]
                                                     ELSE RoleKind[src.role]
  BY <1>2 DEF StepOK
<1>4. Resolvable(src)
  BY <1>2 DEF Passes
<1>5. a \in Nat /\ (a # 0 => Fits(a, Kind[step.file][step.key]))
  <2>1. CASE src.place = "env"
    <3>1. a = env[src.key] /\ src.key \in DOMAIN Kind["env"]
      BY <1>3, <2>1 DEF Value, IInv, MemoryDescribesChain
    <3>2. PICK j \in 1 .. pc - 1 :
             /\ Scripts[at][j].op = "check" /\ Scripts[at][j].file = "env"
             /\ src.key \in Scripts[at][j].keys /\ Networks \subseteq Scripts[at][j].on
      BY <1>3, <2>1 DEF CheckedBefore
    <3>3. j <= Len(Scripts[at]) /\ network \in Scripts[at][j].on
      <4>1. pc <= Len(Scripts[at]) /\ Len(Scripts[at]) \in Nat /\ pc \in Nat
        BY <1>1, ScriptsAssumption DEF Running, IInv, Shape
      <4> QED BY <3>2, <4>1 DEF IInv, Shape
    <3>4. HasCode(env[src.key])
      BY <3>2, <3>3 DEF IInv, ConfigurationChecked
    <3>5. Fits(env[src.key], Kind["env"][src.key])
      BY <3>1, <3>4, EnvFits DEF IInv
    <3> QED BY <1>3, <2>1, <3>1, <3>5, EnvIsExternal
  <2>2. CASE src.place # "env" /\ src.role = ""
    <3>1. a = mem[src.place][src.key] /\ src.place \in Places \ {"env"}
          /\ src.key \in DOMAIN Kind[src.place]
      BY <1>3, <2>2 DEF Value, IsEntry
    <3> QED BY <1>3, <2>2, <3>1, ValueFits
  <2>3. CASE src.place # "env" /\ src.role # ""
    <3> DEFINE b == mem[src.place][src.key]
    <3>1. HasCode(b) /\ src.role \in DOMAIN chain[b].uses /\ a = chain[b].uses[src.role]
      BY <1>4, <2>3 DEF Resolvable, Value
    <3>2. b \in DOMAIN chain
      BY <3>1 DEF HasCode
    <3>3. Fits(a, RoleKind[src.role])
      BY <3>1, <3>2 DEF IInv, LinksAreRight
    <3>4. a \in Nat
      BY <3>3 DEF Fits, IInv, Shape
    <3> QED BY <1>3, <2>3, <3>3, <3>4
  <2> QED BY <1>3, <2>1, <2>2, <2>3
<1> HIDE DEF a
<1>6. Foundation' /\ LinksAreRight' /\ (\A b, is : Fits(b, is) => FitsNext(b, is))
      /\ \A b : HasCode(b) => HasCode(b)'
  BY <1>1, SameChain
<1>7. ConfigurationChecked'
  BY <1>1, <1>6, ChecksLast DEF IInv
<1>8. /\ mem' = [q \in Places |-> mem'[q]]
      /\ \A q \in Places : mem'[q] \in [DOMAIN Kind[q] -> Nat]
      /\ MemoryDescribesChain'
  BY <1>1, <1>3, <1>5, <1>6, MemoryStore DEF IsEntry
<1>9. Shape'
  BY <1>1, <1>8, AdvanceShape DEF IInv, Shape
<1>10. FilesDescribeChain'
  BY <1>1, <1>6 DEF IInv, FilesDescribeChain, Readable, Fits, FitsNext
<1> QED BY <1>6, <1>7, <1>8, <1>9, <1>10 DEF IInv

\* A file that is written is as good as the memory it is written from.
LEMMA SaveKeeps == IInv /\ Save => IInv'
<1> SUFFICES ASSUME IInv, Save PROVE IInv'
  OBVIOUS
<1> DEFINE f == step.file
<1>1. Running("save") /\ Advance /\ UNCHANGED <<network, chain, mem>>
      /\ files' = [files EXCEPT ![f] = mem[f]]
  BY DEF Save
<1>2. f \in Files /\ f \in Places \ {"env"}
  <2>1. StepOK(at, pc) /\ step = Scripts[at][pc] /\ step.op = "save"
    BY <1>1, StepIsOK DEF IInv
  <2> QED BY <2>1, EntriesAssumption DEF StepOK
<1> HIDE DEF f
<1>3. Foundation' /\ LinksAreRight' /\ (\A a, is : Fits(a, is) => FitsNext(a, is))
      /\ \A a : HasCode(a) => HasCode(a)'
  BY <1>1, SameChain
<1>4. ConfigurationChecked'
  BY <1>1, <1>3, ChecksLast DEF IInv
<1>5. files' = [g \in Files |-> IF g = f THEN mem[f] ELSE files[g]]
  BY <1>1 DEF IInv, Shape
<1>6. files' = [g \in Files |-> files'[g]]
  BY <1>5
<1>7. \A g \in Files : Readable(g)' => files'[g] \in [DOMAIN Kind[g] -> Nat]
  BY <1>2, <1>5 DEF IInv, Shape, Readable
<1>8. ASSUME NEW g \in Files, Readable(g)', NEW k \in DOMAIN files'[g], files'[g][k] # 0
      PROVE  FitsNext(files'[g][k], Kind[g][k])
  <2>1. CASE g = f
    <3>1. files'[g] = mem[f] /\ k \in DOMAIN Kind[f]
      BY <1>2, <1>5, <1>7, <1>8, <2>1
    <3>2. Fits(mem[f][k], Kind[f][k])
      BY <1>2, <1>8, <3>1, ValueFits
    <3> QED BY <1>3, <2>1, <3>1, <3>2
  <2>2. CASE g # f
    <3>1. files'[g] = files[g] /\ Readable(g)
      BY <1>5, <1>8, <2>2 DEF Readable
    <3>2. Fits(files[g][k], Kind[g][k])
      BY <1>8, <3>1 DEF IInv, FilesDescribeChain
    <3> QED BY <1>3, <3>1, <3>2
  <2> QED BY <2>1, <2>2
<1>9. FilesDescribeChain'
  BY <1>8 DEF FilesDescribeChain, Fits, FitsNext
<1>10. Shape'
  BY <1>1, <1>6, <1>7, AdvanceShape DEF IInv, Shape
<1>11. MemoryDescribesChain'
  BY <1>1, <1>3 DEF IInv, MemoryDescribesChain, env, Fits, FitsNext
<1> QED BY <1>3, <1>4, <1>9, <1>10, <1>11 DEF IInv

\* What the explorer shows is of no consequence to the files.
LEMMA VerifyKeeps == IInv /\ Verify => IInv'
<1> SUFFICES ASSUME IInv, Verify PROVE IInv'
  OBVIOUS
<1>1. Running("verify") /\ Advance /\ UNCHANGED <<network, chain, files, mem>>
  BY DEF Verify, disk
<1>2. Foundation' /\ LinksAreRight' /\ (\A a, is : Fits(a, is) => FitsNext(a, is))
      /\ \A a : HasCode(a) => HasCode(a)'
  BY <1>1, SameChain
<1>3. ConfigurationChecked'
  BY <1>1, <1>2, ChecksLast DEF IInv
<1>4. Shape'
  BY <1>1, AdvanceShape DEF IInv, Shape
<1>5. MemoryDescribesChain'
  BY <1>1, <1>2 DEF IInv, MemoryDescribesChain, env, Fits, FitsNext
<1>6. FilesDescribeChain'
  BY <1>1, <1>2 DEF IInv, FilesDescribeChain, Readable, Fits, FitsNext
<1> QED BY <1>2, <1>3, <1>4, <1>5, <1>6 DEF IInv

\* A process that ends, however it ends, leaves the chain and loses its
\* memory; a file is left as it was or cannot be read.
LEMMA EndKeeps ==
    ASSUME IInv, UNCHANGED <<network, chain, until>>, mem' = NoMemory,
           \/ UNCHANGED <<at, pc>>
           \/ at' \in 1 .. Len(Scripts) /\ pc' = 1,
           files' = [f \in Files |-> files'[f]],
           \A f \in Files : files'[f] = files[f] \/ ~Readable(f)'
    PROVE  IInv'
<1>1. Foundation' /\ LinksAreRight' /\ (\A a, is : Fits(a, is) => FitsNext(a, is))
      /\ \A a : HasCode(a) => HasCode(a)'
  BY SameChain
<1>2. /\ FilesDescribeChain'
      /\ \A f \in Files : Readable(f)' => files'[f] \in [DOMAIN Kind[f] -> Nat]
  BY <1>1, FilesStay
<1>3. /\ mem' = [p \in Places |-> mem'[p]]
      /\ \A p \in Places : mem'[p] \in [DOMAIN Kind[p] -> Nat]
      /\ MemoryDescribesChain'
  BY BlankMemory
<1>4. Shape'
  BY <1>2, <1>3 DEF IInv, Shape
<1>5. ConfigurationChecked'
  <2>1. CASE UNCHANGED <<at, pc>>
    BY <1>1, <2>1 DEF IInv, ConfigurationChecked, env
  <2>2. CASE pc' = 1
    BY <2>2 DEF ConfigurationChecked
  <2> QED BY <2>1, <2>2
<1> QED BY <1>1, <1>2, <1>3, <1>4, <1>5 DEF IInv

\* A script that is done, that throws, or that is killed.
LEMMA FinishKeeps == IInv /\ (Finish \/ Throw \/ Crash) => IInv'
<1>1. ASSUME IInv, Finish PROVE IInv'
  <2>1. UNCHANGED <<network, chain, until, files>> /\ mem' = NoMemory
    BY <1>1 DEF Finish, disk
  <2>2. \/ UNCHANGED <<at, pc>>
        \/ at' \in 1 .. Len(Scripts) /\ pc' = 1
    BY <1>1, ScriptsAssumption DEF Finish, IInv, Shape
  <2>3. files' = [f \in Files |-> files'[f]]
    BY <1>1, <2>1 DEF IInv, Shape
  <2> QED BY <1>1, <2>1, <2>2, <2>3, EndKeeps
<1>2. ASSUME IInv, Throw PROVE IInv'
  <2>1. UNCHANGED <<network, chain, until, files, at, pc>> /\ mem' = NoMemory
    BY <1>2 DEF Throw, disk
  <2>2. files' = [f \in Files |-> files'[f]]
    BY <1>2, <2>1 DEF IInv, Shape
  <2> QED BY <1>2, <2>1, <2>2, EndKeeps
<1>3. ASSUME IInv, Crash PROVE IInv'
  <2>1. UNCHANGED <<network, chain, until, at, pc>> /\ mem' = NoMemory
    BY <1>3 DEF Crash
  <2>2. files' = files \/ files' = [files EXCEPT ![step.file] = Torn]
    BY <1>3 DEF Crash
  <2>3. files' = [f \in Files |-> files'[f]]
        /\ \A f \in Files : files'[f] = files[f] \/ files'[f] = Torn
    BY <1>3, <2>2 DEF IInv, Shape
  <2>4. \A f \in Files : files'[f] = files[f] \/ ~Readable(f)'
    BY <2>3 DEF Readable
  <2> QED BY <1>3, <2>1, <2>3, <2>4, EndKeeps
<1> QED BY <1>1, <1>2, <1>3

\* A command that is started changes only where the next step is.
LEMMA BeginKeeps ==
    ASSUME IInv, NEW k \in 1 .. Len(Scripts), NEW last \in 1 .. Len(Scripts), Begin(k, last)
    PROVE  IInv'
<1>1. UNCHANGED <<network, chain, files, mem>> /\ at' = k /\ until' = last /\ pc' = 1
  BY DEF Begin, disk
<1>2. Foundation' /\ LinksAreRight' /\ (\A a, is : Fits(a, is) => FitsNext(a, is))
  BY <1>1, SameChain
<1>3. Shape'
  BY <1>1 DEF IInv, Shape, Readable
<1>4. MemoryDescribesChain'
  BY <1>1, <1>2 DEF IInv, MemoryDescribesChain, env, Fits, FitsNext
<1>5. ConfigurationChecked'
  BY <1>1 DEF ConfigurationChecked
<1>6. FilesDescribeChain'
  BY <1>1, <1>2 DEF IInv, FilesDescribeChain, Readable, Fits, FitsNext
<1> QED BY <1>2, <1>3, <1>4, <1>5, <1>6 DEF IInv

\* The operator resumes, repeats or starts a command, or removes a file.
LEMMA OperatorKeeps ==
    IInv /\ (\/ Resume \/ Rerun
             \/ \E c \in Commands : \E k \in c.first .. c.last : Start(c, k)
             \/ \E f \in Files : Clear(f)) => IInv'
<1>1. ASSUME IInv, Resume PROVE IInv'
  <2>1. ResumePoint \in 1 .. Len(Scripts) /\ until \in 1 .. Len(Scripts)
        /\ Begin(ResumePoint, until)
    BY <1>1, ScriptsAssumption DEF Resume, ResumePoint, IInv, Shape
  <2> HIDE DEF ResumePoint
  <2> QED BY <1>1, <2>1, BeginKeeps
<1>2. ASSUME IInv, Rerun PROVE IInv'
  <2>1. Verification.first \in 1 .. Len(Scripts) /\ Verification.last \in 1 .. Len(Scripts)
    BY ScriptsAssumption
  <2> QED BY <1>2, <2>1, BeginKeeps DEF Rerun
<1>3. ASSUME IInv, NEW c \in Commands, NEW k \in c.first .. c.last, Start(c, k) PROVE IInv'
  <2>1. k \in 1 .. Len(Scripts) /\ c.last \in 1 .. Len(Scripts)
    BY ScriptsAssumption
  <2> QED BY <1>3, <2>1, BeginKeeps DEF Start
<1>4. ASSUME IInv, NEW f \in Files, Clear(f) PROVE IInv'
  <2>1. UNCHANGED <<network, chain, mem, at, pc, until>>
        /\ files' = [files EXCEPT ![f] = Absent]
    BY <1>4 DEF Clear, process
  <2>2. /\ files' = [g \in Files |-> files'[g]]
        /\ \A g \in Files : files'[g] = files[g] \/ files'[g] = Absent
    BY <1>4, <2>1 DEF IInv, Shape
  <2>3. \A g \in Files : files'[g] = files[g] \/ ~Readable(g)'
    BY <2>2 DEF Readable
  <2>4. Foundation' /\ LinksAreRight' /\ (\A a, is : Fits(a, is) => FitsNext(a, is))
        /\ \A a : HasCode(a) => HasCode(a)'
    BY <1>4, <2>1, SameChain
  <2>5. /\ FilesDescribeChain'
        /\ \A g \in Files : Readable(g)' => files'[g] \in [DOMAIN Kind[g] -> Nat]
    BY <1>4, <2>2, <2>3, <2>4, FilesStay
  <2>6. Shape'
    BY <1>4, <2>1, <2>2, <2>5 DEF IInv, Shape
  <2>7. MemoryDescribesChain'
    BY <1>4, <2>1, <2>4 DEF IInv, MemoryDescribesChain, env, Fits, FitsNext
  <2>8. ConfigurationChecked'
    BY <1>4, <2>1, <2>4 DEF IInv, ConfigurationChecked, env
  <2> QED BY <2>4, <2>5, <2>6, <2>7, <2>8 DEF IInv
<1> QED BY <1>1, <1>2, <1>3, <1>4

\* Every step keeps the invariant.
LEMMA NextIInv == IInv /\ [Next]_vars => IInv'
<1> SUFFICES ASSUME IInv, [Next]_vars PROVE IInv'
  OBVIOUS
<1>1. CASE UNCHANGED vars
  <2>1. UNCHANGED <<network, chain, files, mem, at, pc, until>>
    BY <1>1 DEF vars, disk, process
  <2>2. Shape' /\ Foundation'
    BY <2>1 DEF IInv, Shape, Foundation, Readable
  <2>3. MemoryDescribesChain' /\ ConfigurationChecked'
    BY <2>1 DEF IInv, MemoryDescribesChain, ConfigurationChecked, Fits, HasCode, env
  <2>4. FilesDescribeChain' /\ LinksAreRight'
    BY <2>1 DEF IInv, FilesDescribeChain, LinksAreRight, Readable, Fits
  <2> QED BY <2>2, <2>3, <2>4 DEF IInv
<1>2. CASE Next
  BY <1>2, CheckStepKeeps, LoadKeeps, DeployKeeps, PutKeeps, SaveKeeps, VerifyKeeps,
     FinishKeeps, OperatorKeeps DEF Next, ScriptStep
<1> QED BY <1>1, <1>2

\* However often the scripts are interrupted and wherever they are picked up
\* again, a file names only contracts that are on the chain and that are
\* what the entry says.
THEOREM FilesDescribeChainHolds == Spec => []FilesDescribeChain
<1>1. IInv => FilesDescribeChain
  BY DEF IInv
<1> QED BY <1>1, InitIInv, NextIInv, PTL DEF Spec

\* No contract the scripts deploy is linked to, or constructed over, an
\* address that is not that of an earlier contract of the right kind.
THEOREM LinksAreRightHolds == Spec => []LinksAreRight
<1>1. IInv => LinksAreRight
  BY DEF IInv
<1> QED BY <1>1, InitIInv, NextIInv, PTL DEF Spec

(***************************************************************************)
(* What the scripts have done so far, entry by entry.                      *)
(***************************************************************************)
At(m, e)     == m[e[1]][e[2]]
MemEntry(e)  == e = <<e[1], e[2]>> /\ IsEntry(e[1], e[2])
FileEntry(e) == MemEntry(e) /\ e[1] \in Files

\* The contract at the target of a link is linked to what is at its origin.
Linked(m, c, n, i, r) ==
    /\ At(m, Target(n, i)) \in DOMAIN c
    /\ c[At(m, Target(n, i))].uses[r] = At(m, Origin(n, i, r))

\* What the step at pc does to an entry of memory, and to one of a file.
MemEffect(e) ==
    /\ ~Writes(at, pc, e) /\ ~Loads(at, pc, e[1]) => At(mem', e) = At(mem, e)
    /\ Loads(at, pc, e[1]) => Readable(e[1]) /\ At(mem', e) = At(files, e)
    /\ Writes(at, pc, e) =>
          At(mem', e) = IF step.op = "deploy" THEN Len(chain) + 1 ELSE Value(step.src)
FileEffect(f) ==
    files'[f] = IF Saves(at, pc, f) THEN mem[f] ELSE files[f]
Effect ==
    /\ exit = "running" /\ Advance /\ network' = network
    /\ at \in 1 .. Len(Scripts) /\ pc \in 1 .. Len(Scripts[at]) /\ step = Scripts[at][pc]
    /\ Passes(step)
    /\ \A a \in DOMAIN chain : a \in DOMAIN chain' /\ chain'[a] = chain[a]
    /\ \A e : MemEntry(e) => MemEffect(e)
    /\ \A f \in Files : FileEffect(f)
    /\ \A r : IsLink(at, pc, r) => Linked(mem', chain', at, pc, r)

RunStep == CheckStep \/ Load \/ Deploy \/ Put \/ Save \/ Verify

\* The two ends of a link.
LEMMA LinkEnds ==
    ASSUME NEW n \in 1 .. Len(Scripts), NEW i \in 1 .. Len(Scripts[n]), NEW r, IsLink(n, i, r)
    PROVE  /\ FileEntry(Target(n, i)) /\ FileEntry(Origin(n, i, r))
           /\ Target(n, i) # Origin(n, i, r)
           /\ Left(n, i, Target(n, i)) /\ Left(n, i, Origin(n, i, r))
           /\ Writes(n, i, Target(n, i))
           /\ Scripts[n][i].op = "deploy" /\ Scripts[n][i].uses[r].role = ""
<1> DEFINE s == Scripts[n][i]
<1>1. s.op = "deploy" /\ s.file \in Files /\ r \in DOMAIN s.uses /\ s.uses[r].place \in Files
  BY DEF IsLink
<1>2. /\ IsEntry(s.file, s.key)
      /\ IsEntry(s.uses[r].place, s.uses[r].key) /\ s.uses[r].role = ""
  BY <1>1, ScriptsAssumption DEF StepOK
<1>3. /\ Target(n, i) # Origin(n, i, r)
      /\ Left(n, i, Target(n, i)) /\ Left(n, i, Origin(n, i, r))
  BY <1>1, OrderAssumption
<1>4. FileEntry(Target(n, i)) /\ FileEntry(Origin(n, i, r))
  BY <1>1, <1>2 DEF Target, Origin, FileEntry, MemEntry
<1>5. Writes(n, i, Target(n, i))
  BY <1>1 DEF Writes, Target
<1> QED BY <1>1, <1>2, <1>3, <1>4, <1>5

\* What a step that stores an address in memory does to the entries.
LEMMA StoreEntry ==
    ASSUME Shape, NEW p, NEW k, IsEntry(p, k), NEW a, mem' = [mem EXCEPT ![p][k] = a],
           NEW e, MemEntry(e)
    PROVE  At(mem', e) = IF e = <<p, k>> THEN a ELSE At(mem, e)
<1>1. /\ mem = [q \in Places |-> mem[q]]
      /\ \A q \in Places : mem[q] \in [DOMAIN Kind[q] -> Nat]
  BY DEF Shape
<1>2. p \in Places /\ k \in DOMAIN Kind[p]
      /\ e[1] \in Places /\ e[2] \in DOMAIN Kind[e[1]] /\ e = <<e[1], e[2]>>
  BY DEF IsEntry, MemEntry
<1>3. mem'[p] = [mem[p] EXCEPT ![k] = a] /\ \A q \in Places \ {p} : mem'[q] = mem[q]
  BY <1>1, <1>2
<1>4. CASE e[1] = p /\ e[2] = k
  BY <1>1, <1>2, <1>3, <1>4 DEF At
<1>5. CASE ~(e[1] = p /\ e[2] = k)
  <2>1. e # <<p, k>>
    BY <1>2, <1>5
  <2>2. At(mem', e) = At(mem, e)
    BY <1>1, <1>2, <1>3, <1>5 DEF At
  <2> QED BY <2>1, <2>2
<1> QED BY <1>2, <1>4, <1>5

\* A step at pc, and what it does not do.
LEMMA StepAtPc ==
    ASSUME IInv, NEW op, Running(op), Advance
    PROVE  /\ exit = "running" /\ at \in 1 .. Len(Scripts)
           /\ pc \in 1 .. Len(Scripts[at]) /\ step = Scripts[at][pc]
           /\ Passes(step) /\ StepOK(at, pc) /\ step.op = op
           /\ \A e : Writes(at, pc, e) <=> op \in {"deploy", "put"} /\ <<step.file, step.key>> = e
           /\ \A f : Loads(at, pc, f) <=> op = "load" /\ step.file = f
           /\ \A f : Saves(at, pc, f) <=> op = "save" /\ step.file = f
           /\ \A r : IsLink(at, pc, r) => op = "deploy"
<1>1. StepOK(at, pc) /\ step = Scripts[at][pc] /\ step.op = op /\ Passes(step)
  BY StepIsOK DEF IInv
<1>2. at \in 1 .. Len(Scripts) /\ pc \in Nat \ {0} /\ pc <= Len(Scripts[at]) /\ exit = "running"
  BY DEF IInv, Shape, Running
<1>3. pc \in 1 .. Len(Scripts[at])
  BY <1>2, ScriptsAssumption
<1> QED BY <1>1, <1>2, <1>3 DEF Writes, Loads, Saves, IsLink

\* Every step of a running script has its effect.
LEMMA StepEffect == IInv /\ RunStep => Effect
<1> SUFFICES ASSUME IInv, RunStep PROVE Effect
  OBVIOUS
<1>0. Shape /\ Files \subseteq Places \ {"env"} /\ files = [f \in Files |-> files[f]]
  BY EntriesAssumption DEF IInv, Shape
<1>1. ASSUME NEW op, op \in {"config", "public", "absent", "exists", "check", "verify"},
             Running(op), Advance, UNCHANGED <<network, chain, files, mem>>
      PROVE  Effect
  <2>1. ASSUME NEW e, MemEntry(e) PROVE MemEffect(e)
    BY <1>1, StepAtPc DEF MemEffect
  <2>2. ASSUME NEW f \in Files PROVE FileEffect(f)
    BY <1>1, StepAtPc DEF FileEffect
  <2> QED BY <1>1, <2>1, <2>2, StepAtPc DEF Effect
<1>2. CASE CheckStep
  BY <1>1, <1>2 DEF CheckStep, disk
<1>3. CASE Verify
  BY <1>1, <1>3 DEF Verify, disk
<1>4. CASE Load
  <2>1. Running("load") /\ Advance /\ UNCHANGED <<network, chain, files>>
        /\ mem' = [mem EXCEPT ![step.file] = files[step.file]]
    BY <1>4 DEF Load, disk
  <2>2. step.file \in Files /\ Readable(step.file)
    BY <2>1, StepAtPc DEF StepOK, Passes
  <2>3. \A q \in Places : mem'[q] = IF q = step.file THEN files[step.file] ELSE mem[q]
    BY <1>0, <2>1, <2>2 DEF Shape
  <2>4. ASSUME NEW e, MemEntry(e) PROVE MemEffect(e)
    <3>1. e[1] \in Places
      BY <2>4 DEF MemEntry, IsEntry
    <3> QED BY <2>1, <2>2, <2>3, <3>1, StepAtPc DEF MemEffect, At
  <2>5. ASSUME NEW f \in Files PROVE FileEffect(f)
    BY <2>1, StepAtPc DEF FileEffect
  <2> QED BY <2>1, <2>4, <2>5, StepAtPc DEF Effect
<1>5. CASE Save
  <2>1. Running("save") /\ Advance /\ UNCHANGED <<network, chain, mem>>
        /\ files' = [files EXCEPT ![step.file] = mem[step.file]]
    BY <1>5 DEF Save
  <2>2. step.file \in Files
    BY <2>1, StepAtPc DEF StepOK
  <2>3. ASSUME NEW e, MemEntry(e) PROVE MemEffect(e)
    BY <2>1, StepAtPc DEF MemEffect
  <2>4. ASSUME NEW f \in Files PROVE FileEffect(f)
    <3>1. files'[f] = IF f = step.file THEN mem[step.file] ELSE files[f]
      BY <1>0, <2>1, <2>2
    <3> QED BY <2>1, <3>1, StepAtPc DEF FileEffect
  <2> QED BY <2>1, <2>3, <2>4, StepAtPc DEF Effect
<1>6. CASE Put
  <2>1. Running("put") /\ Advance /\ UNCHANGED <<network, chain, files>>
        /\ mem' = [mem EXCEPT ![step.file][step.key] = Value(step.src)]
    BY <1>6 DEF Put, disk
  <2>2. IsEntry(step.file, step.key)
    BY <2>1, StepAtPc DEF StepOK
  <2>3. ASSUME NEW e, MemEntry(e) PROVE MemEffect(e)
    <3>1. At(mem', e) = IF e = <<step.file, step.key>> THEN Value(step.src) ELSE At(mem, e)
      BY <1>0, <2>1, <2>2, <2>3, StoreEntry
    <3> QED BY <2>1, <3>1, StepAtPc DEF MemEffect
  <2>4. ASSUME NEW f \in Files PROVE FileEffect(f)
    BY <2>1, StepAtPc DEF FileEffect
  <2> QED BY <2>1, <2>3, <2>4, StepAtPc DEF Effect
<1>7. CASE Deploy
  <2> DEFINE c == Deployed(step)
             new == Len(chain) + 1
  <2>1. Running("deploy") /\ Advance /\ UNCHANGED <<network, files>>
        /\ chain' = Append(chain, c)
        /\ mem' = [mem EXCEPT ![step.file][step.key] = new]
    BY <1>7 DEF Deploy
  <2>2. IsEntry(step.file, step.key)
    BY <2>1, StepAtPc DEF StepOK
  <2>3. ASSUME NEW e, MemEntry(e)
        PROVE  /\ At(mem', e) = IF e = <<step.file, step.key>> THEN new ELSE At(mem, e)
               /\ MemEffect(e)
    <3>1. At(mem', e) = IF e = <<step.file, step.key>> THEN new ELSE At(mem, e)
      <4> HIDE DEF new
      <4> QED BY <1>0, <2>1, <2>2, <2>3, StoreEntry
    <3>2. MemEffect(e)
      BY <2>1, <3>1, StepAtPc DEF MemEffect
    <3> QED BY <3>1, <3>2
  <2>4. ASSUME NEW f \in Files PROVE FileEffect(f)
    BY <2>1, StepAtPc DEF FileEffect
  <2>5. /\ \A a \in DOMAIN chain : a \in DOMAIN chain' /\ chain'[a] = chain[a]
        /\ new \in DOMAIN chain' /\ chain'[new] = c
    <3>1. chain \in Seq(Contract) /\ chain' \in Seq(Contract)
      BY DeployKeeps, <1>7 DEF IInv, Shape
    <3>2. /\ DOMAIN chain = 1 .. Len(chain) /\ Len(chain) \in Nat
          /\ DOMAIN chain' = 1 .. Len(chain')
      BY <3>1
    <3>3. Len(chain') = Len(chain) + 1 /\ \A a \in DOMAIN chain : chain'[a] = chain[a]
      <4> HIDE DEF c
      <4> QED BY <2>1, <3>1
    <3>4. chain'[new] = c
      <4> HIDE DEF c
      <4> QED BY <2>1, <3>1
    <3> HIDE DEF c
    <3> QED BY <3>2, <3>3, <3>4
  <2>6. ASSUME NEW r, IsLink(at, pc, r)
        PROVE  Linked(mem', chain', at, pc, r)
    <3>1. /\ MemEntry(Target(at, pc)) /\ MemEntry(Origin(at, pc, r))
          /\ Target(at, pc) # Origin(at, pc, r) /\ Scripts[at][pc].uses[r].role = ""
      BY <2>1, <2>6, StepAtPc, LinkEnds DEF FileEntry
    <3>2. step = Scripts[at][pc] /\ Target(at, pc) = <<step.file, step.key>>
          /\ Origin(at, pc, r) = <<step.uses[r].place, step.uses[r].key>>
      BY <2>1, StepAtPc DEF Target, Origin
    <3>3. At(mem', Target(at, pc)) = new /\ At(mem', Origin(at, pc, r)) = At(mem, Origin(at, pc, r))
      <4> HIDE DEF new
      <4> QED BY <2>3, <3>1, <3>2
    <3>4. c.uses[r] = Value(step.uses[r])
      BY <2>6, <3>2 DEF Deployed, IsLink
    <3>5. Value(step.uses[r]) = At(mem, Origin(at, pc, r))
      <4> DEFINE ref == step.uses[r]
                 o   == Origin(at, pc, r)
      <4>1. ref.role = "" /\ o = <<ref.place, ref.key>>
        BY <3>1, <3>2
      <4> HIDE DEF ref, o
      <4>2. o[1] = ref.place /\ o[2] = ref.key
        BY <4>1
      <4>3. Value(ref) = At(mem, o)
        BY <4>1, <4>2 DEF Value, At
      <4> QED BY <4>3 DEF ref, o
    <3> HIDE DEF c, new
    <3> QED BY <2>5, <3>3, <3>4, <3>5 DEF Linked
  <2> QED BY <2>1, <2>3, <2>4, <2>5, <2>6, StepAtPc DEF Effect
<1> QED BY <1>2, <1>3, <1>4, <1>5, <1>6, <1>7 DEF RunStep

(***************************************************************************)
(* What is finished hangs together.  The invariant follows the entries of  *)
(* the running script: memory is in step with a file it has read or        *)
(* written, and the links made so far hold in memory; those of the scripts *)
(* that ended hold on file.                                                *)
(***************************************************************************)
MemoryInStep ==
    \A e : FileEntry(e) /\ InStep(at, pc - 1, e) => At(mem, e) = At(files, e)
LinksInMemory ==
    \A i \in 1 .. pc - 1 : \A r : IsLink(at, i, r) => Linked(mem, chain, at, i, r)
LinksOnFile(last) ==
    \A n \in from .. last : \A i \in 1 .. Len(Scripts[n]) : \A r :
        IsLink(n, i, r) => Linked(files, chain, n, i, r)
OrderKept ==
    /\ from \in Nat \ {0} /\ pc <= Len(Scripts[at]) + 1
    /\ IF exit = "running"
       THEN MemoryInStep /\ LinksInMemory /\ LinksOnFile(at - 1)
       ELSE FinishedIsCoherent

\* An entry that was in step before a step stays so, unless the step stores something else.
LEMMA InStepStays ==
    ASSUME IInv, MemoryInStep, Effect, Shape'
    PROVE  MemoryInStep'
<1> SUFFICES ASSUME NEW e, FileEntry(e), InStep(at, pc, e)
             PROVE  At(mem', e) = At(files', e)
  <2>1. at' = at /\ pc' - 1 = pc
    BY DEF Effect, Advance
  <2> QED BY <2>1 DEF MemoryInStep, FileEntry, MemEntry, IsEntry, InStep, Writes, Loads, Saves
<1>1. /\ at \in 1 .. Len(Scripts) /\ pc \in 1 .. Len(Scripts[at]) /\ pc \in Nat
      /\ MemEffect(e) /\ FileEffect(e[1])
  BY DEF Effect, FileEntry
<1>2. PICK j \in 1 .. pc : /\ Loads(at, j, e[1]) \/ Saves(at, j, e[1])
                           /\ \A l \in j + 1 .. pc : ~Writes(at, l, e)
  BY DEF InStep
<1>3. CASE Loads(at, pc, e[1])
  <2>1. At(mem', e) = At(files, e) /\ ~Saves(at, pc, e[1])
    BY <1>1, <1>3 DEF MemEffect, Loads, Saves
  <2> QED BY <1>1, <2>1 DEF FileEffect, At
<1>4. CASE Saves(at, pc, e[1])
  <2>1. At(mem', e) = At(mem, e)
    BY <1>1, <1>4 DEF MemEffect, Loads, Saves, Writes
  <2> QED BY <1>1, <1>4, <2>1 DEF FileEffect, At
<1>5. CASE ~Loads(at, pc, e[1]) /\ ~Saves(at, pc, e[1])
  <2>1. j \in 1 .. pc - 1 /\ ~Writes(at, pc, e)
    BY <1>1, <1>2, <1>5
  <2>2. InStep(at, pc - 1, e)
    BY <1>1, <1>2, <2>1 DEF InStep
  <2>3. At(mem, e) = At(files, e)
    BY <2>2 DEF MemoryInStep
  <2> QED BY <1>1, <1>5, <2>1, <2>3 DEF MemEffect, FileEffect, At
<1> QED BY <1>3, <1>4, <1>5

\* The links the script made stay as they are in memory, and the step may add its own.
LEMMA MemoryLinksStay ==
    ASSUME IInv, LinksInMemory, Effect
    PROVE  LinksInMemory'
<1>0. /\ at' = at /\ pc' = pc + 1 /\ at \in 1 .. Len(Scripts) /\ pc \in 1 .. Len(Scripts[at])
  BY DEF Effect, Advance
<1>1. ASSUME NEW i \in 1 .. pc, NEW r, IsLink(at, i, r)
      PROVE  Linked(mem', chain', at, i, r)
  <2>1. CASE i = pc
    BY <1>1, <2>1 DEF Effect
  <2>2. CASE i # pc
    <3>1. i \in 1 .. pc - 1 /\ i \in 1 .. Len(Scripts[at]) /\ pc \in i + 1 .. Len(Scripts[at])
      BY <1>0, <2>2
    <3>2. Linked(mem, chain, at, i, r)
      BY <1>1, <3>1 DEF LinksInMemory
    <3>3. /\ FileEntry(Target(at, i)) /\ FileEntry(Origin(at, i, r))
          /\ Left(at, i, Target(at, i)) /\ Left(at, i, Origin(at, i, r))
      BY <1>0, <1>1, <3>1, LinkEnds
    <3>4. ASSUME NEW e, FileEntry(e), Left(at, i, e)
          PROVE  At(mem', e) = At(mem, e)
      <4>1. ~Writes(at, pc, e) /\ ~Loads(at, pc, e[1])
        BY <3>1, <3>4 DEF Left
      <4> QED BY <3>4, <4>1 DEF Effect, MemEffect, FileEntry
    <3> QED BY <3>2, <3>3, <3>4 DEF Linked, Effect
  <2> QED BY <2>1, <2>2
<1>2. pc' - 1 = pc
  BY <1>0
<1>3. \A i \in 1 .. pc' - 1 : \A r : IsLink(at', i, r) => Linked(mem', chain', at', i, r)
  BY <1>0, <1>1, <1>2
<1> QED BY <1>3 DEF LinksInMemory, Linked, IsLink, At, Target, Origin

\* A file that an earlier script left is rewritten with the entries it had.
LEMMA FileLinksStay ==
    ASSUME IInv, MemoryInStep, from \in Nat \ {0}, LinksOnFile(at - 1), Effect
    PROVE  LinksOnFile(at - 1)'
<1>0. /\ at' = at /\ from' = from /\ at \in 1 .. Len(Scripts) /\ pc \in 1 .. Len(Scripts[at])
      /\ Len(Scripts) \in Nat
  BY ScriptsAssumption DEF Effect, Advance
<1>1. ASSUME NEW n \in from .. at - 1, NEW i \in 1 .. Len(Scripts[n]), NEW r, IsLink(n, i, r)
      PROVE  Linked(files', chain', n, i, r)
  <2>1. n \in 1 .. Len(Scripts) /\ at \in n + 1 .. Len(Scripts)
    BY <1>0
  <2>2. /\ FileEntry(Target(n, i)) /\ FileEntry(Origin(n, i, r))
        /\ Left(n, i, Target(n, i)) /\ Left(n, i, Origin(n, i, r))
    BY <1>1, <2>1, LinkEnds
  <2>3. ASSUME NEW e, FileEntry(e), Left(n, i, e)
        PROVE  At(files', e) = At(files, e)
    <3>1. FileEffect(e[1])
      BY <2>3 DEF Effect, FileEntry
    <3>2. CASE ~Saves(at, pc, e[1])
      BY <3>1, <3>2 DEF FileEffect, At
    <3>3. CASE Saves(at, pc, e[1])
      <4>1. \A j \in 1 .. Len(Scripts[at]) : ~Writes(at, j, e)
        BY <2>1, <2>3 DEF Left
      <4>2. PICK l \in 1 .. pc - 1 : Loads(at, l, e[1])
        BY <1>0, <2>1, <2>3, <3>3 DEF Left
      <4>3. \A j \in l + 1 .. pc - 1 : j \in 1 .. Len(Scripts[at])
        BY <1>0, ScriptsAssumption
      <4>4. InStep(at, pc - 1, e)
        BY <4>1, <4>2, <4>3 DEF InStep
      <4>5. At(mem, e) = At(files, e)
        BY <2>3, <4>4 DEF MemoryInStep
      <4> QED BY <3>1, <3>3, <4>5 DEF FileEffect, At
    <3> QED BY <3>2, <3>3
  <2>4. Linked(files, chain, n, i, r)
    BY <1>1 DEF LinksOnFile
  <2> QED BY <2>2, <2>3, <2>4 DEF Linked, Effect
<1> QED BY <1>0, <1>1 DEF LinksOnFile, IsLink, Linked, At, Target, Origin

\* What the scripts of the command up to the last one recorded hangs together.
CoherentUpTo(last) ==
    \A n \in from .. last : \A i \in DOMAIN Scripts[n] :
        LET s == Scripts[n][i] IN
        s.op = "deploy" /\ s.file \in Files /\ Readable(s.file) =>
            \A r \in DOMAIN s.uses :
                LET ref == s.uses[r] IN
                ref.place \in Files /\ Readable(ref.place) =>
                    chain[files[s.file][s.key]].uses[r] = files[ref.place][ref.key]

\* What holds on file makes what is finished coherent.
LEMMA LinksCohere ==
    ASSUME from \in Nat \ {0}, NEW last \in Nat, last <= Len(Scripts), LinksOnFile(last)
    PROVE  CoherentUpTo(last)
<1> SUFFICES ASSUME NEW n \in from .. last, NEW i \in DOMAIN Scripts[n],
                    Scripts[n][i].op = "deploy", Scripts[n][i].file \in Files,
                    NEW r \in DOMAIN Scripts[n][i].uses, Scripts[n][i].uses[r].place \in Files
             PROVE  chain[files[Scripts[n][i].file][Scripts[n][i].key]].uses[r]
                        = files[Scripts[n][i].uses[r].place][Scripts[n][i].uses[r].key]
  BY DEF CoherentUpTo
<1>1. n \in 1 .. Len(Scripts) /\ i \in 1 .. Len(Scripts[n])
  BY ScriptsAssumption
<1>2. Linked(files, chain, n, i, r)
  BY <1>1 DEF LinksOnFile, IsLink
<1> QED BY <1>2 DEF Linked, At, Target, Origin

\* It stays so while no file is written, except to remove or to tear it.
LEMMA CoherenceStays ==
    ASSUME NEW last, CoherentUpTo(last), last = IF exit' = "done" THEN at' ELSE at' - 1,
           from' = from, chain' = chain,
           \A f \in Files : Readable(f)' => Readable(f) /\ files'[f] = files[f]
    PROVE  FinishedIsCoherent'
<1>1. Finished' = from .. last
  BY DEF Finished
<1> SUFFICES ASSUME NEW n \in from .. last, NEW i \in DOMAIN Scripts[n],
                    Scripts[n][i].op = "deploy", Scripts[n][i].file \in Files,
                    Readable(Scripts[n][i].file)',
                    NEW r \in DOMAIN Scripts[n][i].uses, Scripts[n][i].uses[r].place \in Files,
                    Readable(Scripts[n][i].uses[r].place)'
             PROVE  chain'[files'[Scripts[n][i].file][Scripts[n][i].key]].uses[r]
                        = files'[Scripts[n][i].uses[r].place][Scripts[n][i].uses[r].key]
  BY <1>1, ZenonT(60) DEF FinishedIsCoherent, Readable
<1> DEFINE s == Scripts[n][i]
<1>2. /\ Readable(s.file) /\ files'[s.file] = files[s.file]
      /\ Readable(s.uses[r].place) /\ files'[s.uses[r].place] = files[s.uses[r].place]
  BY DEF Readable
<1>3. chain[files[s.file][s.key]].uses[r] = files[s.uses[r].place][s.uses[r].key]
  BY <1>2 DEF CoherentUpTo
<1> QED BY <1>2, <1>3

\* The invariant holds when the first command is started.
LEMMA InitOrder == Init => OrderKept
<1> SUFFICES ASSUME Init PROVE OrderKept
  OBVIOUS
<1>1. /\ from \in Nat \ {0} /\ at = from /\ pc = 1 /\ exit = "running"
      /\ Len(Scripts[at]) \in Nat
  <2>1. FirstCommand.first \in 1 .. Len(Scripts)
    BY ScriptsAssumption
  <2> QED BY <2>1, ScriptsAssumption DEF Init
<1>2. MemoryInStep /\ LinksInMemory
  BY <1>1 DEF MemoryInStep, LinksInMemory, InStep
<1>3. LinksOnFile(at - 1)
  BY <1>1 DEF LinksOnFile
<1> QED BY <1>1, <1>2, <1>3 DEF OrderKept

\* A step of the running script keeps it.
LEMMA RunOrder == IInv /\ OrderKept /\ RunStep => OrderKept'
<1> SUFFICES ASSUME IInv, OrderKept, RunStep PROVE OrderKept'
  OBVIOUS
<1>1. Effect /\ IInv'
  <2>1. Next
    BY DEF RunStep, Next, ScriptStep
  <2> QED BY <2>1, StepEffect, NextIInv
<1>2. /\ from' = from /\ at' = at /\ pc' = pc + 1 /\ exit = "running" /\ exit' = "running"
      /\ pc \in 1 .. Len(Scripts[at]) /\ from \in Nat \ {0}
  BY <1>1 DEF Effect, Advance, OrderKept
<1>3. MemoryInStep /\ LinksInMemory /\ LinksOnFile(at - 1)
  BY <1>2 DEF OrderKept
<1>4. MemoryInStep'
  BY <1>1, <1>3, InStepStays DEF IInv
<1>5. LinksInMemory'
  BY <1>1, <1>3, MemoryLinksStay
<1>6. LinksOnFile(at - 1)'
  BY <1>1, <1>2, <1>3, FileLinksStay
<1>7. from' \in Nat \ {0} /\ pc' <= Len(Scripts[at']) + 1
  BY <1>2
<1> QED BY <1>2, <1>4, <1>5, <1>6, <1>7 DEF OrderKept

\* A script that ends leaves its links on file.
LEMMA EndOrder == IInv /\ OrderKept /\ Finish => OrderKept'
<1> SUFFICES ASSUME IInv, OrderKept, Finish PROVE OrderKept'
  OBVIOUS
<1>1. /\ at \in 1 .. Len(Scripts) /\ Len(Scripts[at]) \in Nat /\ Len(Scripts) \in Nat
      /\ pc \in Nat \ {0} /\ pc > Len(Scripts[at]) /\ exit = "running"
      /\ from' = from /\ chain' = chain /\ files' = files
  BY ScriptsAssumption DEF IInv, Shape, Finish, disk
<1>2. /\ pc - 1 = Len(Scripts[at]) /\ from \in Nat \ {0}
      /\ MemoryInStep /\ LinksInMemory /\ LinksOnFile(at - 1)
  BY <1>1 DEF OrderKept
<1>3. LinksOnFile(at)
  <2> SUFFICES ASSUME NEW n \in from .. at, NEW i \in 1 .. Len(Scripts[n]), NEW r,
                      IsLink(n, i, r)
               PROVE  Linked(files, chain, n, i, r)
    BY DEF LinksOnFile
  <2>1. CASE n = at
    <3>1. /\ FileEntry(Target(n, i)) /\ FileEntry(Origin(n, i, r))
          /\ Left(n, i, Target(n, i)) /\ Left(n, i, Origin(n, i, r))
      BY <1>1, <2>1, LinkEnds
    <3>2. ASSUME NEW e, FileEntry(e), Left(at, i, e) PROVE At(mem, e) = At(files, e)
      BY <1>2, <3>2 DEF MemoryInStep, Left
    <3>3. Linked(mem, chain, n, i, r)
      BY <1>2, <2>1 DEF LinksInMemory
    <3> QED BY <2>1, <3>1, <3>2, <3>3 DEF Linked
  <2>2. CASE n # at
    BY <1>1, <1>2, <2>2 DEF LinksOnFile
  <2> QED BY <2>1, <2>2
<1>4. CASE at < until
  <2>1. at' = at + 1 /\ pc' = 1 /\ exit' = "running"
    BY <1>1, <1>4 DEF Finish
  <2>2. at' \in 1 .. Len(Scripts) /\ Len(Scripts[at']) \in Nat
    BY <1>1, <1>4, <2>1, ScriptsAssumption DEF IInv, Shape
  <2>3. MemoryInStep' /\ LinksInMemory'
    BY <2>1 DEF MemoryInStep, LinksInMemory, InStep
  <2>4. \A n \in from' .. at' - 1 : \A i \in 1 .. Len(Scripts[n]) : \A r :
            IsLink(n, i, r) => Linked(files', chain', n, i, r)
    BY <1>1, <1>3, <2>1 DEF LinksOnFile
  <2>5. LinksOnFile(at - 1)'
    BY <2>4 DEF LinksOnFile, Linked, At, IsLink, Target, Origin
  <2> QED BY <1>1, <1>2, <2>1, <2>2, <2>3, <2>5 DEF OrderKept
<1>5. CASE ~(at < until)
  <2>1. exit' = "done" /\ at' = at /\ pc' = pc
    BY <1>5 DEF Finish
  <2>2. CoherentUpTo(at)
    BY <1>1, <1>2, <1>3, LinksCohere
  <2>3. FinishedIsCoherent'
    BY <1>1, <2>1, <2>2, CoherenceStays DEF Readable
  <2> QED BY <1>1, <1>2, <2>1, <2>3 DEF OrderKept
<1> QED BY <1>4, <1>5

\* A script that fails or is killed leaves what the earlier ones recorded.
LEMMA StopOrder == IInv /\ OrderKept /\ (Throw \/ Crash) => OrderKept'
<1> SUFFICES ASSUME IInv, OrderKept, Throw \/ Crash PROVE OrderKept'
  OBVIOUS
<1>1. /\ at \in 1 .. Len(Scripts) /\ Len(Scripts) \in Nat /\ exit = "running"
      /\ exit' \in {"threw", "crashed"}
      /\ from' = from /\ at' = at /\ pc' = pc /\ chain' = chain
  BY ScriptsAssumption DEF IInv, Shape, Throw, Crash, disk
<1>2. \A f \in Files : Readable(f)' => Readable(f) /\ files'[f] = files[f]
  <2>1. CASE files' = files
    BY <2>1 DEF Readable
  <2>2. CASE files' = [files EXCEPT ![step.file] = Torn]
    <3>1. files = [f \in Files |-> files[f]]
      BY DEF IInv, Shape
    <3>2. \A f \in Files : files'[f] = IF f = step.file THEN Torn ELSE files[f]
      BY <2>2, <3>1
    <3> QED BY <3>2 DEF Readable
  <2> QED BY <2>1, <2>2 DEF Throw, Crash, disk
<1>3. from \in Nat \ {0} /\ pc <= Len(Scripts[at]) + 1 /\ LinksOnFile(at - 1)
  BY <1>1 DEF OrderKept
<1>4. CoherentUpTo(at - 1)
  BY <1>1, <1>3, LinksCohere
<1>5. FinishedIsCoherent'
  BY <1>1, <1>2, <1>4, CoherenceStays
<1> QED BY <1>1, <1>3, <1>5 DEF OrderKept

\* Where the operator starts, nothing is done yet.
LEMMA BeginOrder ==
    ASSUME IInv', NEW k \in Nat \ {0}, NEW last, Begin(k, last)
    PROVE  OrderKept'
<1>1. from' = k /\ at' = k /\ pc' = 1 /\ exit' = "running" /\ Len(Scripts[at']) \in Nat
  BY ScriptsAssumption DEF Begin, IInv, Shape
<1>2. MemoryInStep' /\ LinksInMemory'
  BY <1>1 DEF MemoryInStep, LinksInMemory, InStep
<1>3. LinksOnFile(at - 1)'
  BY <1>1 DEF LinksOnFile
<1> QED BY <1>1, <1>2, <1>3 DEF OrderKept

\* What the operator does between two commands keeps it, too.
LEMMA OperatorOrder ==
    IInv /\ IInv' /\ OrderKept /\
    (Resume \/ Rerun \/ (\E c \in Commands : \E k \in c.first .. c.last : Start(c, k))
            \/ (\E f \in Files : Clear(f)))
        => OrderKept'
<1> SUFFICES ASSUME IInv, IInv', OrderKept PROVE
      (Resume \/ Rerun \/ (\E c \in Commands : \E k \in c.first .. c.last : Start(c, k))
              \/ (\E f \in Files : Clear(f)))  => OrderKept'
  OBVIOUS
<1>1. CASE Resume
  <2>1. ResumePoint \in Nat \ {0} /\ Begin(ResumePoint, until)
    BY <1>1 DEF Resume, ResumePoint, IInv, Shape
  <2> QED BY <2>1, BeginOrder
<1>2. CASE Rerun
  <2>1. Verification.first \in Nat \ {0} /\ Begin(Verification.first, Verification.last)
    BY <1>2, ScriptsAssumption DEF Rerun
  <2> QED BY <2>1, BeginOrder
<1>3. CASE \E c \in Commands : \E k \in c.first .. c.last : Start(c, k)
  <2>1. PICK c \in Commands : \E k \in c.first .. c.last : Start(c, k)
    BY <1>3
  <2>2. PICK k \in c.first .. c.last : Start(c, k)
    BY <2>1
  <2>3. k \in Nat \ {0} /\ Begin(k, c.last)
    BY <2>2, ScriptsAssumption DEF Start
  <2> QED BY <2>3, BeginOrder
<1>4. ASSUME NEW f \in Files, Clear(f) PROVE OrderKept'
  <2>1. /\ exit # "running" /\ chain' = chain /\ UNCHANGED <<at, pc, from, exit>>
        /\ files' = [files EXCEPT ![f] = Absent]
    BY <1>4 DEF Clear, process
  <2>2. \A g \in Files : files'[g] = IF g = f THEN Absent ELSE files[g]
    BY <2>1 DEF IInv, Shape
  <2>3. \A g \in Files : Readable(g)' => Readable(g) /\ files'[g] = files[g]
    BY <2>2 DEF Readable
  <2>4. CoherentUpTo(IF exit' = "done" THEN at' ELSE at' - 1)
    BY <2>1 DEF OrderKept, FinishedIsCoherent, Finished, CoherentUpTo
  <2>5. FinishedIsCoherent'
    BY <2>1, <2>3, <2>4, CoherenceStays
  <2> QED BY <2>1, <2>5 DEF OrderKept
<1> QED BY <1>1, <1>2, <1>3, <1>4

\* No step breaks it.
LEMMA NextOrder == IInv /\ OrderKept /\ [Next]_vars => OrderKept'
<1> SUFFICES ASSUME IInv, OrderKept, [Next]_vars PROVE OrderKept'
  OBVIOUS
<1>1. IInv'
  BY NextIInv
<1>2. CASE UNCHANGED vars
  <2>1. UNCHANGED <<chain, files, mem, at, pc, from, exit>>
    BY <1>2 DEF vars, disk, process
  <2>2. MemoryInStep' <=> MemoryInStep
    BY <2>1 DEF MemoryInStep, At
  <2>3. LinksInMemory' <=> LinksInMemory
    BY <2>1 DEF LinksInMemory, Linked, At
  <2>4. LinksOnFile(at - 1)' <=> LinksOnFile(at - 1)
    BY <2>1 DEF LinksOnFile, Linked, At
  <2>5. FinishedIsCoherent' <=> FinishedIsCoherent
    BY <2>1 DEF FinishedIsCoherent, Finished, Readable
  <2> QED BY <2>1, <2>2, <2>3, <2>4, <2>5 DEF OrderKept
<1>3. CASE Next
  BY <1>1, <1>3, RunOrder, EndOrder, StopOrder, OperatorOrder DEF Next, ScriptStep, RunStep
<1> QED BY <1>2, <1>3

\* Whatever attempts came before, the scripts that a command has finished
\* recorded contracts that are linked to the very contracts on file.
THEOREM FinishedIsAlwaysCoherent == Spec => []FinishedIsCoherent
<1>1. IInv /\ OrderKept => FinishedIsCoherent
  <2> SUFFICES ASSUME IInv, OrderKept PROVE FinishedIsCoherent
    OBVIOUS
  <2>1. CASE exit = "running"
    <3>1. /\ at \in 1 .. Len(Scripts) /\ Len(Scripts) \in Nat
          /\ from \in Nat \ {0} /\ LinksOnFile(at - 1)
      BY <2>1, ScriptsAssumption DEF IInv, Shape, OrderKept
    <3>2. CoherentUpTo(at - 1)
      BY <3>1, LinksCohere
    <3> QED BY <2>1, <3>2 DEF CoherentUpTo, FinishedIsCoherent, Finished
  <2>2. CASE exit # "running"
    BY <2>2 DEF OrderKept
  <2> QED BY <2>1, <2>2
<1> QED BY <1>1, InitIInv, NextIInv, InitOrder, NextOrder, PTL DEF Spec

(***************************************************************************)
(* Nothing is forgotten.  A file that the running script has read or       *)
(* written is never ahead of its memory, since addresses only grow and the *)
(* script copies to it nothing older than what is there; a file that it    *)
(* found missing is missing until it writes it.                            *)
(***************************************************************************)
Touched(m, f) == \E j \in 1 .. m : Loads(at, j, f) \/ Saves(at, j, f)
AbsentStill ==
    ~Development => \A f \in Files :
        (\E j \in 1 .. pc - 1 : Creates(at, j, f)) /\ (\A j \in 1 .. pc - 1 : ~Saves(at, j, f))
            => files[f] = Absent
Ahead ==
    \A e : FileEntry(e) /\ Touched(pc - 1, e[1]) =>
        Readable(e[1]) /\ At(mem, e) >= At(files, e)
\* Since step i, up to step m, d is what was deployed and e was not written.
Since(i, m, d, e) ==
    /\ Scripts[at][i].op = "deploy" /\ Target(at, i) = d
    /\ \A l \in i + 1 .. m : ~Writes(at, l, d) /\ ~Loads(at, l, d[1]) /\ ~Writes(at, l, e)
Newest ==
    \A d, e : MemEntry(d) /\ FileEntry(e) /\ d # e =>
        \A i \in 1 .. pc - 1 : Since(i, pc - 1, d, e) =>
            /\ At(mem, e) <= At(mem, d)
            /\ Readable(e[1]) => At(files, e) <= At(mem, d)
Kept == exit = "running" => AbsentStill /\ Ahead /\ Newest

\* An entry is an address on the chain, or none.
LEMMA EntryBounds ==
    ASSUME IInv
    PROVE  /\ Len(chain) \in Nat
           /\ \A e : MemEntry(e) => At(mem, e) \in Nat /\ At(mem, e) <= Len(chain)
           /\ \A e : FileEntry(e) /\ Readable(e[1]) =>
                 At(files, e) \in Nat /\ At(files, e) <= Len(chain)
<1>1. Len(chain) \in Nat /\ DOMAIN chain = 1 .. Len(chain)
  BY DEF IInv, Shape
<1>2. ASSUME NEW e, MemEntry(e) PROVE At(mem, e) \in Nat /\ At(mem, e) <= Len(chain)
  <2>1. e[1] \in Places \ {"env"} /\ e[2] \in DOMAIN Kind[e[1]]
    BY <1>2 DEF MemEntry, IsEntry
  <2>2. mem[e[1]][e[2]] \in Nat
    BY <2>1 DEF IInv, Shape
  <2>3. mem[e[1]][e[2]] # 0 => mem[e[1]][e[2]] \in DOMAIN chain
    BY <2>1 DEF IInv, MemoryDescribesChain, Fits
  <2> QED BY <1>1, <2>2, <2>3 DEF At
<1>3. ASSUME NEW e, FileEntry(e), Readable(e[1])
      PROVE  At(files, e) \in Nat /\ At(files, e) <= Len(chain)
  <2>1. e[1] \in Files /\ e[2] \in DOMAIN Kind[e[1]]
    BY <1>3 DEF FileEntry, MemEntry, IsEntry
  <2>2. files[e[1]] \in [DOMAIN Kind[e[1]] -> Nat]
    BY <1>3, <2>1 DEF IInv, Shape
  <2>3. files[e[1]][e[2]] # 0 => files[e[1]][e[2]] \in DOMAIN chain
    BY <1>3, <2>1, <2>2 DEF IInv, FilesDescribeChain, Fits
  <2> QED BY <1>1, <2>1, <2>2, <2>3 DEF At
<1> QED BY <1>1, <1>2, <1>3

\* What is written to a file is readable.
LEMMA SavedReadable ==
    ASSUME IInv, Effect, NEW e, FileEntry(e)
    PROVE  /\ Saves(at, pc, e[1]) => Readable(e[1])' /\ At(files', e) = At(mem, e)
           /\ ~Saves(at, pc, e[1]) =>
                 /\ Readable(e[1])' <=> Readable(e[1])
                 /\ At(files', e) = At(files, e)
<1>1. FileEffect(e[1]) /\ e[1] \in Files /\ e[1] \in Places
  BY DEF Effect, FileEntry, MemEntry, IsEntry
<1>2. mem[e[1]] \in [DOMAIN Kind[e[1]] -> Nat]
  BY <1>1 DEF IInv, Shape
<1>3. mem[e[1]] \notin {Absent, Torn}
  BY <1>1, <1>2, EntriesAssumption
<1> QED BY <1>1, <1>3 DEF FileEffect, Readable, At

\* A missing file stays missing until the script writes it.
LEMMA AbsentStays ==
    ASSUME IInv, AbsentStill, Effect
    PROVE  AbsentStill'
<1>0. /\ at' = at /\ pc' - 1 = pc /\ network' = network /\ pc \in Nat \ {0}
      /\ files = [f \in Files |-> files[f]]
  BY DEF Effect, Advance, IInv, Shape
<1> SUFFICES ASSUME ~Development, NEW f \in Files,
                    NEW j \in 1 .. pc, Creates(at, j, f), \A i \in 1 .. pc : ~Saves(at, i, f)
             PROVE  files'[f] = Absent
  BY <1>0 DEF AbsentStill, Development, Creates, Saves
<1>1. files'[f] = files[f]
  BY <1>0 DEF Effect, FileEffect
<1>2. CASE j = pc
  <2>1. step.op = "absent" /\ step.file = f /\ Passes(step)
    BY <1>2 DEF Effect, Creates
  <2> QED BY <1>1, <2>1 DEF Passes, Refuses
<1>3. CASE j # pc
  <2>1. j \in 1 .. pc - 1 /\ \A i \in 1 .. pc - 1 : ~Saves(at, i, f)
    BY <1>0, <1>3
  <2> QED BY <1>1, <2>1 DEF AbsentStill
<1> QED BY <1>2, <1>3

\* A deployed contract stays the newest of the entries, as long as nothing else is written.
LEMMA NewestStays ==
    ASSUME IInv, Newest, Effect
    PROVE  Newest'
<1>0. /\ at' = at /\ pc' - 1 = pc /\ at \in 1 .. Len(Scripts)
      /\ pc \in 1 .. Len(Scripts[at]) /\ pc \in Nat \ {0} /\ step = Scripts[at][pc]
  BY DEF Effect, Advance, IInv, Shape
<1>1. ASSUME NEW d, NEW e, MemEntry(d), FileEntry(e), d # e,
             NEW i \in 1 .. pc, Since(i, pc, d, e)
      PROVE  /\ At(mem', e) <= At(mem', d)
             /\ Readable(e[1])' => At(files', e) <= At(mem', d)
  <2>1. MemEntry(e) /\ e[1] \in Files /\ MemEffect(e) /\ MemEffect(d)
    BY <1>1 DEF Effect, FileEntry
  <2>2. CASE i = pc
    <3>1. /\ step.op = "deploy" /\ Writes(at, pc, d) /\ ~Writes(at, pc, e)
          /\ ~Loads(at, pc, e[1]) /\ ~Saves(at, pc, e[1])
      BY <1>0, <1>1, <2>2 DEF Since, Target, Writes, Loads, Saves
    <3>2. At(mem', d) = Len(chain) + 1 /\ At(mem', e) = At(mem, e)
      BY <2>1, <3>1 DEF MemEffect
    <3>3. (Readable(e[1])' <=> Readable(e[1])) /\ At(files', e) = At(files, e)
      BY <1>1, <3>1, SavedReadable
    <3>4. /\ Len(chain) \in Nat /\ At(mem, e) \in Nat /\ At(mem, e) <= Len(chain)
          /\ Readable(e[1]) => At(files, e) \in Nat /\ At(files, e) <= Len(chain)
      BY <1>1, <2>1, EntryBounds
    <3> QED BY <3>2, <3>3, <3>4
  <2>3. CASE i # pc
    <3>1. i \in 1 .. pc - 1 /\ pc \in i + 1 .. pc
      BY <1>0, <2>3
    <3>2. ~Writes(at, pc, d) /\ ~Loads(at, pc, d[1]) /\ ~Writes(at, pc, e)
      BY <1>1, <3>1 DEF Since
    <3>3. Since(i, pc - 1, d, e)
      BY <1>0, <1>1, <3>1 DEF Since
    <3>4. /\ At(mem, e) <= At(mem, d)
          /\ Readable(e[1]) => At(files, e) <= At(mem, d)
      BY <1>1, <3>1, <3>3 DEF Newest
    <3>5. /\ At(mem', d) = At(mem, d)
          /\ \/ At(mem', e) = At(mem, e)
             \/ Readable(e[1]) /\ At(mem', e) = At(files, e)
      BY <2>1, <3>2 DEF MemEffect
    <3>6. \/ At(files', e) = At(mem, e)
          \/ (Readable(e[1])' <=> Readable(e[1])) /\ At(files', e) = At(files, e)
      BY <1>1, SavedReadable
    <3> QED BY <3>4, <3>5, <3>6
  <2> QED BY <2>2, <2>3
<1>2. Newest' <=> \A d, e : MemEntry(d) /\ FileEntry(e) /\ d # e =>
                      \A i \in 1 .. pc : Since(i, pc, d, e) =>
                          /\ At(mem', e) <= At(mem', d)
                          /\ Readable(e[1])' => At(files', e) <= At(mem', d)
  BY <1>0 DEF Newest, Since, Target, Writes, Loads, At, MemEntry, FileEntry, IsEntry, Places, Readable
<1> QED BY <1>1, <1>2

\* The file of a step's entry stays behind the script's memory.
LEMMA AheadStays ==
    ASSUME IInv, Ahead, Newest, Effect
    PROVE  Ahead'
<1>0. /\ at' = at /\ pc' - 1 = pc /\ at \in 1 .. Len(Scripts)
      /\ pc \in 1 .. Len(Scripts[at]) /\ pc \in Nat \ {0} /\ step = Scripts[at][pc]
  BY DEF Effect, Advance, IInv, Shape
<1>1. ASSUME NEW e, FileEntry(e), Touched(pc, e[1])
      PROVE  Readable(e[1])' /\ At(mem', e) >= At(files', e)
  <2>1. /\ MemEntry(e) /\ e[1] \in Files /\ MemEffect(e) /\ Len(chain) \in Nat
        /\ At(mem, e) \in Nat
        /\ Readable(e[1]) => At(files, e) \in Nat /\ At(files, e) <= Len(chain)
    BY <1>1, EntryBounds DEF Effect, FileEntry
  <2>2. CASE Loads(at, pc, e[1])
    <3>1. ~Saves(at, pc, e[1])
      BY <2>2 DEF Loads, Saves
    <3>2. Readable(e[1]) /\ At(mem', e) = At(files, e)
      BY <2>1, <2>2 DEF MemEffect
    <3>3. Readable(e[1])' /\ At(files', e) = At(files, e)
      BY <1>1, <3>1, <3>2, SavedReadable
    <3> QED BY <2>1, <3>2, <3>3
  <2>3. CASE Saves(at, pc, e[1])
    <3>1. ~Loads(at, pc, e[1]) /\ ~Writes(at, pc, e)
      BY <2>3 DEF Loads, Saves, Writes
    <3>2. At(mem', e) = At(mem, e)
      BY <2>1, <3>1 DEF MemEffect
    <3>3. Readable(e[1])' /\ At(files', e) = At(mem, e)
      BY <1>1, <2>3, SavedReadable
    <3> QED BY <2>1, <3>2, <3>3
  <2>4. CASE ~Loads(at, pc, e[1]) /\ ~Saves(at, pc, e[1])
    <3>1. Touched(pc - 1, e[1])
      BY <1>0, <1>1, <2>4 DEF Touched
    <3>2. Readable(e[1]) /\ At(mem, e) >= At(files, e)
      BY <1>1, <3>1 DEF Ahead
    <3>3. Readable(e[1])' /\ At(files', e) = At(files, e)
      BY <1>1, <2>4, <3>2, SavedReadable
    <3>4. CASE ~Writes(at, pc, e)
      BY <2>1, <2>4, <3>2, <3>3, <3>4 DEF MemEffect
    <3>5. CASE Writes(at, pc, e) /\ step.op = "deploy"
      BY <2>1, <3>2, <3>3, <3>5 DEF MemEffect
    <3>6. CASE Writes(at, pc, e) /\ step.op # "deploy"
      <4> DEFINE d == <<step.src.place, step.src.key>>
      <4>1. step.op = "put" /\ e = Target(at, pc) /\ step.file = e[1]
        BY <1>0, <2>1, <3>6 DEF Writes, Target, MemEntry
      <4>2. \E j \in 1 .. pc - 1 : Loads(at, j, step.file) \/ Saves(at, j, step.file)
        BY <3>1, <4>1 DEF Touched
      <4>3. /\ step.src.role = "" /\ d # e
            /\ \E j \in 1 .. pc - 1 :
                  /\ Scripts[at][j].op = "deploy" /\ Target(at, j) = d
                  /\ \A l \in j + 1 .. pc - 1 :
                        ~Writes(at, l, d) /\ ~Loads(at, l, d[1]) /\ ~Writes(at, l, e)
        BY <1>0, <4>1, <4>2, OrderAssumption DEF CopiesNew
      <4>4. PICK j \in 1 .. pc - 1 : Since(j, pc - 1, d, e)
        BY <4>3 DEF Since
      <4>5. MemEntry(d)
        <5>1. j \in 1 .. Len(Scripts[at])
          BY <1>0, ScriptsAssumption
        <5>2. StepOK(at, j)
          BY <1>0, <5>1, ScriptsAssumption
        <5>3. IsEntry(d[1], d[2])
          BY <4>4, <5>2 DEF Since, Target, StepOK
        <5> QED BY <5>3 DEF MemEntry
      <4>6. At(files, e) <= At(mem, d)
        BY <1>1, <3>2, <4>3, <4>4, <4>5 DEF Newest
      <4>7. At(mem', e) = At(mem, d)
        <5>1. At(mem', e) = Value(step.src)
          BY <2>1, <3>6 DEF MemEffect
        <5> QED BY <4>3, <5>1 DEF Value, At
      <4>8. At(mem, d) \in Nat
        BY <4>5, EntryBounds
      <4> HIDE DEF d
      <4> QED BY <2>1, <3>2, <3>3, <4>6, <4>7, <4>8
    <3> QED BY <3>4, <3>5, <3>6
  <2> QED BY <2>2, <2>3, <2>4
<1>2. Ahead' <=> \A e : FileEntry(e) /\ Touched(pc, e[1]) =>
                     Readable(e[1])' /\ At(mem', e) >= At(files', e)
  BY <1>0 DEF Ahead, Touched, Loads, Saves, At, MemEntry, FileEntry, IsEntry, Places, Readable
<1> QED BY <1>1, <1>2

\* The invariant holds at the start, and no step breaks it.
LEMMA InitKept == Init => Kept
<1> SUFFICES ASSUME Init PROVE Kept
  OBVIOUS
<1>1. pc = 1
  BY DEF Init
<1> QED BY <1>1 DEF Kept, AbsentStill, Ahead, Newest, Touched

LEMMA NextKept == IInv /\ Kept /\ [Next]_vars => Kept'
<1> SUFFICES ASSUME IInv, Kept, [Next]_vars, exit' = "running" PROVE Kept'
  BY DEF Kept
<1>1. CASE RunStep
  <2>1. Effect
    BY <1>1, StepEffect
  <2>2. exit = "running"
    BY <2>1 DEF Effect
  <2> QED BY <2>1, <2>2, AbsentStays, AheadStays, NewestStays DEF Kept
<1>2. CASE UNCHANGED vars
  <2>1. UNCHANGED <<network, chain, files, mem, at, pc, exit>>
    BY <1>2 DEF vars, disk, process
  <2>2. AbsentStill' <=> AbsentStill
    BY <2>1 DEF AbsentStill, Development, Creates, Saves
  <2>3. Ahead' <=> Ahead
    BY <2>1 DEF Ahead, Touched, Loads, Saves, At, Readable
  <2>4. Newest' <=> Newest
    BY <2>1 DEF Newest, Since, Target, Writes, Loads, At, Readable
  <2> QED BY <2>1, <2>2, <2>3, <2>4 DEF Kept
<1>3. ASSUME pc' = 1 PROVE Kept'
  BY <1>3 DEF Kept, AbsentStill, Ahead, Newest, Touched
<1>4. CASE Finish \/ Throw \/ Crash
  BY <1>3, <1>4 DEF Finish, Throw, Crash
<1>5. CASE Resume \/ Rerun
  BY <1>3, <1>5 DEF Resume, Rerun, Begin
<1>6. CASE \E c \in Commands : \E k \in c.first .. c.last : Start(c, k)
  BY <1>3, <1>6 DEF Start, Begin
<1>7. CASE \E f \in Files : Clear(f)
  BY <1>7 DEF Clear, process
<1> QED BY <1>1, <1>2, <1>4, <1>5, <1>6, <1>7 DEF Next, ScriptStep, RunStep

\* A step that writes a file writes nothing older than what is there.
LEMMA StepForgetsNothing ==
    ASSUME IInv, Kept, [Next]_vars, ~Development, exit = "running",
           NEW f \in Files, Readable(f)
    PROVE  \/ files'[f] = Torn
           \/ /\ files'[f] # Absent
              /\ \A k \in DOMAIN files[f] : files[f][k] # 0 => files'[f][k] >= files[f][k]
<1>0. files[f] \in [DOMAIN Kind[f] -> Nat] /\ files = [g \in Files |-> files[g]]
  BY DEF IInv, Shape
<1>1. ASSUME files'[f] = files[f]
      PROVE  /\ files'[f] # Absent
             /\ \A k \in DOMAIN files[f] : files[f][k] # 0 => files'[f][k] >= files[f][k]
  BY <1>0, <1>1 DEF Readable
<1>2. CASE RunStep
  <2>1. Effect
    BY <1>2, StepEffect
  <2>2. /\ at \in 1 .. Len(Scripts) /\ pc \in 1 .. Len(Scripts[at]) /\ pc \in Nat
        /\ FileEffect(f)
    BY <2>1 DEF Effect, IInv, Shape
  <2>3. CASE ~Saves(at, pc, f)
    BY <1>1, <2>2, <2>3 DEF FileEffect
  <2>4. CASE Saves(at, pc, f)
    <3>1. PICK j \in 1 .. pc - 1 : Loads(at, j, f) \/ Saves(at, j, f) \/ Creates(at, j, f)
      BY <2>2, <2>4, OrderAssumption DEF ReadFirst, Saves
    <3>2. Touched(pc - 1, f)
      BY <3>1 DEF Touched, Kept, AbsentStill, Readable
    <3>3. f \in Places \ {"env"} /\ mem[f] \in [DOMAIN Kind[f] -> Nat]
      BY EntriesAssumption DEF IInv, Shape
    <3>4. files'[f] = mem[f] /\ files'[f] # Absent
      BY <2>2, <2>4, <3>3, EntriesAssumption DEF FileEffect
    <3>5. ASSUME NEW k \in DOMAIN files[f] PROVE files'[f][k] >= files[f][k]
      <4> DEFINE e == <<f, k>>
      <4>1. FileEntry(e) /\ e[1] = f /\ e[2] = k
        BY <1>0, <3>3 DEF FileEntry, MemEntry, IsEntry
      <4>2. At(mem, e) >= At(files, e)
        BY <3>2, <4>1 DEF Kept, Ahead
      <4> QED BY <3>4, <4>1, <4>2 DEF At
    <3> QED BY <3>4, <3>5
  <2> QED BY <2>3, <2>4
<1>3. CASE Crash
  <2>1. CASE files' = files
    BY <1>1, <2>1
  <2>2. CASE files' = [files EXCEPT ![step.file] = Torn]
    <3>1. files'[f] = Torn \/ files'[f] = files[f]
      BY <1>0, <2>2
    <3> QED BY <1>1, <3>1
  <2> QED BY <1>3, <2>1, <2>2 DEF Crash
<1>4. CASE Finish \/ Throw \/ UNCHANGED vars
  BY <1>1, <1>4 DEF Finish, Throw, vars, disk
<1> QED BY <1>2, <1>3, <1>4 DEF Next, ScriptStep, RunStep, Resume, Rerun, Start, Clear

\* On a live network a recorded address stays or gives way to a later
\* contract, whatever the scripts do; only a write that is cut short loses it.
THEOREM NothingIsForgotten == Spec => NothingForgotten
<1>1. IInv /\ Kept /\ [Next]_vars =>
          [~Development /\ exit = "running" =>
              \A f \in Files : Readable(f) =>
                  \/ files'[f] = Torn
                  \/ /\ files'[f] # Absent
                     /\ \A k \in DOMAIN files[f] :
                           files[f][k] # 0 => files'[f][k] >= files[f][k]]_vars
  BY StepForgetsNothing
<1> QED BY <1>1, InitIInv, NextIInv, InitKept, NextKept, PTL DEF Spec, NothingForgotten
======================================================================
