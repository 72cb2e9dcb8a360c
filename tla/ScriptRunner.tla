---------------------------- MODULE ScriptRunner ----------------------------
(***************************************************************************)
(* How `hardhat run` carries out the scripts of scripts/: each script is a *)
(* process of its own that reads the deployment files into memory, checks  *)
(* them, deploys contracts, and writes the files back.  What survives the  *)
(* process is the chain and the files; what it holds in memory is lost     *)
(* when it throws or is killed, and an operator then picks the work up     *)
(* again at a script of his choice.  The scripts themselves are data: the  *)
(* constant Scripts is a sequence of scripts, a script a sequence of       *)
(* steps.  A Command (deploy.ts, confirm.ts, verify_etherscan.ts) runs a   *)
(* range of them in order and stops at the first that fails.               *)
(***************************************************************************)
EXTENDS Naturals, Sequences, Functions

CONSTANTS
    Scripts,        \* the scripts, each a sequence of steps
    Commands,       \* the ranges of scripts that are run in one go
    Files,          \* the deployment files of one network
    Kind,           \* Kind[place][key]: the contract an entry is meant for
    RoleKind,       \* RoleKind[role]: the contract meant for a parameter
    LibRoles,       \* the roles that are linked libraries
    NetworkConfig,  \* networkConfig: what each network has, and whether it is a dev chain
    Networks,       \* the networks of this run
    FirstCommand,   \* the one that starts it all
    Verification,   \* the one that can be repeated
    External,       \* the contracts that are on a live network before
    Absent, Torn,   \* a file that is not there, or only half written
    MaxFaults,      \* bound: crashes and failures of a service
    MaxStarts       \* bound: commands the operator starts himself

VARIABLES
    network,   \* the chain id the scripts run against
    chain,     \* the contracts on the chain; an address is a position in it
    files,     \* the deployment files
    mem,       \* the entries the running script holds, by file, and its local variables
    at,        \* the script that runs, or ran last
    pc,        \* its next step
    until,     \* the last script of the command
    from,      \* the script the command was started at
    exit,      \* "running", or how the last command ended
    faults,    \* crashes and failures so far
    starts,    \* commands started by the operator so far
    verified   \* the addresses whose source the explorer shows

disk == <<chain, files>>
process == <<mem, at, pc, until, from, exit>>
vars == <<network, disk, process, faults, starts, verified>>

\* A file in memory, the script's variables ("local"), and the addresses of
\* the network's configuration ("env") are read and written alike.
Places == DOMAIN Kind
Blank(p) == [k \in DOMAIN Kind[p] |-> 0]
env == [k \in DOMAIN Kind["env"] |->
            CHOOSE a \in DOMAIN External : External[a].is = Kind["env"][k]]
NoMemory == [p \in Places |-> IF p = "env" THEN env ELSE Blank(p)]
Readable(f) == files[f] \notin {Absent, Torn}

\* isValidContract(): there is code at the address.
NoCode == [is |-> "", args |-> <<>>, uses |-> <<>>]
HasCode(a) == a \in DOMAIN chain /\ chain[a].is # ""

\* An address a step refers to: an entry, or a parameter of the contract
\* there, which has to be asked for it.
Resolvable(ref) ==
    ref.role # "" =>
        /\ HasCode(mem[ref.place][ref.key])
        /\ ref.role \in DOMAIN chain[mem[ref.place][ref.key]].uses
Value(ref) ==
    IF ref.role = "" THEN mem[ref.place][ref.key]
                     ELSE chain[mem[ref.place][ref.key]].uses[ref.role]

step == Scripts[at][pc]
Configured(v) == v[1] = "text" \/ v \in NetworkConfig[network].has
Development == NetworkConfig[network].dev

(***************************************************************************)
(* What the scripts have to be like: a step writes an entry with the kind  *)
(* of contract the entry is meant for, from entries of the right kind, and *)
(* an address of the configuration is copied only after it was checked.    *)
(***************************************************************************)
Names == UNION {{Kind[p][k] : k \in DOMAIN Kind[p]} : p \in Places}
IsEntry(p, k) == p \in Places \ {"env"} /\ k \in DOMAIN Kind[p]
CheckedBefore(n, i, k) ==
    \E j \in 1 .. i - 1 :
        LET s == Scripts[n][j] IN
        s.op = "check" /\ s.file = "env" /\ k \in s.keys /\ Networks \subseteq s.on
StepOK(n, i) ==
    LET s == Scripts[n][i] IN
    /\ s.op \in {"load", "save"} => s.file \in Files
    /\ s.op = "deploy" =>
          /\ IsEntry(s.file, s.key)
          /\ s.is = Kind[s.file][s.key]
          /\ \A r \in DOMAIN s.uses :
                LET ref == s.uses[r] IN
                /\ r \in DOMAIN RoleKind
                /\ ref.role = ""
                /\ IsEntry(ref.place, ref.key)
                /\ Kind[ref.place][ref.key] = RoleKind[r]
    /\ s.op = "put" =>
          /\ IsEntry(s.file, s.key)
          /\ IF s.src.place = "env"
             THEN /\ s.src.role = ""
                  /\ s.src.key \in DOMAIN Kind["env"]
                  /\ CheckedBefore(n, i, s.src.key)
             ELSE IsEntry(s.src.place, s.src.key)
          /\ Kind[s.file][s.key] = IF s.src.role = "" THEN Kind[s.src.place][s.src.key]
                                                     ELSE RoleKind[s.src.role]

ASSUME ScriptsAssumption ==
    /\ Len(Scripts) \in Nat
    /\ \A n \in 1 .. Len(Scripts) :
          /\ Len(Scripts[n]) \in Nat /\ DOMAIN Scripts[n] = 1 .. Len(Scripts[n])
          /\ \A i \in 1 .. Len(Scripts[n]) : StepOK(n, i)
    /\ \A c \in Commands \cup {FirstCommand, Verification} :
          c.first \in Nat \ {0} /\ c.last \in c.first .. Len(Scripts)
ASSUME EntriesAssumption ==
    /\ "env" \in Places
    /\ Files \subseteq Places \ {"env"}
    /\ "" \notin Names
    /\ \A k \in DOMAIN Kind["env"] : \E a \in DOMAIN External : External[a].is = Kind["env"][k]
    /\ External \in Seq([is : Names, args : {<<>>}, uses : {<<>>}])
    /\ \A f \in Files : {Absent, Torn} \cap [DOMAIN Kind[f] -> Nat] = {}

\* Step j of script n writes the entry e, a place and a key, in memory; it
\* reads or writes a file.
Writes(n, j, e) ==
    LET s == Scripts[n][j] IN s.op \in {"deploy", "put"} /\ <<s.file, s.key>> = e
Loads(n, j, f)   == LET s == Scripts[n][j] IN s.op = "load" /\ s.file = f
Saves(n, j, f)   == LET s == Scripts[n][j] IN s.op = "save" /\ s.file = f
Creates(n, j, f) == LET s == Scripts[n][j] IN s.op = "absent" /\ s.file = f

\* After m steps memory has the entry as the file does.
InStep(n, m, e) ==
    \E j \in 1 .. m : /\ Loads(n, j, e[1]) \/ Saves(n, j, e[1])
                      /\ \A l \in j + 1 .. m : ~Writes(n, l, e)

(***************************************************************************)
(* The order the scripts have to keep.  Once a contract was deployed over  *)
(* an entry, no later step replaces the one or the other, or reads a file  *)
(* over it; both are on file when the script ends; and a later script that *)
(* writes the file has read it.                                            *)
(***************************************************************************)
Left(n, i, e) ==
    /\ \A j \in i + 1 .. Len(Scripts[n]) : ~Writes(n, j, e) /\ ~Loads(n, j, e[1])
    /\ InStep(n, Len(Scripts[n]), e)
    /\ \A m \in n + 1 .. Len(Scripts) : \A j \in 1 .. Len(Scripts[m]) :
          /\ ~Writes(m, j, e)
          /\ Saves(m, j, e[1]) => \E l \in 1 .. j - 1 : Loads(m, l, e[1])
\* The step deploys a contract that goes on file, over an entry on file.
IsLink(n, i, r) ==
    LET s == Scripts[n][i] IN
    s.op = "deploy" /\ s.file \in Files /\ r \in DOMAIN s.uses /\ s.uses[r].place \in Files
Target(n, i)    == <<Scripts[n][i].file, Scripts[n][i].key>>
Origin(n, i, r) == <<Scripts[n][i].uses[r].place, Scripts[n][i].uses[r].key>>

(***************************************************************************)
(* A file is read, or found not to be there, before it is written.  What a *)
(* step copies to an entry of a file that was read or written was deployed *)
(* by the same script, since that entry was last written.                  *)
(***************************************************************************)
ReadFirst(n, i) ==
    LET s == Scripts[n][i] IN
    s.op = "save" => \E j \in 1 .. i - 1 :
                        Loads(n, j, s.file) \/ Saves(n, j, s.file) \/ Creates(n, j, s.file)
CopiesNew(n, i) ==
    LET s == Scripts[n][i]
        e == <<s.src.place, s.src.key>>
    IN  s.op = "put" /\ (\E j \in 1 .. i - 1 : Loads(n, j, s.file) \/ Saves(n, j, s.file)) =>
            /\ s.src.role = "" /\ e # Target(n, i)
            /\ \E j \in 1 .. i - 1 :
                  /\ Scripts[n][j].op = "deploy" /\ Target(n, j) = e
                  /\ \A l \in j + 1 .. i - 1 :
                        ~Writes(n, l, e) /\ ~Loads(n, l, e[1]) /\ ~Writes(n, l, Target(n, i))

ASSUME OrderAssumption ==
    \A n \in 1 .. Len(Scripts) : \A i \in 1 .. Len(Scripts[n]) :
        /\ Scripts[n][i].op = "deploy" => \A r \in DOMAIN Scripts[n][i].uses :
              IsLink(n, i, r) =>
                  /\ Target(n, i) # Origin(n, i, r)
                  /\ Left(n, i, Target(n, i)) /\ Left(n, i, Origin(n, i, r))
        /\ ReadFirst(n, i) /\ CopiesNew(n, i)

(***************************************************************************)
(* What must hold for a step to succeed.  Otherwise the script throws.     *)
(***************************************************************************)
\* "I won't overwrite it."
Refuses_OnlyDev(s) == files[s.file] # Absent /\ (~Development => s.everywhere)
Refuses(s) == files[s.file] # Absent /\ (Development => s.everywhere)
\* An entry must be there and be the address of a contract.
Checks_NonEmpty(s) == network \in s.on => \A k \in s.keys : mem[s.file][k] # 0
Checks(s) == network \in s.on => \A k \in s.keys : HasCode(mem[s.file][k])
\* hardhat asks for every parameter of a task, ethers for an address for
\* every address parameter and linked library.
Deployable_AnyAddress(s) ==
    /\ s.lacks = {}
    /\ \A p \in DOMAIN s.args : Configured(s.args[p])
Deployable(s) ==
    /\ s.lacks = {}
    /\ \A p \in DOMAIN s.args : Configured(s.args[p])
    /\ \A r \in DOMAIN s.uses : Value(s.uses[r]) # 0

Passes_VerifyOnce(s) ==
    \/ s.op = "config"  /\ \A v \in s.wants : Configured(v)
    \/ s.op = "public"  /\ ~Development
    \/ s.op = "absent"  /\ ~Refuses(s)
    \/ s.op = "exists"  /\ files[s.file] # Absent
    \/ s.op = "load"    /\ Readable(s.file)
    \/ s.op = "check"   /\ Checks(s)
    \/ s.op = "deploy"  /\ Deployable(s)
    \/ s.op = "put"     /\ Resolvable(s.src)
    \/ s.op = "verify"  /\ HasCode(mem[s.file][s.key]) /\ mem[s.file][s.key] \notin verified
    \/ s.op = "save"
Passes(s) ==
    \/ s.op = "config"  /\ \A v \in s.wants : Configured(v)
    \/ s.op = "public"  /\ ~Development
    \/ s.op = "absent"  /\ ~Refuses(s)
    \/ s.op = "exists"  /\ files[s.file] # Absent
    \/ s.op = "load"    /\ Readable(s.file)
    \/ s.op = "check"   /\ Checks(s)
    \/ s.op = "deploy"  /\ Deployable(s)
    \/ s.op = "put"     /\ Resolvable(s.src)
    \/ s.op = "verify"  /\ HasCode(mem[s.file][s.key])
    \/ s.op = "save"

(***************************************************************************)
(* The steps of the running script.                                        *)
(***************************************************************************)
Running(op) == exit = "running" /\ pc <= Len(Scripts[at]) /\ step.op = op /\ Passes(step)
Advance == pc' = pc + 1 /\ UNCHANGED <<at, until, from, exit>>

CheckStep ==
    /\ \E op \in {"config", "public", "absent", "exists", "check"} : Running(op)
    /\ Advance
    /\ UNCHANGED <<network, disk, mem, faults, starts, verified>>

\* getDeploymentFile()
Load ==
    /\ Running("load")
    /\ mem' = [mem EXCEPT ![step.file] = files[step.file]]
    /\ Advance
    /\ UNCHANGED <<network, disk, faults, starts, verified>>

\* A contract as it was deployed: what it is, what the configuration gave
\* it, and the contracts it was given or linked to.
Deployed(s) == [is |-> s.is, args |-> s.args, uses |-> [r \in DOMAIN s.uses |-> Value(s.uses[r])]]

Deploy_KeepDeployer ==
    /\ Running("deploy")
    /\ IF step.is = "DeployerP1" /\ HasCode(mem[step.file][step.key])
       THEN UNCHANGED <<chain, mem>>
       ELSE /\ chain' = Append(chain, Deployed(step))
            /\ mem' = [mem EXCEPT ![step.file][step.key] = Len(chain) + 1]
    /\ Advance
    /\ UNCHANGED <<network, files, faults, starts, verified>>

\* The transaction is mined, and the script keeps the address.
Deploy ==
    /\ Running("deploy")
    /\ chain' = Append(chain, Deployed(step))
    /\ mem' = [mem EXCEPT ![step.file][step.key] = Len(chain) + 1]
    /\ Advance
    /\ UNCHANGED <<network, files, faults, starts, verified>>

Put ==
    /\ Running("put")
    /\ mem' = [mem EXCEPT ![step.file][step.key] = Value(step.src)]
    /\ Advance
    /\ UNCHANGED <<network, disk, faults, starts, verified>>

\* fs.writeFileSync()
Save ==
    /\ Running("save")
    /\ files' = [files EXCEPT ![step.file] = mem[step.file]]
    /\ Advance
    /\ UNCHANGED <<network, chain, mem, faults, starts, verified>>

\* What the explorer compares: the contract and its constructor's arguments.
CtorUses(uses) == Restrict(uses, DOMAIN uses \ LibRoles)
Matches(c, s) ==
    /\ c.is = s.is
    /\ ~s.own => /\ c.args = s.args
                 /\ CtorUses(c.uses) = [r \in DOMAIN s.uses |-> Value(s.uses[r])]

\* verifyContract(): nothing to do if it is verified; a failed verification
\* is logged and the script goes on.
Verify ==
    /\ Running("verify")
    /\ LET a == mem[step.file][step.key]
       IN  \/ /\ a \in verified \/ ~Matches(chain[a], step)
              /\ UNCHANGED <<faults, verified>>
           \/ /\ a \notin verified
              /\ Matches(chain[a], step)
              /\ verified' = verified \cup {a}
              /\ UNCHANGED faults
           \/ /\ a \notin verified
              /\ faults < MaxFaults
              /\ faults' = faults + 1
              /\ UNCHANGED verified
    /\ Advance
    /\ UNCHANGED <<network, disk, mem, starts>>

\* The script is done: its process ends, the next one starts from nothing.
Finish ==
    /\ exit = "running"
    /\ pc > Len(Scripts[at])
    /\ mem' = NoMemory
    /\ IF at < until
       THEN at' = at + 1 /\ pc' = 1 /\ UNCHANGED exit
       ELSE exit' = "done" /\ UNCHANGED <<at, pc>>
    /\ UNCHANGED <<network, disk, until, from, faults, starts, verified>>

\* sh() rejects, and the command stops.
Throw ==
    /\ exit = "running"
    /\ pc <= Len(Scripts[at])
    /\ ~Passes(step)
    /\ exit' = "threw"
    /\ mem' = NoMemory
    /\ UNCHANGED <<network, disk, at, pc, until, from, faults, starts, verified>>

\* The process is killed, or a call to the node or the explorer fails, after
\* what was mined was mined.  A file that is being written may be cut short.
Crash ==
    /\ exit = "running"
    /\ faults < MaxFaults
    /\ faults' = faults + 1
    /\ exit' = "crashed"
    /\ mem' = NoMemory
    /\ \/ UNCHANGED files
       \/ /\ pc <= Len(Scripts[at])
          /\ step.op = "save"
          /\ files' = [files EXCEPT ![step.file] = Torn]
    /\ UNCHANGED <<network, chain, at, pc, until, from, starts, verified>>

(***************************************************************************)
(* The operator.                                                           *)
(***************************************************************************)
Begin(k, last) ==
    /\ exit' = "running"
    /\ at' = k
    /\ from' = k
    /\ pc' = 1
    /\ until' = last
    /\ UNCHANGED <<network, disk, mem, verified>>

\* After a crash the scripts that are done are commented out.  A script that
\* creates a file is done once the file is there.
ResumePoint ==
    IF \E i \in DOMAIN Scripts[at] :
          /\ Scripts[at][i].op = "absent"
          /\ Readable(Scripts[at][i].file)
    THEN at + 1 ELSE at
Resume ==
    /\ exit = "crashed"
    /\ ResumePoint <= until
    /\ Begin(ResumePoint, until)
    /\ UNCHANGED <<faults, starts>>

\* Any command, from any of its scripts on.
Start(c, k) ==
    /\ exit # "running"
    /\ starts < MaxStarts
    /\ k \in c.first .. c.last
    /\ Begin(k, c.last)
    /\ starts' = starts + 1
    /\ UNCHANGED faults

\* A file that cannot be read is removed by hand.
Clear(f) ==
    /\ exit # "running"
    /\ files[f] = Torn
    /\ files' = [files EXCEPT ![f] = Absent]
    /\ UNCHANGED <<network, chain, process, faults, starts, verified>>

\* What the explorer could show but does not: the recorded contracts of the
\* verification scripts whose arguments are those on file.
OnFile(c, s) ==
    /\ c.args = s.args
    /\ \A r \in DOMAIN s.uses :
          s.uses[r].place \in Files => /\ Readable(s.uses[r].place)
                                       /\ c.uses[r] = files[s.uses[r].place][s.uses[r].key]
Pending ==
    {s \in UNION {Range(Scripts[k]) : k \in Verification.first .. Verification.last} :
        /\ s.op = "verify" /\ s.file \in Files
        /\ Readable(s.file)
        /\ HasCode(files[s.file][s.key])
        /\ files[s.file][s.key] \notin verified
        /\ chain[files[s.file][s.key]].is = s.is
        /\ s.own \/ OnFile(chain[files[s.file][s.key]], s)}

\* Verification is run again while something can still be verified.
Rerun ==
    /\ exit # "running"
    /\ at >= Verification.first
    /\ Pending # {}
    /\ Begin(Verification.first, Verification.last)
    /\ UNCHANGED <<faults, starts>>

Init ==
    /\ network \in Networks
    /\ \/ chain = External
       \/ Development /\ chain = [a \in DOMAIN External |-> NoCode]  \* not a fork
    /\ files = [f \in Files |-> Absent]
    /\ mem = NoMemory
    /\ at = FirstCommand.first
    /\ from = FirstCommand.first
    /\ until = FirstCommand.last
    /\ pc = 1
    /\ exit = "running"
    /\ faults = 0
    /\ starts = 0
    /\ verified = {}

ScriptStep == CheckStep \/ Load \/ Deploy \/ Put \/ Save \/ Verify \/ Finish \/ Throw
Next ==
    \/ ScriptStep
    \/ Crash
    \/ Resume
    \/ Rerun
    \/ \E c \in Commands : \E k \in c.first .. c.last : Start(c, k)
    \/ \E f \in Files : Clear(f)

\* A script that runs keeps running; a crashed command is resumed, and
\* verification repeated.
Fairness == WF_vars(ScriptStep) /\ WF_vars(Resume \/ Rerun)

Spec == Init /\ [][Next]_vars /\ Fairness
=============================================================================
