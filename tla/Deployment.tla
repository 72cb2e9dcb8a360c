----------------------------- MODULE Deployment -----------------------------
(***************************************************************************)
(* What the deployment promises, however often it is interrupted and       *)
(* wherever it is picked up again.                                         *)
(***************************************************************************)
EXTENDS ScriptRunner, FiniteSets

CONSTANT Skipped   \* the entries phases 1 and 2 do not fill

Fits(a, is) == a \in DOMAIN chain /\ chain[a].is = is

\* Every address on file is the address of a contract of the kind the entry
\* is meant for: an address is never recorded for a contract that was not
\* mined, or under another contract's name.
FilesDescribeChain ==
    \A f \in Files : Readable(f) =>
        \A k \in DOMAIN files[f] : files[f][k] # 0 => Fits(files[f][k], Kind[f][k])

\* Every contract was linked to, and constructed over, contracts that were
\* there before it and are what they should be: no Deployer lacks an
\* implementation, no FacadeWrite a Deployer, no plugin its oracle library.
LinksAreRight ==
    \A a \in DOMAIN chain : \A r \in DOMAIN chain[a].uses :
        chain[a].uses[r] < a /\ Fits(chain[a].uses[r], RoleKind[r])

\* What a command has finished hangs together: what its scripts recorded
\* uses the very contracts that are on file, not those of an earlier attempt.
Finished == from .. (IF exit = "done" THEN at ELSE at - 1)
FinishedIsCoherent ==
    \A n \in Finished : \A i \in DOMAIN Scripts[n] :
        LET s == Scripts[n][i] IN
        s.op = "deploy" /\ s.file \in Files /\ Readable(s.file) =>
            \A r \in DOMAIN s.uses :
                LET ref == s.uses[r] IN
                ref.place \in Files /\ Readable(ref.place) =>
                    chain[files[s.file][s.key]].uses[r] = files[ref.place][ref.key]

\* On a live network the scripts forget nothing: a recorded address stays, or
\* gives way to a later contract, unless the file is torn.
NothingForgotten ==
    [][~Development /\ exit = "running" =>
        \A f \in Files : Readable(f) =>
            \/ files'[f] = Torn
            \/ /\ files'[f] # Absent
               /\ \A k \in DOMAIN files[f] : files[f][k] # 0 => files'[f][k] >= files[f][k]]_vars

\* An interrupted deployment is completed by resuming it, as far as the
\* scripts go, on every network that has all they need.
Recordeds(f) == Readable(f) /\ \A k \in DOMAIN files[f] \ Skipped : files[f][k] # 0
Provided ==
    /\ \A a \in DOMAIN External : HasCode(a)
    /\ \A n \in FirstCommand.first .. FirstCommand.last : \A i \in DOMAIN Scripts[n] :
          LET s == Scripts[n][i] IN
          /\ s.op = "config" => \A v \in s.wants : Configured(v)
          /\ s.op = "deploy" => \A p \in DOMAIN s.args : Configured(s.args[p])
InterruptedWorkCompletes ==
    Provided /\ [](starts = 0 /\ \A f \in Files : files[f] # Torn)
        => <>(Recordeds("phase1") /\ Recordeds("assets"))

\* Verification that is repeated shows the source of every contract whose
\* arguments match, whatever failed in between.
Verifiable ==
    /\ exit # "running" /\ at >= Verification.first
    /\ ~Development
    /\ \A f \in {"phase1", "assets"} : Readable(f)
EventuallyVerified == Verifiable ~> Pending = {}

=============================================================================
