------------------------------- MODULE Sycoadm -------------------------------
(***************************************************************************)
(* The operator's command line (cli/src/commands): setup, destroy,         *)
(* upgrade, and a tenant's up, down and remove.  Each command is a         *)
(* sequence of external commands (k3d, docker, helm, kubectl, curl) of     *)
(* which any may fail and between which the operator may press Ctrl-C; a   *)
(* later command starts from whatever the earlier one left on the host and *)
(* in the cluster, and decides by probes what is still to be done.         *)
(*                                                                         *)
(* One operator, who runs one command at a time.  A generated certificate, *)
(* a Dex user and a chart are numbers; 0 is absent.                        *)
(***************************************************************************)
EXTENDS Naturals, FiniteSets

CONSTANTS
    Tenants,
    Nobody,       \* no tenant
    Commands,     \* what the operator runs, of {"setup", "destroy", ...}
    Versions,     \* versions of sycoadm, with the charts it embeds
    SelfService,  \* the cluster values turn selfService on
    Older,        \* the cluster was set up by an older release of sycoadm
    MaxFaults,    \* bound: external commands that fail, and interrupts
    MaxMisreads,  \* bound: probes that fail although what they look for is there
    MaxTrusts     \* bound: certificates and Dex users generated

VARIABLES
    host,     \* the config root: [auth, ca : certificate, email : saved]
    kube,     \* the cluster, see NoCluster
    tenant,   \* tenant -> [st, reap : annotated with reap-after, writer : Dex user, v]
    job,      \* tenant -> its installer Job: "none", "done", "failed", or while it
              \* runs the command that asked for it
    proc,     \* the running command, see Idle
    ready,    \* a setup has returned Ok (history)
    churned,  \* the node was signalled with Cilium on it (history)
    restarted,\* suspended tenants that an upgrade started again (history)
    trusts, users, faults, misreads

world == <<host, kube, tenant, job>>
counts == <<trusts, users, faults, misreads>>
history == <<ready, churned, restarted>>
sycoadmVars == <<host, kube, tenant, job, proc, ready, churned, restarted, trusts, users, faults, misreads>>

\* boot: the certificate in the auth config the apiserver was booted with; has:
\* what is installed; tls: Dex's Secret; layer: the release `sycophant`;
\* writer: the user bound to the role that writes tenant commands.
NoCluster == [boot |-> 0, has |-> {}, tls |-> 0, dex |-> [st |-> "none", cert |-> 0, user |-> 0],
              layer |-> [v |-> 0, ca |-> 0], writer |-> 0]
Parts == {"runsc", "runtimeclass", "cilium", "registry", "nodehosts", "crds", "kyverno",
          "objectstore", "bucket"}
NoTenant == [st |-> "none", reap |-> FALSE, writer |-> 0, v |-> 0]
Idle == [pc |-> "idle", cmd |-> "none", v |-> 0, dex |-> FALSE, login |-> FALSE, key |-> 0,
         id |-> 0, plan |-> {}, t |-> Nobody, keep |-> FALSE]

SycoadmInit ==
    /\ host = IF Older THEN [auth |-> 1, ca |-> 1, email |-> TRUE]
              ELSE [auth |-> 0, ca |-> 0, email |-> FALSE]
    /\ kube = IF Older
              THEN [boot |-> 1, has |-> Parts, tls |-> 1,
                    dex |-> [st |-> "serving", cert |-> 1, user |-> 1],
                    layer |-> [v |-> 1, ca |-> 1], writer |-> 1]
              ELSE NoCluster
    /\ tenant = [t \in Tenants |-> NoTenant]
    /\ job = [t \in Tenants |-> "none"]
    /\ proc = Idle
    /\ ready = Older /\ churned = FALSE /\ restarted = {}
    /\ trusts = (IF Older THEN 1 ELSE 0) /\ users = trusts
    /\ faults = 0 /\ misreads = 0

----------------------------------------------------------------------------
(* What every command is made of. *)

At(pc) == proc.pc = pc
Goto(pc) == proc' = [proc EXCEPT !.pc = pc]
\* The command returns, Ok or Err.
Exit == proc' = Idle

\* run_silent and unwrap_or_default: a probe whose command fails says "absent".
Probe(truth, seen) ==
    /\ \A x \in DOMAIN truth : seen[x] => truth[x]
    /\ misreads' = misreads + Cardinality({x \in DOMAIN truth : truth[x] /\ ~seen[x]})
    /\ misreads' <= MaxMisreads

\* run_passthrough, run_output or run_stdin returns Err, or Ctrl-C: the command
\* ends where it stands.
Fails ==
    /\ ~At("idle")
    /\ faults < MaxFaults /\ faults' = faults + 1
    /\ Exit
    /\ UNCHANGED <<world, history, trusts, users, misreads>>

\* A step that only installs a part.
Installs(from, part, to) ==
    /\ At(from)
    /\ kube' = [kube EXCEPT !.has = @ \cup {part}]
    /\ Goto(to)
    /\ UNCHANGED <<host, tenant, job, history, counts>>

----------------------------------------------------------------------------
(* setup *)

\* run: what is missing is asked up front.
StartSetup(v) ==
    /\ At("idle")
    /\ \E dex, writer \in BOOLEAN :
         /\ Probe([dex |-> kube.dex.st # "none", writer |-> kube.writer # 0],
                  [dex |-> dex, writer |-> writer])
         /\ proc' = [Idle EXCEPT !.pc = "cluster", !.cmd = "setup", !.v = v, !.dex = ~dex,
                                 !.login = ~dex \/ ~writer \/ SelfService]
    /\ UNCHANGED <<world, history, trusts, users, faults>>

\* ensure_cluster: a cluster that is there needs its auth config on the host.
EnsureCluster ==
    /\ At("cluster")
    /\ \E there \in BOOLEAN :
         /\ Probe([there |-> kube.boot # 0], [there |-> there])
         /\ CASE ~there -> Goto("trust")
              [] there /\ host.auth # 0 -> Goto("gvisor")
              [] there /\ host.auth = 0 -> Exit
    /\ UNCHANGED <<world, history, trusts, users, faults>>

\* generate_trust wipes the directory and writes a new certificate, then the
\* auth config that trusts it; the key stays in memory.
GenerateTrust ==
    /\ At("trust")
    /\ trusts < MaxTrusts /\ trusts' = trusts + 1
    /\ host' = [auth |-> trusts', ca |-> trusts', email |-> FALSE]
    /\ proc' = [proc EXCEPT !.pc = "create", !.key = trusts']
    /\ UNCHANGED <<kube, tenant, job, history, users, faults, misreads>>

\* It is cut short: the directory is empty or holds only the certificate.
GenerateTrustCut ==
    /\ At("trust")
    /\ faults < MaxFaults /\ faults' = faults + 1
    /\ \/ host' = [auth |-> 0, ca |-> 0, email |-> FALSE] /\ UNCHANGED trusts
       \/ /\ trusts < MaxTrusts /\ trusts' = trusts + 1
          /\ host' = [auth |-> 0, ca |-> trusts', email |-> FALSE]
    /\ Exit
    /\ UNCHANGED <<kube, tenant, job, history, users, misreads>>

\* `k3d cluster create`, which refuses a name that is taken.
CreateCluster ==
    /\ At("create")
    /\ \/ /\ kube.boot = 0
          /\ kube' = [NoCluster EXCEPT !.boot = host.auth, !.has = {"nodehosts"}]
          /\ Goto("tls")
       \/ kube.boot # 0 /\ Exit /\ UNCHANGED kube
    /\ UNCHANGED <<host, tenant, job, history, counts>>

UploadTls ==
    /\ At("tls")
    /\ kube' = [kube EXCEPT !.tls = proc.key]
    /\ Goto("gvisor")
    /\ UNCHANGED <<host, tenant, job, history, counts>>

\* install_gvisor is skipped when both its ends are there.
CheckGvisor ==
    /\ At("gvisor")
    /\ \E runsc, class \in BOOLEAN :
         /\ Probe([runsc |-> "runsc" \in kube.has, class |-> "runtimeclass" \in kube.has],
                  [runsc |-> runsc, class |-> class])
         /\ Goto(IF runsc /\ class THEN "cilium" ELSE "runsc")
    /\ UNCHANGED <<world, history, trusts, users, faults>>

CopyRunsc == Installs("runsc", "runsc", "hup")

\* k3s is signalled, and its CRI socket goes for a while.
SignalNode ==
    /\ At("hup")
    /\ churned' = (churned \/ "cilium" \in kube.has)
    /\ Goto("class")
    /\ UNCHANGED <<world, ready, restarted, counts>>

InstallGvisorChart == Installs("class", "runtimeclass", "cilium")

InstallCilium == Installs("cilium", "cilium", "coredns")

\* patch_coredns_registry replaces NodeHosts by what it read and the registry's
\* line; without the registry's address it only warns.
PatchCoredns ==
    /\ At("coredns")
    /\ \E ip, read \in BOOLEAN :
         /\ Probe([ip |-> TRUE, read |-> TRUE], [ip |-> ip, read |-> read])
         /\ kube' = [kube EXCEPT !.has =
                       CASE ~ip -> @
                         [] ip /\ read -> @ \cup {"registry"}
                         [] ip /\ ~read -> (@ \ {"nodehosts"}) \cup {"registry"}]
    /\ Goto("crds")
    /\ UNCHANGED <<host, tenant, job, history, trusts, users, faults>>

InstallKyvernoCrds == Installs("crds", "crds", "kyverno")
InstallKyverno == Installs("kyverno", "kyverno", "operator")

\* install_operator, if Dex, the binding or a self-service layer asks for it.
InstallOperator ==
    /\ At("operator")
    /\ CASE ~proc.login -> Goto("layer")
         [] proc.login /\ ~proc.dex -> Goto("login")
         [] proc.login /\ proc.dex /\ kube.tls # 0 -> Goto("dex")
         [] proc.login /\ proc.dex /\ kube.tls = 0 -> Exit
    /\ UNCHANGED <<world, history, counts>>

\* install_dex: the one user gets a new id.
InstallDex ==
    /\ At("dex")
    /\ users < MaxTrusts /\ users' = users + 1
    /\ kube' = [kube EXCEPT !.dex = [st |-> "serving", cert |-> kube.tls, user |-> users']]
    /\ Goto("email")
    /\ UNCHANGED <<host, tenant, job, history, trusts, faults, misreads>>

\* helm has recorded the release and gives up waiting, or is interrupted.
InstallDexCut ==
    /\ At("dex")
    /\ faults < MaxFaults /\ faults' = faults + 1
    /\ users < MaxTrusts /\ users' = users + 1
    /\ kube' = [kube EXCEPT !.dex = [st |-> "recorded", cert |-> kube.tls, user |-> users']]
    /\ Exit
    /\ UNCHANGED <<host, tenant, job, history, trusts, misreads>>

\* The pods that helm did not wait for start after all.
DexComesUp ==
    /\ kube.dex.st = "recorded"
    /\ kube' = [kube EXCEPT !.dex.st = "serving"]
    /\ UNCHANGED <<host, tenant, job, proc, history, counts>>

SaveEmail ==
    /\ At("email")
    /\ host' = [host EXCEPT !.email = TRUE]
    /\ Goto("login")
    /\ UNCHANGED <<kube, tenant, job, history, counts>>

\* Operator::with_password reads issuer and CA from the release `sycophant`;
\* the token needs a Dex that serves that CA's certificate, and whoami an
\* apiserver that was booted with it.
LoginWorks ==
    /\ kube.layer.v # 0
    /\ kube.dex.st = "serving"
    /\ kube.dex.cert = kube.layer.ca
    /\ kube.dex.cert = kube.boot

\* What the command does as the operator.
AfterLogin == CASE proc.cmd = "setup" -> "grant"
                [] proc.cmd \in {"upgrade", "up"} -> "write"
                [] proc.cmd \in {"down", "remove"} -> "granttenant"

Login ==
    /\ At("login")
    /\ IF LoginWorks THEN proc' = [proc EXCEPT !.pc = AfterLogin, !.id = kube.dex.user] ELSE Exit
    /\ UNCHANGED <<world, history, counts>>

\* grant_command_writer in sycophant-system.
GrantSystem ==
    /\ At("grant")
    /\ kube' = [kube EXCEPT !.writer = proc.id]
    /\ Goto("layer")
    /\ UNCHANGED <<host, tenant, job, history, counts>>

\* install_cluster_layer, with the CA file on the host.
InstallClusterLayer ==
    /\ At("layer")
    /\ IF host.ca # 0
       THEN kube' = [kube EXCEPT !.layer = [v |-> proc.v, ca |-> host.ca]] /\ Goto("store")
       ELSE Exit /\ UNCHANGED kube
    /\ UNCHANGED <<host, tenant, job, history, counts>>

InstallObjectstore == Installs("store", "objectstore", "bucket")

CreateBucket ==
    /\ At("bucket")
    /\ kube' = [kube EXCEPT !.has = @ \cup {"bucket"}]
    /\ ready' = TRUE
    /\ Exit
    /\ UNCHANGED <<host, tenant, job, churned, restarted, counts>>

\* destroy, which leaves the config root.
Destroy ==
    /\ At("idle")
    /\ kube.boot # 0
    /\ kube' = NoCluster
    /\ tenant' = [t \in Tenants |-> NoTenant]
    /\ job' = [t \in Tenants |-> "none"]
    /\ ready' = FALSE
    /\ UNCHANGED <<host, proc, churned, restarted, counts>>

----------------------------------------------------------------------------
(* Tenants *)

\* upgrade's checks and its plan: a namespace that carries reap-after is
\* suspended, one without its quota stops the run.
StartUpgrade(v) ==
    LET there == {t \in Tenants : tenant[t].st # "none"}
        plan == {t \in there : ~tenant[t].reap}
    IN  /\ At("idle")
        /\ kube.layer.v \in 1..v
        /\ "kyverno" \in kube.has
        /\ \A t \in plan : tenant[t].st # "partial"
        /\ proc' = [Idle EXCEPT !.pc = "upgrade", !.cmd = "upgrade", !.v = v, !.plan = plan]
        /\ UNCHANGED <<world, history, counts>>

\* The chart is upgraded with the values it has.
UpgradeLayer ==
    /\ At("upgrade")
    /\ kube' = [kube EXCEPT !.layer.v = proc.v]
    /\ IF proc.plan = {} THEN Exit ELSE Goto("login")
    /\ UNCHANGED <<host, tenant, job, history, counts>>

StartUp(t, v) ==
    /\ At("idle")
    /\ proc' = [Idle EXCEPT !.pc = "login", !.cmd = "up", !.v = v, !.plan = {t}]
    /\ UNCHANGED <<world, history, counts>>

\* down and remove look for the namespace; keep is whether the suspend command
\* carries a keepalive.
StartDown(t, cmd, keep) ==
    /\ At("idle")
    /\ cmd = "remove" => keep
    /\ \E there \in BOOLEAN :
         /\ Probe([ns |-> tenant[t].st # "none"], [ns |-> there])
         /\ there
    /\ proc' = [Idle EXCEPT !.pc = "login", !.cmd = cmd, !.t = t, !.keep = keep]
    /\ UNCHANGED <<world, history, trusts, users, faults>>

\* write: a leftover command is replaced; the policies make the namespace and
\* start the Job.  The operator's role must let it.
WriteProvision(t) ==
    /\ At("write")
    /\ t \in proc.plan
    /\ IF kube.writer = proc.id
       THEN /\ job' = [job EXCEPT ![t] = proc.cmd]
            /\ tenant' = [tenant EXCEPT ![t].st = IF @ = "none" THEN "partial" ELSE @]
            /\ proc' = [proc EXCEPT !.pc = "wait", !.plan = @ \ {t}, !.t = t]
       ELSE Exit /\ UNCHANGED <<job, tenant>>
    /\ UNCHANGED <<host, kube, history, counts>>

Running(t) == job[t] \in {"up", "upgrade"}

\* The installer: helm upgrade --install of the tenant chart, which brings a
\* suspended tenant's Deployments back.
JobSucceeds(t) ==
    /\ Running(t) /\ tenant[t].st # "none"
    /\ job' = [job EXCEPT ![t] = "done"]
    /\ tenant' = [tenant EXCEPT ![t].st = "up", ![t].v = kube.layer.v]
    /\ restarted' = IF tenant[t].st = "down" /\ job[t] = "upgrade" THEN restarted \cup {t}
                    ELSE restarted
    /\ UNCHANGED <<host, kube, proc, ready, churned, counts>>

JobFails(t) ==
    /\ Running(t)
    /\ \/ faults < MaxFaults /\ faults' = faults + 1
       \/ tenant[t].st = "none" /\ UNCHANGED faults
    /\ job' = [job EXCEPT ![t] = "failed"]
    /\ UNCHANGED <<host, kube, tenant, proc, history, trusts, users, misreads>>

\* wait_job, for 600 s; a failure ends the command, and an upgrade at its first.
WaitJob ==
    /\ At("wait")
    /\ IF job[proc.t] = "done" THEN Goto("granttenant") ELSE Exit
    /\ UNCHANGED <<world, history, counts>>

\* grant_command_writer in the tenant's namespace.
GrantTenant ==
    /\ At("granttenant")
    /\ tenant' = [tenant EXCEPT ![proc.t].writer = proc.id]
    /\ CASE proc.cmd \in {"down", "remove"} -> Goto("suspend")
         [] proc.cmd \in {"up", "upgrade"} /\ proc.plan # {} -> Goto("write")
         [] proc.cmd \in {"up", "upgrade"} /\ proc.plan = {} -> Exit
    /\ UNCHANGED <<host, kube, job, history, counts>>

\* suspend: the policies scale the Deployments to zero, and stamp reap-after if
\* the command carries a keepalive.
Suspend ==
    /\ At("suspend")
    /\ tenant' = [tenant EXCEPT ![proc.t].st = IF @ = "up" THEN "down" ELSE @,
                                ![proc.t].reap = @ \/ proc.keep]
    /\ Exit
    /\ UNCHANGED <<host, kube, job, history, counts>>

\* The sweep deletes a namespace whose time has come.
Reap(t) ==
    /\ tenant[t].reap
    /\ tenant' = [tenant EXCEPT ![t] = NoTenant]
    /\ UNCHANGED <<host, kube, job, proc, history, counts>>

----------------------------------------------------------------------------
SetupStep ==
    \/ EnsureCluster \/ GenerateTrust \/ CreateCluster \/ UploadTls \/ CheckGvisor \/ CopyRunsc
    \/ SignalNode \/ InstallGvisorChart \/ InstallCilium \/ PatchCoredns \/ InstallKyvernoCrds
    \/ InstallKyverno \/ InstallOperator \/ InstallDex \/ SaveEmail \/ Login \/ GrantSystem
    \/ InstallClusterLayer \/ InstallObjectstore \/ CreateBucket

TenantStep ==
    \/ UpgradeLayer \/ WaitJob \/ GrantTenant \/ Suspend
    \/ \E t \in Tenants : WriteProvision(t) \/ JobSucceeds(t)

Setup == "setup" \in Commands /\ \E v \in Versions : StartSetup(v)

Start ==
    \/ Setup
    \/ "destroy" \in Commands /\ Destroy
    \/ "upgrade" \in Commands /\ \E v \in Versions : StartUpgrade(v)
    \/ "up" \in Commands /\ \E t \in Tenants, v \in Versions : StartUp(t, v)
    \/ \E t \in Tenants, c \in Commands \cap {"down", "remove"}, keep \in BOOLEAN :
         StartDown(t, c, keep)

SycoadmNext ==
    \/ Start \/ SetupStep \/ TenantStep
    \/ Fails \/ GenerateTrustCut \/ InstallDexCut \/ DexComesUp
    \/ \E t \in Tenants : JobFails(t) \/ Reap(t)

SycoadmSpec == SycoadmInit /\ [][SycoadmNext]_sycoadmVars

\* The operator runs setup again when it has failed, external commands return,
\* and Dex's pods start.
FairSycoadmSpec ==
    SycoadmSpec /\ WF_sycoadmVars(Setup) /\ WF_sycoadmVars(SetupStep) /\ WF_sycoadmVars(DexComesUp)

----------------------------------------------------------------------------
\* setup.rs:131: "from nothing to a sycophant-ready cluster", "Idempotent": an
\* operator who runs setup until it succeeds has a cluster in the end, once
\* external commands stop failing.
FromNothingToReady == <>ready

\* As long as no probe has misread what is there: after a setup that returned Ok
\* the operator can log in and write commands, whatever other setups, upgrades,
\* failures and interrupts came after it.  Dex's certificate, the layer's CA and
\* the apiserver's trust stay the same one, and the binding stays Dex's user's
\* (ensure_cluster, install_dex, install_cluster_layer).
ReadyMeansLogin == ready /\ misreads = 0 => LoginWorks /\ kube.writer = kube.dex.user

\* As long as no probe has misread what is there, the node's k3s is not signalled
\* with Cilium on it, however often setup was interrupted (install_gvisor: "the
\* exact hazard the gVisor-before-Cilium ordering protects against").
NodeLeftAlone == misreads = 0 => ~churned

\* upgrade.rs:287: "A suspended tenant is never re-provisioned, which would
\* restart it before its reap".
SuspendedStays == restarted = {}
=============================================================================
