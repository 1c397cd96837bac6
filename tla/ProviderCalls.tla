--------------------------- MODULE ProviderCalls ---------------------------
(***************************************************************************)
(* What create_vm and delete_vm of each provider (src/providers) ask of    *)
(* the provider's API, call by call and in the code's order, and what each *)
(* call of the API clients means to them.  Module ProviderVM runs them.    *)
(*                                                                         *)
(* A provider holds for a VM: its server, the SSH key made for it, and the *)
(* files of its sandbox on this machine; a server that has no name yet is  *)
(* an artifact of its own, "unnamed".                                      *)
(*                                                                         *)
(* A definition whose comment says "Mutation" is no part of the system.    *)
(***************************************************************************)
EXTENDS Integers, Sequences

\* missing: what the call answers when what it is about is not there, "ok", "error", or
\* "gone", a ProviderNotFoundError that ends the program.  A call that is forgiven does not
\* raise.
Call(does, missing) == [does |-> does, missing |-> missing, forgiven |-> FALSE]

\* contextlib.suppress
Forgiven(call) == [call EXCEPT !.missing = "ok", !.forgiven = TRUE]

\* One call of create_vm, and what it does before it raises when that call has failed.
Step(call, undo) == [call |-> call, undo |-> undo]

\* What each client makes of an answer that something is not there: an error like others at
\* Hetzner and Exoscale, unless the call expects it; ProviderNotFoundError at most others.
\* The worker answers a DELETE of any name "deleted".
HetznerNotThere == "error"
ExoscaleNotThere == "error"
SbxNotThere == "error"
BoatNotThere == "gone"
VercelNotThere == "gone"
DaytonaNotThere == "gone"
E2bNotThere == "gone"
CloudflareNotThere == "ok"
ExeNotThere == "gone"

-----------------------------------------------------------------------------
(* AWS, in public and on the tailnet.                                      *)

AwsResolveImage == Call("check", "ok")
AwsImportKeyPair == Call("putKey", "ok")
AwsGroup == Call("check", "ok")            \* module ManagedGroup
AwsRunInstance == Call("putServer", "ok")
AwsWaitForRunning == Call("await", "error")
AwsFindInstance == Call("find", "gone")
AwsTerminate == Call("dropServer", "gone")

\* It logs a failure.
AwsDeleteKeyPair == Forgiven(Call("dropKey", "ok"))

\* Mutation: the key pair stays when the group cannot be had.
AwsCreateKeepsKey ==
    << Step(AwsResolveImage, <<>>), Step(AwsImportKeyPair, <<>>), Step(AwsGroup, <<>>),
       Step(AwsRunInstance, <<AwsDeleteKeyPair>>), Step(AwsWaitForRunning, <<>>) >>

AwsCreate ==
    << Step(AwsResolveImage, <<>>), Step(AwsImportKeyPair, <<>>),
       Step(AwsGroup, <<AwsDeleteKeyPair>>), Step(AwsRunInstance, <<AwsDeleteKeyPair>>),
       Step(AwsWaitForRunning, <<>>) >>

AwsTailnetCreate == << Step(AwsResolveImage, <<>>), Step(AwsRunInstance, <<>>) >>

AwsDelete == << AwsFindInstance, AwsTerminate, AwsDeleteKeyPair >>

-----------------------------------------------------------------------------
(* Hetzner and Exoscale.                                                   *)

\* A key of that name is used as it is.
HetznerEnsureKey == Call("putKey", "ok")
HetznerCreateServer == Call("putServer", "ok")
HetznerWaitForRunning == Call("await", HetznerNotThere)
HetznerFindServer == Call("find", "gone")
HetznerDeleteServer == Call("dropServer", "ok")

HetznerDeleteKey == Call("dropKey", "ok")

HetznerCreate ==
    << Step(HetznerEnsureKey, <<>>), Step(HetznerCreateServer, <<HetznerDeleteKey>>),
       Step(HetznerWaitForRunning, <<>>) >>

\* Mutation: the server is looked for first.
HetznerDeleteServerFirst == << HetznerFindServer, HetznerDeleteServer, HetznerDeleteKey >>

HetznerDelete == << HetznerDeleteKey, HetznerFindServer, HetznerDeleteServer >>

ExoscaleEnsureKey == Call("putKey", "ok")
ExoscaleResolveNames == Call("check", "ok")
ExoscaleCreateInstance == Call("putServer", "ok")
ExoscaleWaitForRunning == Call("await", ExoscaleNotThere)
ExoscaleDeleteKey == Call("dropKey", "ok")
ExoscaleFindInstance == Call("find", "gone")
ExoscaleDeleteInstance == Call("dropServer", "ok")

ExoscaleCreate ==
    << Step(ExoscaleEnsureKey, <<>>), Step(ExoscaleResolveNames, <<ExoscaleDeleteKey>>),
       Step(ExoscaleCreateInstance, <<ExoscaleDeleteKey>>), Step(ExoscaleWaitForRunning, <<>>) >>

ExoscaleDelete == << ExoscaleDeleteKey, ExoscaleFindInstance, ExoscaleDeleteInstance >>

-----------------------------------------------------------------------------
(* docker-sbx and Docker, on this machine.                                 *)

SbxWorkspace == Call("putFiles", "ok")
SbxCreateSandbox == Call("putServer", "ok")
SbxBootstrap == Call("await", SbxNotThere)

\* delete_vm takes a missing sandbox for a removed one and goes on with its files.
SbxRemove == Call("dropServer", "ok")

\* "An error here must not block the host deletion."
SbxRemoveFiles == Forgiven(Call("dropFiles", "ok"))

SbxCreate ==
    LET undo == << Forgiven(SbxRemove), SbxRemoveFiles >> IN
    << Step(SbxWorkspace, <<>>), Step(SbxCreateSandbox, undo), Step(SbxBootstrap, undo) >>

SbxDelete == << SbxRemove, SbxRemoveFiles >>

DockerRunContainer == Call("putServer", "ok")
DockerPublishedPort == Call("await", "error")
DockerRemoveContainer == Call("dropServer", "gone")

DockerCreate ==
    << Step(DockerRunContainer, <<>>), Step(DockerPublishedPort, <<Forgiven(DockerRemoveContainer)>>) >>

DockerDelete == << DockerRemoveContainer >>

-----------------------------------------------------------------------------
(* Hosted sandboxes.                                                       *)

\* The sandbox gets its name in a call of its own; a create is tried again with its
\* Idempotency-Key, and so makes one.
BoatCreateSandbox == Call("putUnnamed", "ok")
BoatNameSandbox == Call("name", BoatNotThere)
BoatWaitReady == Call("await", BoatNotThere)
BoatRunCommand == Call("await", BoatNotThere)
BoatConfigureSsh == Call("await", BoatNotThere)
BoatFindSandbox == Call("find", "gone")
BoatDeleteSandbox == Call("dropById", BoatNotThere)

BoatCreate ==
    LET undo == <<Forgiven(BoatDeleteSandbox)>> IN
    << Step(BoatCreateSandbox, <<>>), Step(BoatNameSandbox, undo), Step(BoatWaitReady, undo),
       Step(BoatRunCommand, undo), Step(BoatConfigureSsh, undo) >>

BoatDelete == << BoatFindSandbox, BoatDeleteSandbox >>

VercelCreateSandbox == Call("putServer", "ok")
VercelBootstrap == Call("await", VercelNotThere)
VercelDeleteSandbox == Call("dropServer", VercelNotThere)

VercelCreate == << Step(VercelCreateSandbox, <<>>), Step(VercelBootstrap, <<>>) >>

VercelDelete == << VercelDeleteSandbox >>

DaytonaCheckSnapshot == Call("check", "ok")
DaytonaCreateSandbox == Call("putServer", "ok")
DaytonaWaitForStarted == Call("await", DaytonaNotThere)
DaytonaBootstrap == Call("await", DaytonaNotThere)

DaytonaCreate ==
    << Step(DaytonaCheckSnapshot, <<>>), Step(DaytonaCreateSandbox, <<>>),
       Step(DaytonaWaitForStarted, <<>>), Step(DaytonaBootstrap, <<>>) >>

\* delete_sandbox looks the sandbox up, asks for its deletion and waits for it.
DaytonaDelete ==
    << Call("find", DaytonaNotThere), Call("askDrop", DaytonaNotThere), Call("awaitGone", "ok") >>

E2bCreateSandbox == Call("putServer", "ok")
E2bBootstrap == Call("await", E2bNotThere)

E2bCreate == << Step(E2bCreateSandbox, <<>>), Step(E2bBootstrap, <<>>) >>

\* kill() answers False for a sandbox that has gone since.
E2bDelete == << Call("find", E2bNotThere), Call("dropServer", "ok") >>

CloudflareCreateSandbox == Call("putServer", "ok")
CloudflareDeleteSandbox == Call("dropServer", CloudflareNotThere)    \* module CloudflareWorker

CloudflareCreate == << Step(CloudflareCreateSandbox, <<>>) >>

CloudflareDelete == << CloudflareDeleteSandbox >>

ExeCreateVM == Call("putServer", "ok")
ExeDeleteVM == Call("dropServer", ExeNotThere)

ExeCreate == << Step(ExeCreateVM, <<>>) >>

ExeDelete == << ExeDeleteVM >>

-----------------------------------------------------------------------------
Kind == {"aws", "awsTailnet", "hetzner", "exoscale", "docker-sbx", "docker", "boat", "vercel",
         "daytona", "e2b", "cloudflare", "exe"}

CreateOf(kind) ==
    CASE kind = "aws" -> AwsCreate
      [] kind = "awsTailnet" -> AwsTailnetCreate
      [] kind = "hetzner" -> HetznerCreate
      [] kind = "exoscale" -> ExoscaleCreate
      [] kind = "docker-sbx" -> SbxCreate
      [] kind = "docker" -> DockerCreate
      [] kind = "boat" -> BoatCreate
      [] kind = "vercel" -> VercelCreate
      [] kind = "daytona" -> DaytonaCreate
      [] kind = "e2b" -> E2bCreate
      [] kind = "cloudflare" -> CloudflareCreate
      [] kind = "exe" -> ExeCreate

DeleteOf(kind) ==
    CASE kind \in {"aws", "awsTailnet"} -> AwsDelete
      [] kind = "hetzner" -> HetznerDelete
      [] kind = "exoscale" -> ExoscaleDelete
      [] kind = "docker-sbx" -> SbxDelete
      [] kind = "docker" -> DockerDelete
      [] kind = "boat" -> BoatDelete
      [] kind = "vercel" -> VercelDelete
      [] kind = "daytona" -> DaytonaDelete
      [] kind = "e2b" -> E2bDelete
      [] kind = "cloudflare" -> CloudflareDelete
      [] kind = "exe" -> ExeDelete

=============================================================================
