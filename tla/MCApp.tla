-------------------------------- MODULE MCApp --------------------------------
(* A small instance of App. *)
EXTENDS App, TLC

CONSTANTS p1, d1, d2, f1, f2, c1

MCReceivers == {"settings", "stacks", "artifacts"}

MCDefault ==
  [darkMode |-> FALSE, abiWatchPath |-> None, alchemyApiKey |-> None,
   etherscanApiKey |-> None, walletconnectProjectId |-> None,
   hideEmptyTokens |-> TRUE, autostart |-> FALSE, startMinimized |-> FALSE,
   fastMode |-> FALSE, rustLog |-> "warn", runLocalStacks |-> FALSE]

KeysForm  == "abiWatchPath" :> p1 @@ "alchemyApiKey" :> "key" @@
             "etherscanApiKey" :> "key" @@ "autostart" :> TRUE
BareForm  == "alchemyApiKey" :> "key" @@ "etherscanApiKey" :> "key"
PathForm  == "abiWatchPath" :> p1
ClearForm == "abiWatchPath" :> None
StackForm == "rustLog" :> "warn" @@ "runLocalStacks" :> TRUE

MCForms == {KeysForm, BareForm, PathForm, ClearForm, StackForm}

OldFile(v, done) == [DefaultSettings EXCEPT !.version = v, !.onboarded = done]

PathFile == [DefaultSettings EXCEPT !.fields = [@ EXCEPT !["abiWatchPath"] = p1]]

MCFirstFiles == {NoFile, OldFile(1, TRUE), PathFile}

(* Two projects under one path; only the first has a valid artifact. *)
MCProjectOf == f1 :> d1 @@ f2 :> d2
MCRootOf  == [d \in Projects |-> p1]
MCMatches == [c \in Contracts |-> Files]

Nothing ==
  [k \in {"All", "DarkMode", "FastMode", "RunLocalStacks", "Step", "Finish", "Alias",
          "CreateStack", "RemoveStack", "Shutdown", "WalletCreated", "PeerAdded",
          "builds", "contracts", "restarts", "disk", "docker", "lookup", "lag"} |-> 0]
  @@ "forms" :> MCForms @@ "failed" :> {}

(* Each behaviour has the inputs of one of these budgets: the way from the
   setting to the container, a bus that lags, stacks and their networks,
   shutdown, the settings and their file, the small commands, onboarding,
   the artifacts, the contracts they are for, *)
ForContainer ==
  [Nothing EXCEPT !["forms"] = {StackForm}, !["All"] = 1, !["RunLocalStacks"] = 1,
     !["docker"] = 1, !["restarts"] = 1]

ForLag == [Nothing EXCEPT !["RunLocalStacks"] = 2, !["lag"] = 1, !["restarts"] = 1]

ForStacks ==
  [Nothing EXCEPT !["RunLocalStacks"] = 1, !["CreateStack"] = 1, !["RemoveStack"] = 1,
     !["restarts"] = 1]

ForShutdown == [Nothing EXCEPT !["RunLocalStacks"] = 2, !["Shutdown"] = 1]

ForSettings ==
  [Nothing EXCEPT !["forms"] = {KeysForm}, !["All"] = 1, !["Alias"] = 1,
     !["disk"] = 1, !["restarts"] = 1]

ForCommands ==
  [Nothing EXCEPT !["DarkMode"] = 1, !["FastMode"] = 1, !["Step"] = 1, !["disk"] = 1]

ForOnboarding ==
  [Nothing EXCEPT !["forms"] = {KeysForm}, !["All"] = 1, !["Finish"] = 1,
     !["WalletCreated"] = 1, !["PeerAdded"] = 1]

ForArtifacts ==
  [Nothing EXCEPT !["forms"] = {PathForm, ClearForm}, !["All"] = 2,
     !["builds"] = 1, !["contracts"] = 1]

ForContracts ==
  [Nothing EXCEPT !["builds"] = 2, !["contracts"] = 1, !["lookup"] = 1,
     !["lag"] = 1]

(* and the settings actor waiting for itself beside each of the other two: the
   form's own first step and one more message fill the mailbox. *)
ForStacksWaiting ==
  [Nothing EXCEPT !["forms"] = {BareForm}, !["All"] = 1, !["RunLocalStacks"] = 2]

ForArtifactsWaiting ==
  [Nothing EXCEPT !["forms"] = {BareForm}, !["All"] = 1, !["builds"] = 1,
     !["contracts"] = 1]

WithStacks == {ForContainer, ForLag, ForStacks, ForShutdown, ForStacksWaiting}

WithPath == {ForContracts, ForArtifactsWaiting}

MCBudgets == WithStacks \cup WithPath
             \cup {ForSettings, ForCommands, ForOnboarding, ForArtifacts}

MCInit ==
  /\ Init
  /\ left \in WithStacks <=> engine # "none"
  /\ left \in {ForLag, ForStacksWaiting} => engine = "docker"
  /\ left \in WithPath <=> file = PathFile
  /\ left # ForSettings => file # OldFile(1, TRUE)
  /\ port = 3000

MCSpec == MCInit /\ [][Next]_vars /\ Fairness
==============================================================================
