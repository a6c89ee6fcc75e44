------------------------------ MODULE StoreSwap ------------------------------
(***************************************************************************)
(* The phone's weekly store update: StoreHost (Refresh.swift), an actor    *)
(* that owns the open connection and swaps the file under it, and the part *)
(* of TodayModel that holds that connection, loads from it and answers the *)
(* reader's questions with it (load, refresh, checkForUpdates).  Both are  *)
(* reentrant: other tasks run at every await, and each await below is a    *)
(* place of its own.                                                       *)
(*                                                                         *)
(* An open connection keeps reading the file it was opened on, whatever    *)
(* replaces that file on disk.  A connection is told apart from another by *)
(* that file and by whether it is the one the host remembers: the host can *)
(* close only that one.                                                    *)
(***************************************************************************)
EXTENDS Integers

CONSTANTS
  MaxBuild,      \* bound: builds the publisher publishes
  MaxRelaunches, \* bound: times the process dies and starts again
  DiskAtStart,   \* the files an earlier process may have left installed
  UploadKinds    \* what the publisher may publish

Kind == {"none", "good", "foreign", "junk"}
File == [build : 0..MaxBuild, kind : Kind]
NoFile == [build |-> 0, kind |-> "none"]

(* The store shipped in the app: always present, always readable.          *)
Bundled == [build |-> 1, kind |-> "good"]

ASSUME SwapAssumption ==
  /\ MaxBuild \in Nat \ {0}
  /\ MaxRelaunches \in Nat
  /\ DiskAtStart \subseteq File
  /\ UploadKinds \subseteq {"good", "foreign", "junk"}

(* A reference to a connection: StoreHost.opened and whatever shares it    *)
(* ("host"), an open one the host does not remember ("stray"), a closed    *)
(* one, or none.                                                           *)
Conn == [file : File, is : {"none", "host", "stray", "closed"}]
NoConn == [file |-> NoFile, is |-> "none"]
IsOpen(c) == c.is \in {"host", "stray"}

Task == {"launch", "check", "reader"}

VARIABLES
  disk,       \* the installed file, Application Support
  published,  \* the store the manifest names now
  online,     \* whether a fetch would succeed now
  opened,     \* StoreHost.opened
  model,      \* TodayModel.store
  known,      \* TodayModel.metadata has been read
  pc,         \* [Task -> where it is suspended]
  conn,       \* [Task -> the connection it holds]
  answer,     \* [Task -> what store.answer gave it]
  current,    \* the task of the newest `generation`
  screen,     \* TodayModel.state, with the build last shown
  manifest,   \* the build the running check's manifest names
  staged,     \* the file it has downloaded
  swapped,    \* it has put that file in place
  due,        \* an hour has passed since the last attempt
  torn,       \* observer: this process exchanged the file over a launch still
              \* opening its store, or an exchange threw
  relaunches

hostVars == <<disk, opened>>
modelVars == <<model, known, current, screen>>
taskVars == <<pc, conn, answer>>
checkVars == <<manifest, staged, swapped>>
world == <<published, online, due, relaunches, torn>>
vars == <<hostVars, modelVars, taskVars, checkVars, world>>

NoAnswer == [kind |-> "none", build |-> 0]

Place == {"idle", "opening", "adopting", "opened", "reading", "asking", "answered",
          "manifest", "payload", "validating", "closing", "swapping", "installed"}

TypeOK ==
  /\ disk \in File /\ published \in File /\ staged \in File
  /\ online \in BOOLEAN /\ known \in BOOLEAN /\ swapped \in BOOLEAN /\ due \in BOOLEAN
  /\ torn \in BOOLEAN
  /\ opened \in Conn /\ opened.is # "stray" /\ model \in Conn
  /\ pc \in [Task -> Place]
  /\ conn \in [Task -> Conn]
  /\ answer \in [Task -> [kind : {"none", "rows", "closed"}, build : 0..MaxBuild]]
  /\ current \in Task \cup {"none"}
  /\ screen \in [kind : {"loading", "ready", "failed"}, build : 0..MaxBuild]
  /\ manifest \in 0..MaxBuild
  /\ relaunches \in 0..MaxRelaunches

(* A process that has just started holds nothing but its launch task.      *)
NoHolds == [t \in Task |-> NoConn]
NoAnswers == [t \in Task |-> NoAnswer]
Launching == [launch |-> "opening", check |-> "idle", reader |-> "idle"]
LoadingScreen == [kind |-> "loading", build |-> 0]

Init ==
  /\ disk \in DiskAtStart
  /\ opened = NoConn
  /\ model = NoConn
  /\ known = FALSE
  /\ pc = Launching
  /\ conn = NoHolds
  /\ answer = NoAnswers
  /\ current = "none"
  /\ screen = LoadingScreen
  /\ manifest = 0
  /\ staged = NoFile
  /\ swapped = FALSE
  /\ due = TRUE
  /\ published \in [build : {1}, kind : UploadKinds]
  /\ online = TRUE
  /\ torn = FALSE
  /\ relaunches = 0

------------------------------------------------------------------------------
(* The world                                                               *)

Publish(kind) ==
  /\ published.build < MaxBuild
  /\ published' = [build |-> published.build + 1, kind |-> kind]
  /\ UNCHANGED <<hostVars, modelVars, taskVars, checkVars, online, due, relaunches, torn>>

Coverage ==
  /\ pc["check"] \in {"idle", "manifest", "payload"}
  /\ online' = ~online
  /\ UNCHANGED <<hostVars, modelVars, taskVars, checkVars, published, due, relaunches, torn>>

(* An hour that passes during a check counts from the check's end.         *)
HourPasses ==
  /\ ~due
  /\ pc["check"] = "idle"
  /\ due' = TRUE
  /\ UNCHANGED <<hostVars, modelVars, taskVars, checkVars, published, online, relaunches, torn>>

Relaunch ==
  /\ relaunches < MaxRelaunches
  /\ relaunches' = relaunches + 1
  /\ opened' = NoConn
  /\ model' = NoConn
  /\ known' = FALSE
  /\ pc' = Launching
  /\ conn' = NoHolds
  /\ answer' = NoAnswers
  /\ current' = "none"
  /\ screen' = LoadingScreen
  /\ manifest' = 0
  /\ staged' = NoFile
  /\ swapped' = FALSE
  /\ due' = TRUE
  /\ torn' = FALSE
  /\ UNCHANGED <<disk, published, online>>

------------------------------------------------------------------------------
(* StoreHost.store(): the connection in use, else the installed file if    *)
(* this binary can read it, else the bundled floor.                        *)

At(t, place) == pc' = [pc EXCEPT ![t] = place]

(* What the host does not remember any longer stays open where it is held. *)
Disowned(c) == IF c.is = "host" THEN [c EXCEPT !.is = "stray"] ELSE c

(* `opened = ...; return opened`: whatever the host remembered before.     *)
Remember(t, file) ==
  /\ opened' = [file |-> file, is |-> "host"]
  /\ model' = Disowned(model)
  /\ conn' = [u \in Task |-> IF u = t THEN opened' ELSE Disowned(conn[u])]
  /\ At(t, "opened")
  /\ UNCHANGED <<disk, known, current, screen, answer, checkVars, world>>

(* `opened = nil`                                                          *)
Forget ==
  /\ opened' = NoConn
  /\ model' = Disowned(model)
  /\ conn' = [u \in Task |-> Disowned(conn[u])]

HostHasOne(t) ==
  /\ pc[t] = "opening"
  /\ opened # NoConn
  /\ conn' = [conn EXCEPT ![t] = opened]
  /\ At(t, "opened")
  /\ UNCHANGED <<hostVars, modelVars, answer, checkVars, world>>

HostOpensBundled(t) ==
  /\ pc[t] = "opening"
  /\ opened = NoConn
  /\ disk.kind = "none"
  /\ Remember(t, Bundled)

(* adoptable() opens the file, and suspends to read its meta.              *)
HostTriesInstalled(t) ==
  /\ pc[t] = "opening"
  /\ opened = NoConn
  /\ disk.kind # "none"
  /\ conn' = [conn EXCEPT ![t] = [file |-> disk, is |-> "stray"]]
  /\ At(t, "adopting")
  /\ UNCHANGED <<hostVars, modelVars, answer, checkVars, world>>

HostAdopts(t) ==
  /\ pc[t] = "adopting"
  /\ conn[t].file.kind = "good"
  /\ Remember(t, conn[t].file)

HostFallsBack(t) ==
  /\ pc[t] = "adopting"
  /\ conn[t].file.kind # "good"
  /\ Remember(t, Bundled)

------------------------------------------------------------------------------
(* TodayModel.load and refresh                                             *)

Loading(t) == t = "launch" \/ (t = "check" /\ swapped)

Done(t) ==
  /\ At(t, "idle")
  /\ answer' = [answer EXCEPT ![t] = NoAnswer]
  /\ swapped' = IF t = "check" THEN FALSE ELSE swapped
  /\ manifest' = IF t = "check" THEN 0 ELSE manifest
  /\ staged' = IF t = "check" THEN NoFile ELSE staged

Finish(t) == Done(t) /\ conn' = [conn EXCEPT ![t] = NoConn]

LoadTakes(t) ==
  /\ pc[t] = "opened"
  /\ Loading(t)
  /\ model' = conn[t]
  /\ At(t, "reading")
  /\ UNCHANGED <<hostVars, known, current, screen, conn, answer, checkVars, world>>

(* metadata() and pools(), two reads of one connection, and then the       *)
(* model's own refresh, which takes TodayModel.store as it is by now.      *)
LoadReads(t) ==
  /\ pc[t] = "reading"
  /\ IsOpen(conn[t])
  /\ known' = TRUE
  /\ IF model = NoConn
       THEN Finish(t) /\ UNCHANGED current
       ELSE /\ conn' = [conn EXCEPT ![t] = model]
            /\ current' = t
            /\ At(t, "asking")
            /\ UNCHANGED <<answer, checkVars>>
  /\ UNCHANGED <<hostVars, model, screen, world>>

LoadFails(t) ==
  /\ pc[t] = "reading"
  /\ ~IsOpen(conn[t])
  /\ screen' = [screen EXCEPT !.kind = "failed"]
  /\ Finish(t)
  /\ UNCHANGED <<hostVars, model, known, current, world>>

(* A filter change: the question in flight, if any, is superseded.         *)
ReaderAsks ==
  /\ model # NoConn /\ known
  /\ conn' = [conn EXCEPT !["reader"] = model]
  /\ answer' = [answer EXCEPT !["reader"] = NoAnswer]
  /\ current' = "reader"
  /\ At("reader", "asking")
  /\ UNCHANGED <<hostVars, model, known, screen, checkVars, world>>

StoreAnswers(t) ==
  /\ pc[t] = "asking"
  /\ answer' = [answer EXCEPT ![t] =
       IF IsOpen(conn[t]) THEN [kind |-> "rows", build |-> conn[t].file.build]
       ELSE [kind |-> "closed", build |-> 0]]
  /\ At(t, "answered")
  /\ UNCHANGED <<hostVars, modelVars, conn, checkVars, world>>

(* Mutants of ShowRows: a late answer is shown; any answer is shown as is. *)
ShowRowsLate(t) ==
  screen' = IF answer[t].kind = "rows" THEN [kind |-> "ready", build |-> answer[t].build]
            ELSE [screen EXCEPT !.kind = "failed"]

ShowRowsRaw(t) == IF current # t THEN UNCHANGED screen ELSE screen' = answer[t]

(* `guard mine == generation`: an answer that is no longer current is      *)
(* dropped, the reader's own and an error included.                        *)
ShowRows(t) ==
  IF current # t THEN UNCHANGED screen
  ELSE screen' = IF answer[t].kind = "rows" THEN [kind |-> "ready", build |-> answer[t].build]
                 ELSE [screen EXCEPT !.kind = "failed"]

Show(t) ==
  /\ pc[t] = "answered"
  /\ ShowRows(t)
  /\ Finish(t)
  /\ UNCHANGED <<hostVars, model, known, current, world>>

------------------------------------------------------------------------------
(* TodayModel.checkForUpdates over StoreHost.refresh and install           *)

(* Mutant of StartCheck: the throttle the wrong way round.                 *)
StartCheckThrottled(pulled) ==
  /\ pc["check"] = "idle"
  /\ pulled \/ ~due
  /\ due' = FALSE
  /\ At("check", "manifest")
  /\ UNCHANGED <<hostVars, modelVars, conn, answer, checkVars, published, online, relaunches, torn>>

(* The hourly check on coming to the foreground, or the reader's pull; one *)
(* at a time (isChecking).                                                 *)
StartCheck(pulled) ==
  /\ pc["check"] = "idle"
  /\ pulled \/ due
  /\ due' = FALSE
  /\ At("check", "manifest")
  /\ UNCHANGED <<hostVars, modelVars, conn, answer, checkVars, published, online, relaunches, torn>>

Skip == Finish("check") /\ UNCHANGED <<hostVars, modelVars, world>>

ManifestArrives ==
  /\ pc["check"] = "manifest"
  /\ online
  /\ manifest' = IF published.kind = "foreign" THEN 0 ELSE published.build
  /\ At("check", "opening")
  /\ UNCHANGED <<hostVars, modelVars, conn, answer, staged, swapped, world>>

FetchFails ==
  /\ pc["check"] \in {"manifest", "payload"}
  /\ ~online
  /\ Skip

(* refreshDecision.  A manifest of another schema (0 here) and one that is *)
(* not newer than the store in use are both skipped.                       *)
WorthInstalling(current_file) == manifest > current_file.build

Decide ==
  /\ pc["check"] = "opened"
  /\ ~swapped
  /\ IF IsOpen(conn["check"]) /\ WorthInstalling(conn["check"].file)
       THEN /\ At("check", "payload")
            /\ conn' = [conn EXCEPT !["check"] = NoConn]
            /\ UNCHANGED <<hostVars, modelVars, answer, checkVars, world>>
       ELSE Skip

PayloadArrives ==
  /\ pc["check"] = "payload"
  /\ online
  /\ staged' = published
  /\ At("check", "validating")
  /\ UNCHANGED <<hostVars, modelVars, conn, answer, manifest, swapped, world>>

(* Mutant of Valid: the hash is right, so nothing is opened.               *)
ValidUnopened(file) == file.build = manifest

(* DownloadedStore.validate: the bytes the manifest hashed, readable, of   *)
(* this schema.  Its own connection is opened and closed inside.           *)
Valid(file) == file.build = manifest /\ file.kind = "good"

Validate ==
  /\ pc["check"] = "validating"
  /\ IF Valid(staged)
       THEN At("check", "closing") /\ UNCHANGED <<hostVars, modelVars, conn, answer, checkVars, world>>
       ELSE Skip

(* `await opened?.close()`: the one connection the host remembers.         *)
Closed(c) == IF c.is = "host" THEN [c EXCEPT !.is = "closed"] ELSE c

LaunchHasRead == pc["launch"] \in {"asking", "answered", "idle"}

CloseOld ==
  /\ pc["check"] = "closing"
  /\ opened' = Closed(opened)
  /\ model' = Closed(model)
  /\ conn' = [u \in Task |-> Closed(conn[u])]
  /\ torn' = (torn \/ ~LaunchHasRead)
  /\ At("check", "swapping")
  /\ UNCHANGED <<disk, known, current, screen, answer, checkVars, published, online, due, relaunches>>

(* Mutant of Swap: close() leaves the closed connection in `opened`.       *)
SwapKeepsOpened ==
  /\ pc["check"] = "swapping"
  /\ disk' = staged
  /\ swapped' = TRUE
  /\ At("check", "installed")
  /\ UNCHANGED <<opened, modelVars, conn, answer, manifest, staged, world>>

(* From the return of close() to the outcome without another await.        *)
Swap ==
  /\ pc["check"] = "swapping"
  /\ Forget
  /\ disk' = staged
  /\ swapped' = TRUE
  /\ At("check", "installed")
  /\ UNCHANGED <<known, current, screen, answer, manifest, staged, world>>

(* replaceItemAt or moveItem throws; or the file is in place and           *)
(* excludeFromBackup throws.                                               *)
SwapThrows(placed) ==
  /\ pc["check"] = "swapping"
  /\ Forget
  /\ disk' = IF placed THEN staged ELSE disk
  /\ torn' = TRUE
  /\ Done("check")
  /\ UNCHANGED <<known, current, screen, published, online, due, relaunches>>

(* `store = nil`, then load().                                             *)
Reload ==
  /\ pc["check"] = "installed"
  /\ model' = NoConn
  /\ At("check", "opening")
  /\ UNCHANGED <<hostVars, known, current, screen, conn, answer, checkVars, world>>

------------------------------------------------------------------------------

StoreStep(t) ==
  \/ HostHasOne(t)
  \/ HostOpensBundled(t)
  \/ HostTriesInstalled(t)
  \/ HostAdopts(t)
  \/ HostFallsBack(t)

LoadStep(t) == LoadTakes(t) \/ LoadReads(t) \/ LoadFails(t) \/ StoreAnswers(t)

CheckStep ==
  \/ ManifestArrives
  \/ FetchFails
  \/ Decide
  \/ PayloadArrives
  \/ Validate
  \/ CloseOld
  \/ Swap
  \/ \E placed \in BOOLEAN : SwapThrows(placed)
  \/ Reload

Next ==
  \/ \E t \in Task : StoreStep(t) \/ LoadStep(t) \/ Show(t)
  \/ CheckStep
  \/ ReaderAsks
  \/ \E pulled \in BOOLEAN : StartCheck(pulled)
  \/ \E kind \in UploadKinds : Publish(kind)
  \/ Coverage
  \/ HourPasses
  \/ Relaunch

(* Suspended tasks are resumed, hours pass, the reader comes back.  A      *)
(* reader who types for ever may supersede every answer but not stop the   *)
(* main actor from showing one (SF).                                       *)
Fairness ==
  /\ \A t \in Task : WF_vars(StoreStep(t)) /\ WF_vars(LoadStep(t)) /\ SF_vars(Show(t))
  /\ WF_vars(CheckStep)
  /\ WF_vars(HourPasses)
  /\ WF_vars(StartCheck(FALSE))

Spec == Init /\ [][Next]_vars
FairSpec == Spec /\ Fairness

------------------------------------------------------------------------------
(* Properties                                                              *)

Chosen == IF disk.kind = "good" THEN disk ELSE Bundled
Quiet == \A t \in Task : pc[t] = "idle"

(* The fd-on-the-old-inode trap (Refresh.swift:24-29): once every task has *)
(* come to rest, the connection the model answers from is open and reads   *)
(* the file a new process would choose, and the screen shows that file;    *)
(* in every process but one that exchanged the file before its launch had  *)
(* read the store, or whose exchange threw.                                *)
QuietIsCurrent ==
  Quiet /\ ~torn => /\ IsOpen(model) /\ model.file = Chosen
                    /\ screen = [kind |-> "ready", build |-> Chosen.build]

(* Every connection anyone can still read through is closed before the     *)
(* file under it is exchanged (Refresh.swift:26).                          *)
EveryConnectionClosed ==
  [][disk' # disk => \A c \in {opened, model} \cup {conn[t] : t \in Task} : ~IsOpen(c)]_vars

(* An old answer that comes late is never shown over a newer store's: the  *)
(* build on screen only moves forward within such a process.               *)
ScreenNeverGoesBack ==
  [][relaunches' = relaunches /\ ~torn' => screen'.build >= screen.build]_vars

(* Whatever is uploaded, and whenever, the installed file is only ever     *)
(* replaced by a readable and newer one (Refresh.swift:11-22).             *)
InstallsMoveForward ==
  [][disk' # disk => disk'.kind = "good" /\ disk'.build > Chosen.build]_vars

(* Online for good, with a readable store published, the phone ends up     *)
(* showing it, with no other step from the reader than coming back.        *)
EventuallyCurrent ==
  <>[](online /\ published.kind = "good" /\ ~torn)
    => <>[](screen.kind = "ready" /\ screen.build >= published.build)
==============================================================================
