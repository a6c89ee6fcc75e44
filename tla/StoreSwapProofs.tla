--------------------------- MODULE StoreSwapProofs ---------------------------
(***************************************************************************)
(* StoreSwap for any number of builds and relaunches, any files found      *)
(* installed, whatever is uploaded, with checks that overlap the launch    *)
(* and swaps that throw.                                                   *)
(*                                                                         *)
(* That installs move forward does not follow from the comparison of the   *)
(* refresh decision alone: the connection it asks may be an old one.       *)
(* Either nothing was installed in the life of the open connections, and   *)
(* they read the file a new process would choose; or the file is one that  *)
(* was published, and no later manifest names an older one.                *)
(***************************************************************************)
EXTENDS StoreSwap, TLAPS

(* Nothing was installed under an open connection.                         *)
Undisturbed ==
  /\ opened # NoConn => opened.file = Chosen
  /\ \A t \in Task : pc[t] = "adopting" => conn[t].file = disk
  /\ pc["check"] = "opened" /\ ~swapped => conn["check"].file = Chosen

(* The installed file was published, and the running check's manifest is   *)
(* no older.                                                               *)
Caught ==
  /\ disk.kind = "good" /\ disk.build <= published.build
  /\ manifest # 0 /\ ~swapped => disk.build <= manifest

(* A build worth downloading: newer than the file a process would choose,  *)
(* or that file itself.                                                    *)
NotOlder(build) == build > Chosen.build \/ (disk.kind = "good" /\ build = disk.build)

Downloads ==
  /\ staged.build <= published.build
  /\ pc["check"] \in {"payload", "validating", "closing", "swapping"} => NotOlder(manifest)
  /\ pc["check"] \in {"closing", "swapping"} => staged.kind = "good" /\ staged.build = manifest

IInv == TypeOK /\ (Undisturbed \/ Caught) /\ Downloads

Answers == [kind : {"none", "rows", "closed"}, build : 0..MaxBuild]
Screens == [kind : {"loading", "ready", "failed"}, build : 0..MaxBuild]

LEMMA Values ==
  /\ NoFile \in File /\ Bundled \in File /\ 0 \in 0..MaxBuild
  /\ NoConn \in Conn /\ NoAnswer \in Answers
  /\ \A file \in File : /\ [file |-> file, is |-> "host"] \in Conn
                        /\ [file |-> file, is |-> "stray"] \in Conn
  /\ \A c \in Conn : c.file \in File
<1>1. NoFile \in File /\ Bundled \in File /\ 0 \in 0..MaxBuild
  BY SwapAssumption DEF NoFile, Bundled, File, Kind
<1>2. NoConn \in Conn /\ NoAnswer \in Answers
  BY <1>1 DEF NoConn, Conn, NoAnswer, Answers
<1>3. \A file \in File : /\ [file |-> file, is |-> "host"] \in Conn
                         /\ [file |-> file, is |-> "stray"] \in Conn
  BY DEF Conn
<1>4. \A c \in Conn : c.file \in File
  BY DEF Conn
<1> QED
  BY <1>1, <1>2, <1>3, <1>4

LEMMA ChosenIsAFile == TypeOK => Chosen \in File
BY Values DEF TypeOK, Chosen

(* What the host forgets, and what it closes, reads the file it read.      *)
LEMMA DisownedConn ==
  ASSUME NEW c \in Conn
  PROVE  /\ Disowned(c) \in Conn /\ Disowned(c).file = c.file
         /\ IsOpen(Disowned(c)) <=> IsOpen(c)
         /\ Disowned(c) = NoConn <=> c = NoConn
<1>1. CASE c.is = "host"
  <2>1. Disowned(c) = [file |-> c.file, is |-> "stray"]
    BY <1>1 DEF Disowned, Conn
  <2>2. c.file \in File /\ [file |-> c.file, is |-> "stray"] \in Conn
    BY Values
  <2> QED
    BY <1>1, <2>1, <2>2 DEF IsOpen, NoConn
<1>2. CASE c.is # "host"
  BY <1>2 DEF Disowned
<1> QED
  BY <1>1, <1>2

LEMMA ClosedConn ==
  ASSUME NEW c \in Conn
  PROVE  /\ Closed(c) \in Conn /\ Closed(c).file = c.file /\ Closed(c).is # "host"
         /\ Closed(c) = NoConn <=> c = NoConn
         /\ Closed(c).is = "stray" => c.is = "stray"
<1>1. CASE c.is = "host"
  <2>1. Closed(c) = [file |-> c.file, is |-> "closed"]
    BY <1>1 DEF Closed, Conn
  <2>2. [file |-> c.file, is |-> "closed"] \in Conn
    BY Values DEF Conn
  <2> QED
    BY <1>1, <2>1, <2>2 DEF NoConn
<1>2. CASE c.is # "host"
  BY <1>2 DEF Closed
<1> QED
  BY <1>1, <1>2

(* What the host's new connection leaves of the others.                    *)
LEMMA Remembers ==
  ASSUME TypeOK, NEW t \in Task, NEW file \in File, Remember(t, file)
  PROVE  /\ opened' = [file |-> file, is |-> "host"] /\ opened' \in Conn
         /\ conn' \in [Task -> Conn] /\ conn'[t] = opened'
         /\ pc' \in [Task -> Place] /\ pc'[t] = "opened"
         /\ \A u \in Task \ {t} : /\ pc'[u] = pc[u] /\ conn'[u].file = conn[u].file
                                  /\ IsOpen(conn'[u]) <=> IsOpen(conn[u])
         /\ model' \in Conn /\ model'.file = model.file
         /\ IsOpen(model') <=> IsOpen(model)
         /\ model' = NoConn <=> model = NoConn
<1>1. opened' = [file |-> file, is |-> "host"] /\ opened' \in Conn
  BY Values DEF Remember
<1>2. \A u \in Task : conn'[u] = IF u = t THEN opened' ELSE Disowned(conn[u])
  BY DEF Remember
<1>3. \A u \in Task : conn[u] \in Conn
  BY DEF TypeOK
<1>4. conn' \in [Task -> Conn]
  <2>1. \A u \in Task : conn'[u] \in Conn
    BY <1>1, <1>2, <1>3, DisownedConn
  <2> QED
    BY <2>1 DEF Remember
<1>5. \A u \in Task \ {t} : conn'[u].file = conn[u].file /\ (IsOpen(conn'[u]) <=> IsOpen(conn[u]))
  BY <1>2, <1>3, DisownedConn
<1>6. /\ pc' \in [Task -> Place] /\ pc'[t] = "opened"
      /\ \A u \in Task \ {t} : pc'[u] = pc[u]
  BY DEF Remember, At, TypeOK, Place
<1>7. /\ model' \in Conn /\ model'.file = model.file
      /\ IsOpen(model') <=> IsOpen(model)
      /\ model' = NoConn <=> model = NoConn
  BY DisownedConn DEF Remember, TypeOK
<1> QED
  BY <1>1, <1>2, <1>4, <1>5, <1>6, <1>7

LEMMA Forgets ==
  ASSUME TypeOK, Forget
  PROVE  /\ opened' = NoConn /\ conn' \in [Task -> Conn] /\ model' \in Conn
         /\ \A u \in Task : conn'[u].file = conn[u].file /\ (IsOpen(conn'[u]) <=> IsOpen(conn[u]))
         /\ model'.file = model.file
         /\ model' = NoConn <=> model = NoConn
<1>1. \A u \in Task : conn'[u] = Disowned(conn[u]) /\ conn[u] \in Conn
  BY DEF Forget, TypeOK
<1>2. conn' \in [Task -> Conn]
  <2>1. \A u \in Task : conn'[u] \in Conn
    BY <1>1, DisownedConn
  <2> QED
    BY <2>1 DEF Forget
<1>3. \A u \in Task : conn'[u].file = conn[u].file /\ (IsOpen(conn'[u]) <=> IsOpen(conn[u]))
  BY <1>1, DisownedConn
<1>4. model' \in Conn /\ model'.file = model.file /\ (model' = NoConn <=> model = NoConn)
  BY DisownedConn DEF Forget, TypeOK
<1> QED
  BY <1>2, <1>3, <1>4 DEF Forget

LEMMA Closes ==
  ASSUME TypeOK, CloseOld
  PROVE  /\ opened' \in Conn /\ opened'.file = opened.file /\ opened'.is # "host"
         /\ opened' = NoConn <=> opened = NoConn
         /\ opened'.is = "stray" => opened.is = "stray"
         /\ conn' \in [Task -> Conn] /\ model' \in Conn /\ model'.file = model.file
         /\ \A u \in Task : conn'[u].file = conn[u].file
         /\ model' = NoConn <=> model = NoConn
<1>1. \A u \in Task : conn'[u] = Closed(conn[u]) /\ conn[u] \in Conn
  BY DEF CloseOld, TypeOK
<1>2. conn' \in [Task -> Conn]
  <2>1. \A u \in Task : conn'[u] \in Conn
    BY <1>1, ClosedConn
  <2> QED
    BY <2>1 DEF CloseOld
<1>3. \A u \in Task : conn'[u].file = conn[u].file
  BY <1>1, ClosedConn
<1>4. model' \in Conn /\ model'.file = model.file /\ (model' = NoConn <=> model = NoConn)
  BY ClosedConn DEF CloseOld, TypeOK
<1>5. /\ opened' \in Conn /\ opened'.file = opened.file /\ opened'.is # "host"
      /\ opened' = NoConn <=> opened = NoConn
      /\ opened'.is = "stray" => opened.is = "stray"
  BY ClosedConn DEF CloseOld, TypeOK
<1> QED
  BY <1>2, <1>3, <1>4, <1>5

LEMMA DoneTypes ==
  ASSUME TypeOK, NEW t \in Task, Done(t)
  PROVE  /\ pc' \in [Task -> Place] /\ answer' \in [Task -> Answers]
         /\ swapped' \in BOOLEAN /\ manifest' \in 0..MaxBuild /\ staged' \in File
<1>1. pc' \in [Task -> Place]
  BY DEF TypeOK, Done, At, Place
<1>2. answer' \in [Task -> Answers]
  BY Values DEF TypeOK, Done, Answers
<1>3. swapped' \in BOOLEAN /\ manifest' \in 0..MaxBuild /\ staged' \in File
  BY Values DEF TypeOK, Done
<1> QED
  BY <1>1, <1>2, <1>3

LEMMA FinishTypes ==
  ASSUME TypeOK, NEW t \in Task, Finish(t)
  PROVE  /\ pc' \in [Task -> Place] /\ answer' \in [Task -> Answers]
         /\ swapped' \in BOOLEAN /\ manifest' \in 0..MaxBuild /\ staged' \in File
         /\ conn' \in [Task -> Conn]
         /\ \A u \in Task \ {t} : conn'[u] = conn[u]
<1>1. conn' \in [Task -> Conn] /\ \A u \in Task \ {t} : conn'[u] = conn[u]
  BY Values DEF TypeOK, Finish
<1> QED
  BY <1>1, DoneTypes DEF Finish

LEMMA InitTypes == Init => TypeOK
<1> SUFFICES ASSUME Init PROVE TypeOK
  OBVIOUS
<1>1. disk \in File /\ staged \in File
  BY Values, SwapAssumption DEF Init
<1>2. published \in File
  <2>1. 1 \in 0..MaxBuild /\ UploadKinds \subseteq Kind
    BY SwapAssumption DEF Kind
  <2> QED
    BY <2>1 DEF Init, File
<1>3. opened \in Conn /\ opened.is # "stray" /\ model \in Conn
  BY Values DEF Init, NoConn
<1>4. pc \in [Task -> Place]
  BY DEF Init, Launching, Task, Place
<1>5. conn \in [Task -> Conn]
  BY Values DEF Init, NoHolds
<1>6. answer \in [Task -> Answers]
  BY Values DEF Init, NoAnswers
<1>7. screen \in Screens
  BY Values DEF Init, LoadingScreen, Screens
<1>8. relaunches \in 0..MaxRelaunches /\ manifest \in 0..MaxBuild
  BY Values, SwapAssumption DEF Init
<1>9. /\ online \in BOOLEAN /\ known \in BOOLEAN /\ swapped \in BOOLEAN /\ due \in BOOLEAN
      /\ torn \in BOOLEAN /\ current \in Task \cup {"none"}
  BY DEF Init
<1> QED
  BY <1>1, <1>2, <1>3, <1>4, <1>5, <1>6, <1>7, <1>8, <1>9 DEF TypeOK, Answers, Screens

LEMMA InitIInv == Init => IInv
<1> SUFFICES ASSUME Init PROVE IInv
  OBVIOUS
<1>1. \A t \in Task : pc[t] \in {"opening", "idle"}
  BY DEF Init, Launching, Task
<1>2. Undisturbed
  BY <1>1 DEF Init, Undisturbed, Task
<1>3. Downloads
  BY DEF Init, Downloads, Launching, NoFile
<1> QED
  BY <1>2, <1>3, InitTypes DEF IInv

-----------------------------------------------------------------------------
(* Types, action by action.                                                *)
LEMMA NextTypes == TypeOK /\ [Next]_vars => TypeOK'
<1> SUFFICES ASSUME TypeOK, [Next]_vars PROVE TypeOK'
  OBVIOUS
<1> USE SwapAssumption
<1>0. "check" \in Task /\ "reader" \in Task /\ "launch" \in Task
  BY DEF Task
<1>1. ASSUME NEW t \in Task, NEW file \in File, Remember(t, file) PROVE TypeOK'
  <2>1. opened' \in Conn /\ opened'.is # "stray" /\ conn' \in [Task -> Conn] /\ model' \in Conn
        /\ pc' \in [Task -> Place]
    BY <1>1, Remembers
  <2> QED
    BY <1>1, <2>1 DEF Remember, TypeOK, checkVars, world
<1>2. ASSUME NEW t \in Task, StoreStep(t) PROVE TypeOK'
  <2>1. CASE HostHasOne(t)
    <3>1. pc' \in [Task -> Place] /\ conn' \in [Task -> Conn]
      BY <2>1 DEF HostHasOne, TypeOK, At, Place
    <3> QED
      BY <2>1, <3>1 DEF HostHasOne, TypeOK, modelVars, checkVars, world, hostVars
  <2>2. CASE HostOpensBundled(t) \/ HostFallsBack(t)
    BY <1>1, <2>2, Values DEF HostOpensBundled, HostFallsBack
  <2>3. CASE HostAdopts(t)
    <3>1. conn[t].file \in File
      BY Values DEF TypeOK
    <3> QED
      BY <1>1, <2>3, <3>1 DEF HostAdopts
  <2>4. CASE HostTriesInstalled(t)
    <3>1. pc' \in [Task -> Place]
      BY <2>4 DEF HostTriesInstalled, TypeOK, At, Place
    <3>2. conn' \in [Task -> Conn]
      BY <2>4, Values DEF HostTriesInstalled, TypeOK
    <3> QED
      BY <2>4, <3>1, <3>2 DEF HostTriesInstalled, TypeOK, modelVars, checkVars, world, hostVars
  <2> QED
    BY <1>2, <2>1, <2>2, <2>3, <2>4 DEF StoreStep
<1>3. ASSUME NEW t \in Task, LoadTakes(t) PROVE TypeOK'
  BY <1>3 DEF LoadTakes, TypeOK, At, Place, hostVars, checkVars, world
<1>4. ASSUME NEW t \in Task, LoadReads(t) PROVE TypeOK'
  <2>1. CASE model = NoConn
    <3>1. Finish(t) /\ UNCHANGED <<hostVars, model, screen, world, current>> /\ known' = TRUE
      BY <1>4, <2>1 DEF LoadReads
    <3> QED
      BY <3>1, FinishTypes DEF TypeOK, hostVars, world, Answers
  <2>2. CASE model # NoConn
    <3>1. /\ conn' = [conn EXCEPT ![t] = model] /\ At(t, "asking") /\ known' = TRUE /\ current' = t
          /\ UNCHANGED <<hostVars, model, screen, answer, checkVars, world>>
      BY <1>4, <2>2 DEF LoadReads
    <3>2. pc' \in [Task -> Place] /\ conn' \in [Task -> Conn]
      BY <3>1 DEF TypeOK, At, Place
    <3> QED
      BY <3>1, <3>2 DEF TypeOK, hostVars, checkVars, world
  <2> QED
    BY <2>1, <2>2
<1>5. ASSUME NEW t \in Task, LoadFails(t) PROVE TypeOK'
  <2>1. screen' \in Screens
    BY <1>5 DEF LoadFails, TypeOK, Screens
  <2> QED
    BY <1>5, <2>1, FinishTypes DEF LoadFails, TypeOK, hostVars, world, Answers, Screens
<1>6. ASSUME NEW t \in Task, StoreAnswers(t) PROVE TypeOK'
  <2>1. conn[t].file.build \in 0..MaxBuild
    BY Values DEF TypeOK, File
  <2>2. answer' \in [Task -> Answers]
    BY <1>6, <2>1, Values DEF StoreAnswers, TypeOK, Answers
  <2>3. pc' \in [Task -> Place]
    BY <1>6 DEF StoreAnswers, TypeOK, At, Place
  <2> QED
    BY <1>6, <2>2, <2>3 DEF StoreAnswers, TypeOK, hostVars, modelVars, checkVars, world, Answers
<1>7. ASSUME NEW t \in Task, Show(t) PROVE TypeOK'
  <2>1. screen' \in Screens
    BY <1>7 DEF Show, ShowRows, TypeOK, Screens
  <2> QED
    BY <1>7, <2>1, FinishTypes DEF Show, TypeOK, hostVars, world, Answers, Screens
<1>8. CASE ReaderAsks
  <2>1. answer' \in [Task -> Answers]
    BY <1>0, <1>8, Values DEF ReaderAsks, TypeOK, Answers
  <2>2. pc' \in [Task -> Place] /\ conn' \in [Task -> Conn]
    BY <1>0, <1>8 DEF ReaderAsks, TypeOK, At, Place
  <2> QED
    BY <1>0, <1>8, <2>1, <2>2 DEF ReaderAsks, TypeOK, hostVars, checkVars, world, Answers
<1>9. ASSUME NEW pulled \in BOOLEAN, StartCheck(pulled) PROVE TypeOK'
  BY <1>9 DEF StartCheck, TypeOK, At, Place, Task, hostVars, modelVars, checkVars
<1>10. CASE ManifestArrives
  BY <1>10 DEF ManifestArrives, TypeOK, At, Place, Task, File, hostVars, modelVars, world
<1>11. ASSUME Skip PROVE TypeOK'
  BY <1>0, <1>11, FinishTypes DEF Skip, TypeOK, hostVars, modelVars, world, Answers
<1>12. CASE FetchFails
  BY <1>11, <1>12 DEF FetchFails
<1>13. CASE Decide
  <2>1. CASE IsOpen(conn["check"]) /\ WorthInstalling(conn["check"].file)
    <3>1. pc' \in [Task -> Place] /\ conn' \in [Task -> Conn]
      BY <1>0, <1>13, <2>1, Values DEF Decide, TypeOK, At, Place
    <3> QED
      BY <1>13, <2>1, <3>1 DEF Decide, TypeOK, hostVars, modelVars, checkVars, world
  <2> QED
    BY <1>11, <1>13, <2>1 DEF Decide
<1>14. CASE PayloadArrives
  BY <1>14 DEF PayloadArrives, TypeOK, At, Place, Task, hostVars, modelVars, world
<1>15. CASE Validate
  <2>1. CASE Valid(staged)
    <3>1. pc' \in [Task -> Place]
      BY <1>0, <1>15, <2>1 DEF Validate, TypeOK, At, Place
    <3> QED
      BY <1>15, <2>1, <3>1 DEF Validate, TypeOK, hostVars, modelVars, checkVars, world
  <2> QED
    BY <1>11, <1>15, <2>1 DEF Validate
<1>16. CASE CloseOld
  <2>1. pc' \in [Task -> Place] /\ torn' \in BOOLEAN
    BY <1>0, <1>16 DEF CloseOld, TypeOK, At, Place
  <2>2. /\ opened' \in Conn /\ opened'.is # "stray"
        /\ conn' \in [Task -> Conn] /\ model' \in Conn
    BY <1>16, Closes DEF TypeOK
  <2> QED
    BY <1>16, <2>1, <2>2 DEF CloseOld, TypeOK, checkVars
<1>17. CASE Swap
  <2>1. pc' \in [Task -> Place]
    BY <1>0, <1>17 DEF Swap, TypeOK, At, Place
  <2>2. /\ opened' \in Conn /\ opened'.is # "stray"
        /\ conn' \in [Task -> Conn] /\ model' \in Conn
    BY <1>17, Forgets, Values DEF Swap, NoConn
  <2> QED
    BY <1>17, <2>1, <2>2 DEF Swap, TypeOK, world
<1>18. ASSUME NEW placed \in BOOLEAN, SwapThrows(placed) PROVE TypeOK'
  <2>1. /\ opened' \in Conn /\ opened'.is # "stray"
        /\ conn' \in [Task -> Conn] /\ model' \in Conn
    BY <1>18, Forgets, Values DEF SwapThrows, NoConn
  <2>2. disk' \in File /\ torn' \in BOOLEAN
    BY <1>18 DEF SwapThrows, TypeOK
  <2> QED
    BY <1>0, <1>18, <2>1, <2>2, DoneTypes DEF SwapThrows, TypeOK, Answers
<1>19. CASE Reload
  BY <1>0, <1>19, Values DEF Reload, TypeOK, At, Place, hostVars, checkVars, world
<1>20. ASSUME NEW kind \in UploadKinds, Publish(kind) PROVE TypeOK'
  <2>1. published' \in File
    BY <1>20 DEF Publish, TypeOK, File, Kind
  <2> QED
    BY <1>20, <2>1 DEF Publish, TypeOK, hostVars, modelVars, taskVars, checkVars
<1>21. CASE Coverage \/ HourPasses
  BY <1>21 DEF Coverage, HourPasses, TypeOK, hostVars, modelVars, taskVars, checkVars
<1>22. CASE Relaunch
  <2>1. opened' \in Conn /\ opened'.is # "stray" /\ model' \in Conn /\ conn' \in [Task -> Conn]
    BY <1>22, Values DEF Relaunch, NoHolds, NoConn
  <2>2. pc' \in [Task -> Place]
    BY <1>22 DEF Relaunch, Launching, Task, Place
  <2>3. answer' \in [Task -> Answers] /\ screen' \in Screens
    BY <1>22, Values DEF Relaunch, NoAnswers, LoadingScreen, Screens
  <2>4. relaunches' \in 0..MaxRelaunches /\ manifest' \in 0..MaxBuild /\ staged' \in File
    BY <1>22, Values DEF Relaunch, TypeOK
  <2>5. /\ online' \in BOOLEAN /\ known' \in BOOLEAN /\ swapped' \in BOOLEAN /\ due' \in BOOLEAN
        /\ torn' \in BOOLEAN /\ current' \in Task \cup {"none"}
        /\ disk' \in File /\ published' \in File
    BY <1>22 DEF Relaunch, TypeOK
  <2> QED
    BY <2>1, <2>2, <2>3, <2>4, <2>5 DEF TypeOK, Answers, Screens
<1>23. CASE UNCHANGED vars
  BY <1>23 DEF vars, hostVars, modelVars, taskVars, checkVars, world, TypeOK
<1> QED
  BY <1>2, <1>3, <1>4, <1>5, <1>6, <1>7, <1>8, <1>9, <1>10, <1>12, <1>13, <1>14, <1>15, <1>16,
     <1>17, <1>18, <1>19, <1>20, <1>21, <1>22, <1>23
  DEF Next, LoadStep, CheckStep

-----------------------------------------------------------------------------
(* A step that leaves the installed file and the publisher alone, opens    *)
(* nothing for the host, and takes no task to an earlier use of a          *)
(* connection or of a download.                                            *)
LEMMA Bystanders ==
  ASSUME IInv, TypeOK',
         UNCHANGED <<disk, published>>,
         opened' # NoConn => opened # NoConn /\ opened'.file = opened.file,
         \A t \in Task : pc'[t] = "adopting" => pc[t] = "adopting" /\ conn'[t].file = conn[t].file,
         pc'["check"] = "opened" /\ ~swapped' => /\ pc["check"] = "opened" /\ ~swapped
                                                 /\ conn'["check"].file = conn["check"].file,
         \/ UNCHANGED <<manifest, staged, swapped>>
         \/ manifest' = 0 /\ staged' = NoFile /\ ~swapped',
         pc'["check"] \in {"payload", "validating", "closing", "swapping"}
           => /\ pc["check"] \in {"payload", "validating", "closing", "swapping"}
              /\ UNCHANGED <<manifest, staged>>,
         pc'["check"] \in {"closing", "swapping"} => pc["check"] \in {"closing", "swapping"}
  PROVE  IInv'
<1>1. Chosen' = Chosen
  BY DEF Chosen
<1>2. Undisturbed => Undisturbed'
  BY <1>1 DEF Undisturbed
<1>3. Caught => Caught'
  BY DEF Caught
<1>4. Downloads'
  <2>1. staged'.build <= published'.build
    BY DEF IInv, TypeOK, Downloads, NoFile, File
  <2> QED
    BY <1>1, <2>1 DEF IInv, Downloads, NotOlder
<1> QED
  BY <1>2, <1>3, <1>4 DEF IInv

(* What the launch, the reader and the check do short of installing.       *)
LEMMA QuietSteps ==
  ASSUME IInv, TypeOK',
         \/ \E t \in Task : LoadStep(t) \/ Show(t)
         \/ ReaderAsks
         \/ \E pulled \in BOOLEAN : StartCheck(pulled)
         \/ FetchFails \/ CloseOld \/ Reload
         \/ Coverage \/ HourPasses
         \/ UNCHANGED vars
  PROVE  IInv'
<1> USE DEF hostVars, modelVars, taskVars, checkVars, world
<1>0. /\ pc \in [Task -> Place] /\ conn \in [Task -> Conn]
      /\ "check" \in Task /\ "reader" \in Task
  BY DEF IInv, TypeOK, Task
<1>1. ASSUME NEW t \in Task, LoadTakes(t) \/ StoreAnswers(t) PROVE IInv'
  BY <1>0, <1>1, Bystanders DEF LoadTakes, StoreAnswers, Loading, At
<1>2. ASSUME NEW t \in Task, Finish(t), UNCHANGED <<disk, opened, published>> PROVE IInv'
  <2>1. \A u \in Task : pc'[u] # "idle" => pc'[u] = pc[u] /\ conn'[u] = conn[u]
    BY <1>0, <1>2 DEF Finish, Done, At
  <2>2. \/ UNCHANGED <<manifest, staged, swapped>>
        \/ t = "check" /\ pc'["check"] = "idle" /\ manifest' = 0 /\ staged' = NoFile /\ ~swapped'
    BY <1>0, <1>2 DEF Finish, Done, At
  <2> QED
    BY <1>0, <1>2, <2>1, <2>2, Bystanders
<1>3. ASSUME NEW t \in Task, LoadFails(t) \/ Show(t) PROVE IInv'
  BY <1>2, <1>3 DEF LoadFails, Show
<1>4. ASSUME NEW t \in Task, LoadReads(t) PROVE IInv'
  <2>1. CASE model = NoConn
    BY <1>2, <1>4, <2>1 DEF LoadReads
  <2>2. CASE model # NoConn
    BY <1>0, <1>4, <2>2, Bystanders DEF LoadReads, At
  <2> QED
    BY <2>1, <2>2
<1>5. CASE ReaderAsks
  BY <1>0, <1>5, Bystanders DEF ReaderAsks, At
<1>6. ASSUME NEW pulled \in BOOLEAN, StartCheck(pulled) PROVE IInv'
  BY <1>0, <1>6, Bystanders DEF StartCheck, At
<1>7. CASE FetchFails
  BY <1>0, <1>2, <1>7 DEF FetchFails, Skip
<1>8. CASE CloseOld
  <2>1. /\ opened' # NoConn => opened # NoConn /\ opened'.file = opened.file
        /\ \A u \in Task : conn'[u].file = conn[u].file
    BY <1>8, Closes DEF IInv
  <2> QED
    BY <1>0, <1>8, <2>1, Bystanders DEF CloseOld, At
<1>9. CASE Reload
  <2>1. /\ pc["check"] = "installed" /\ UNCHANGED <<disk, published, opened, conn, checkVars>>
        /\ \A u \in Task : pc'[u] = IF u = "check" THEN "opening" ELSE pc[u]
    BY <1>0, <1>9 DEF Reload, At
  <2> QED
    BY <1>0, <2>1, Bystanders
<1>10. CASE Coverage \/ HourPasses \/ UNCHANGED vars
  BY <1>0, <1>10, Bystanders DEF Coverage, HourPasses, vars
<1> QED
  BY <1>1, <1>3, <1>4, <1>5, <1>6, <1>7, <1>8, <1>9, <1>10 DEF LoadStep

(* A connection is always opened on the file a new process would choose.   *)
LEMMA HostSteps ==
  ASSUME IInv, TypeOK', NEW t \in Task, StoreStep(t)
  PROVE  IInv'
<1> USE DEF hostVars, modelVars, taskVars, checkVars, world
<1>0. /\ pc \in [Task -> Place] /\ conn \in [Task -> Conn] /\ Bundled \in File /\ TypeOK
      /\ \A u \in Task : conn[u].file \in File
  BY Values DEF IInv, TypeOK
<1>1. /\ UNCHANGED <<disk, published, checkVars>> /\ pc[t] \in {"opening", "adopting"}
      /\ pc'[t] \in {"adopting", "opened"}
      /\ \A u \in Task \ {t} : pc'[u] = pc[u] /\ conn'[u].file = conn[u].file
      /\ pc'[t] = "adopting" => opened' = opened /\ conn'[t].file = disk
      /\ pc'[t] = "opened" => opened' = conn'[t] /\ (Undisturbed => opened'.file = Chosen)
  <2>1. ASSUME NEW file \in File, Remember(t, file), pc[t] \in {"opening", "adopting"},
               Undisturbed => file = Chosen
        PROVE  /\ UNCHANGED <<disk, published, checkVars>>
               /\ pc'[t] \in {"adopting", "opened"}
               /\ \A u \in Task \ {t} : pc'[u] = pc[u] /\ conn'[u].file = conn[u].file
               /\ pc'[t] = "adopting" => opened' = opened /\ conn'[t].file = disk
               /\ pc'[t] = "opened" => opened' = conn'[t] /\ (Undisturbed => opened'.file = Chosen)
    <3>1. UNCHANGED <<disk, published, checkVars>>
      BY <2>1 DEF Remember
    <3>2. /\ opened' = [file |-> file, is |-> "host"] /\ conn'[t] = opened' /\ pc'[t] = "opened"
          /\ \A u \in Task \ {t} : pc'[u] = pc[u] /\ conn'[u].file = conn[u].file
      BY <1>0, <2>1, Remembers
    <3> QED
      BY <2>1, <3>1, <3>2
  <2>2. CASE HostHasOne(t)
    BY <1>0, <2>2 DEF HostHasOne, Undisturbed, At
  <2>3. CASE HostOpensBundled(t)
    <3>1. Chosen = Bundled
      BY <2>3 DEF HostOpensBundled, Chosen
    <3> QED
      BY <1>0, <2>1, <2>3, <3>1 DEF HostOpensBundled
  <2>4. CASE HostTriesInstalled(t)
    BY <1>0, <2>4 DEF HostTriesInstalled, At
  <2>5. CASE HostAdopts(t)
    <3>1. Undisturbed => conn[t].file = Chosen
      BY <2>5 DEF HostAdopts, Undisturbed, Chosen
    <3> QED
      BY <1>0, <2>1, <2>5, <3>1 DEF HostAdopts
  <2>6. CASE HostFallsBack(t)
    <3>1. Undisturbed => Chosen = Bundled
      BY <2>6 DEF HostFallsBack, Undisturbed, Chosen
    <3> QED
      BY <1>0, <2>1, <2>6, <3>1 DEF HostFallsBack
  <2> QED
    BY <2>2, <2>3, <2>4, <2>5, <2>6 DEF StoreStep
<1>2. Chosen' = Chosen
  BY <1>1 DEF Chosen
<1>3. ASSUME Undisturbed PROVE Undisturbed'
  <2>1. opened' # NoConn => opened'.file = Chosen'
    BY <1>1, <1>2, <1>3 DEF Undisturbed
  <2>2. \A u \in Task : pc'[u] = "adopting" => conn'[u].file = disk'
    BY <1>1, <1>3 DEF Undisturbed
  <2>3. pc'["check"] = "opened" /\ ~swapped' => conn'["check"].file = Chosen'
    BY <1>1, <1>2, <1>3 DEF Undisturbed, Task
  <2> QED
    BY <2>1, <2>2, <2>3 DEF Undisturbed
<1>4. Caught => Caught'
  BY <1>1 DEF Caught
<1>5. Downloads'
  <2>1. pc'["check"] = pc["check"] \/ pc'["check"] \in {"adopting", "opened"}
    BY <1>1 DEF Task
  <2> QED
    BY <1>1, <1>2, <2>1 DEF IInv, Downloads, NotOlder
<1> QED
  BY <1>3, <1>4, <1>5 DEF IInv

(* A download is worth more than the file a new process would choose.      *)
LEMMA Decision ==
  ASSUME IInv, TypeOK', Decide
  PROVE  IInv'
<1> USE DEF hostVars, modelVars, taskVars, checkVars, world
<1>0. "check" \in Task /\ pc \in [Task -> Place] /\ conn \in [Task -> Conn]
  BY DEF IInv, TypeOK, Task
<1>1. CASE Skip
  BY <1>0, <1>1, Bystanders DEF Decide, Skip, Finish, Done, At
<1>2. CASE ~Skip
  <2>1. /\ WorthInstalling(conn["check"].file) /\ pc["check"] = "opened" /\ ~swapped
        /\ pc' = [pc EXCEPT !["check"] = "payload"] /\ conn' = [conn EXCEPT !["check"] = NoConn]
        /\ UNCHANGED <<hostVars, checkVars, world>>
    BY <1>2 DEF Decide, At
  <2>2. NotOlder(manifest)
    <3>1. CASE Undisturbed
      BY <2>1, <3>1 DEF Undisturbed, NotOlder, WorthInstalling
    <3>2. CASE Caught
      <4>1. manifest \in Nat /\ disk.build \in Nat /\ conn["check"].file.build \in Nat
        BY <1>0, Values DEF IInv, TypeOK, File
      <4>2. manifest # 0
        BY <2>1, <4>1 DEF WorthInstalling
      <4> QED
        BY <2>1, <3>2, <4>1, <4>2 DEF Caught, Chosen, NotOlder
    <3> QED
      BY <3>1, <3>2 DEF IInv
  <2>3. Chosen' = Chosen
    BY <2>1 DEF Chosen
  <2>4. Undisturbed => Undisturbed'
    BY <1>0, <2>1, <2>3 DEF Undisturbed
  <2>5. Caught => Caught'
    BY <2>1 DEF Caught
  <2>6. Downloads'
    BY <1>0, <2>1, <2>2, <2>3 DEF IInv, Downloads, NotOlder
  <2> QED
    BY <2>4, <2>5, <2>6 DEF IInv
<1> QED
  BY <1>1, <1>2

(* The manifest is the newest there is, and no later one is older.         *)
LEMMA Arrivals ==
  ASSUME IInv, TypeOK',
         \/ ManifestArrives \/ PayloadArrives \/ Validate
         \/ \E kind \in UploadKinds : Publish(kind)
  PROVE  IInv'
<1> USE DEF hostVars, modelVars, taskVars, checkVars, world
<1>0. /\ "check" \in Task /\ pc \in [Task -> Place] /\ conn \in [Task -> Conn]
      /\ published.build \in Nat /\ disk.build \in Nat /\ staged.build \in Nat /\ manifest \in Nat
      /\ published'.build \in Nat
  BY DEF IInv, TypeOK, Task, File
<1>1. CASE ManifestArrives
  <2>1. Chosen' = Chosen
    BY <1>1 DEF ManifestArrives, Chosen
  <2>2. Undisturbed => Undisturbed'
    BY <1>0, <1>1, <2>1 DEF ManifestArrives, Undisturbed, At
  <2>3. Caught => Caught'
    BY <1>0, <1>1 DEF ManifestArrives, Caught
  <2>4. Downloads'
    BY <1>0, <1>1 DEF ManifestArrives, IInv, Downloads, At
  <2> QED
    BY <2>2, <2>3, <2>4 DEF IInv
<1>2. CASE PayloadArrives
  <2>1. Chosen' = Chosen
    BY <1>2 DEF PayloadArrives, Chosen
  <2>2. Undisturbed => Undisturbed'
    BY <1>0, <1>2, <2>1 DEF PayloadArrives, Undisturbed, At
  <2>3. Caught => Caught'
    BY <1>0, <1>2 DEF PayloadArrives, Caught
  <2>4. Downloads'
    BY <1>0, <1>2, <2>1 DEF PayloadArrives, IInv, Downloads, NotOlder, At
  <2> QED
    BY <2>2, <2>3, <2>4 DEF IInv
<1>3. CASE Validate
  <2>1. CASE Valid(staged)
    <3>1. Chosen' = Chosen
      BY <1>3, <2>1 DEF Validate, Chosen
    <3>2. Undisturbed => Undisturbed'
      BY <1>0, <1>3, <2>1, <3>1 DEF Validate, Undisturbed, At
    <3>3. Caught => Caught'
      BY <1>0, <1>3, <2>1 DEF Validate, Caught
    <3>4. Downloads'
      BY <1>0, <1>3, <2>1, <3>1 DEF Validate, Valid, IInv, Downloads, NotOlder, At
    <3> QED
      BY <3>2, <3>3, <3>4 DEF IInv
  <2>2. CASE ~Valid(staged)
    BY <1>0, <1>3, <2>2, Bystanders DEF Validate, Skip, Finish, Done, At
  <2> QED
    BY <2>1, <2>2
<1>4. ASSUME NEW kind \in UploadKinds, Publish(kind) PROVE IInv'
  <2>1. published'.build = published.build + 1
    BY <1>4 DEF Publish
  <2>2. Chosen' = Chosen
    BY <1>4 DEF Publish, Chosen
  <2>3. Undisturbed => Undisturbed'
    BY <1>4, <2>2 DEF Publish, Undisturbed
  <2>4. Caught => Caught'
    BY <1>0, <1>4, <2>1 DEF Publish, Caught
  <2>5. Downloads'
    BY <1>0, <1>4, <2>1, <2>2 DEF Publish, IInv, Downloads, NotOlder
  <2> QED
    BY <2>3, <2>4, <2>5 DEF IInv
<1> QED
  BY <1>1, <1>2, <1>3, <1>4

(* What is put in place was published and is readable.                     *)
LEMMA Installing ==
  ASSUME IInv, TypeOK',
         Swap \/ \E placed \in BOOLEAN : SwapThrows(placed)
  PROVE  IInv'
<1> USE DEF hostVars, modelVars, taskVars, checkVars, world
<1>0. "check" \in Task /\ pc \in [Task -> Place] /\ 0 <= published.build
  BY DEF IInv, TypeOK, Task, File
<1>1. pc["check"] = "swapping" /\ staged.kind = "good" /\ staged.build <= published.build
  BY DEF IInv, Downloads, Swap, SwapThrows
<1>2. CASE Swap
  <2>1. Caught'
    BY <1>1, <1>2 DEF Swap, Caught
  <2>2. Downloads'
    BY <1>0, <1>1, <1>2 DEF Swap, Downloads, At
  <2> QED
    BY <2>1, <2>2 DEF IInv
<1>3. CASE SwapThrows(TRUE)
  <2>1. Caught'
    BY <1>1, <1>3 DEF SwapThrows, Done, Caught
  <2>2. Downloads'
    BY <1>0, <1>3 DEF SwapThrows, Done, Downloads, At, NoFile
  <2> QED
    BY <2>1, <2>2 DEF IInv
<1>4. CASE SwapThrows(FALSE)
  <2>1. opened' = NoConn /\ \A u \in Task : conn'[u].file = conn[u].file
    BY <1>4, Forgets DEF SwapThrows, IInv
  <2> QED
    BY <1>0, <1>4, <2>1, Bystanders DEF SwapThrows, Done, At
<1> QED
  BY <1>2, <1>3, <1>4

LEMMA NextIInv == IInv /\ [Next]_vars => IInv'
<1> SUFFICES ASSUME IInv, [Next]_vars PROVE IInv'
  OBVIOUS
<1>1. TypeOK'
  BY NextTypes DEF IInv
<1>2. CASE Relaunch
  <2>1. \A t \in Task : pc'[t] \in {"opening", "idle"}
    BY <1>2 DEF Relaunch, Launching, Task
  <2>2. Undisturbed'
    BY <1>2, <2>1 DEF Relaunch, Undisturbed, Task
  <2>3. Downloads'
    <3>1. 0 <= published.build
      BY DEF IInv, TypeOK, File
    <3> QED
      BY <1>2, <3>1 DEF Relaunch, Downloads, Launching, NoFile
  <2> QED
    BY <1>1, <2>2, <2>3 DEF IInv
<1> QED
  BY <1>1, <1>2, QuietSteps, HostSteps, Decision, Arrivals, Installing DEF Next, CheckStep

THEOREM SpecIInv == Spec => []IInv
BY InitIInv, NextIInv, PTL DEF Spec

(* Every variable keeps its type, for any number of builds and relaunches. *)
THEOREM TypeCorrect == Spec => []TypeOK
<1>1. IInv => TypeOK
  BY DEF IInv
<1> QED
  BY <1>1, SpecIInv, PTL

(* Whatever is uploaded, whenever a check runs and wherever a swap throws, *)
(* the installed file is only ever replaced by a readable and newer one.   *)
THEOREM InstallsForward == Spec => InstallsMoveForward
<1>1. ASSUME IInv, [Next]_vars, disk' # disk
      PROVE  disk'.kind = "good" /\ disk'.build > Chosen.build
  <2>1. Swap \/ SwapThrows(TRUE)
    BY <1>1 DEF Next, StoreStep, LoadStep, CheckStep, HostHasOne, HostOpensBundled, HostTriesInstalled,
       HostAdopts, HostFallsBack, Remember, LoadTakes, LoadReads, LoadFails, StoreAnswers, Show, ReaderAsks,
       StartCheck, Publish, Coverage, HourPasses, Relaunch, ManifestArrives, FetchFails, Skip, Decide,
       PayloadArrives, Validate, CloseOld, SwapThrows, Reload, vars, hostVars
  <2>2. disk' = staged /\ staged.kind = "good" /\ staged.build = manifest /\ NotOlder(manifest)
    BY <1>1, <2>1 DEF Swap, SwapThrows, IInv, Downloads
  <2>3. staged # disk
    BY <1>1, <2>2
  <2>4. staged \in File /\ disk \in File
    BY <1>1 DEF IInv, TypeOK
  <2>5. ~(disk.kind = "good" /\ manifest = disk.build)
    BY <2>2, <2>3, <2>4 DEF File
  <2> QED
    BY <2>2, <2>5 DEF NotOlder
<1>2. IInv /\ [Next]_vars => [disk' # disk => disk'.kind = "good" /\ disk'.build > Chosen.build]_vars
  BY <1>1
<1> QED
  BY <1>2, SpecIInv, PTL DEF Spec, InstallsMoveForward

-----------------------------------------------------------------------------
(***************************************************************************)
(* What StoreSwap comes to when it is at rest, in a process that has not   *)
(* torn the store: checks, launches and questions interleave as they like, *)
(* two connections to the installed file may be open where the host        *)
(* remembers one, and no file is exchanged before the launch has read its  *)
(* store.                                                                  *)
(*                                                                         *)
(* QuietIsCurrent says nothing of the states between, where a file is      *)
(* exchanged and three tasks hold connections to it.  QInv follows them    *)
(* through all of those: whoever is about to read through a connection has *)
(* an open one on the file a new process would choose, and between the     *)
(* closing and the end of the reload nobody's answer counts.               *)
(***************************************************************************)

(* What each task is ever doing, and when a check has a file in place.     *)
Places ==
  /\ pc["reader"] \in {"idle", "asking", "answered"}
  /\ pc["launch"] \in {"opening", "adopting", "opened", "reading", "asking", "answered", "idle"}
SwapSeen ==
  /\ pc["check"] \in {"idle", "manifest", "payload", "validating", "closing", "swapping"} => ~swapped
  /\ pc["check"] \in {"installed", "reading", "asking", "answered"} => swapped
  /\ swapped => disk.kind = "good"

(* No file is exchanged before the launch has read its store.              *)
Waiting == ~LaunchHasRead
Early == Waiting => ~swapped /\ pc["check"] # "swapping"

(* The host's connection reads the file a new process would choose, and is *)
(* closed only while that file is about to be exchanged; so does the one a *)
(* task has in hand.                                                       *)
HostRight ==
  /\ opened # NoConn => opened.file = Chosen
  /\ opened # NoConn /\ pc["check"] # "swapping" => opened.is = "host"
InHand ==
  /\ \A t \in Task : pc[t] = "adopting" => IsOpen(conn[t]) /\ conn[t].file = disk
  /\ \A t \in Task : pc[t] \in {"opened", "reading"} => IsOpen(conn[t]) /\ conn[t].file = Chosen

(* So does the model's, once the launch or the reload has handed it over.  *)
Unhanded ==
  \/ pc["launch"] \in {"opening", "adopting", "opened"}
  \/ swapped /\ pc["check"] \in {"opening", "adopting", "opened"}
ModelRight ==
  /\ Unhanded => model = NoConn
  /\ ~Unhanded => model # NoConn /\ model.file.build <= Chosen.build
  /\ ~Unhanded /\ pc["check"] \notin {"swapping", "installed"} => IsOpen(model) /\ model.file = Chosen

(* The screen is never ahead of the model's store, nor of an answer that   *)
(* will be shown.                                                          *)
Shows(build) ==
  screen.build <= build /\ build <= Chosen.build /\ (model # NoConn => build <= model.file.build)
ScreenBehind ==
  /\ screen.build <= Chosen.build
  /\ model # NoConn => screen.build <= model.file.build
  /\ current \in Task /\ pc[current] = "asking" => Shows(conn[current].file.build)
  /\ current \in Task /\ pc[current] = "answered" /\ answer[current].kind = "rows"
       => Shows(answer[current].build)

(* The newest question is put to an open connection on that file, and once *)
(* it has been answered the screen shows it.                               *)
Exchanging ==
  \/ pc["check"] = "swapping"
  \/ swapped /\ pc["check"] \in {"installed", "opening", "adopting", "opened", "reading"}
ScreenRight ==
  ~Waiting /\ ~Exchanging =>
    /\ current \in Task
    /\ pc[current] = "asking" => IsOpen(conn[current]) /\ conn[current].file = Chosen
    /\ pc[current] = "answered" => answer[current].kind = "rows" /\ answer[current].build = Chosen.build
    /\ pc[current] \notin {"asking", "answered"} => screen.kind = "ready" /\ screen.build = Chosen.build

QInv ==
  torn \/ (Places /\ SwapSeen /\ Early /\ HostRight /\ InHand /\ ModelRight /\ ScreenBehind /\ ScreenRight)

LEMMA Typed ==
  ASSUME TypeOK
  PROVE  /\ pc \in [Task -> Place] /\ conn \in [Task -> Conn] /\ Chosen \in File
         /\ "launch" \in Task /\ "check" \in Task /\ "reader" \in Task
         /\ \A t \in Task : t = "launch" \/ t = "check" \/ t = "reader"
         /\ screen.build \in Nat /\ Chosen.build \in Nat /\ disk.build \in Nat /\ model.file.build \in Nat
         /\ opened.is # "stray" /\ opened.is \in {"none", "host", "stray", "closed"}
         /\ \A t \in Task : /\ conn[t] \in Conn /\ conn[t].file.build \in Nat
                            /\ answer[t].build \in Nat /\ answer[t].kind \in {"none", "rows", "closed"}
<1>1. /\ pc \in [Task -> Place] /\ conn \in [Task -> Conn]
      /\ "launch" \in Task /\ "check" \in Task /\ "reader" \in Task
      /\ \A t \in Task : t = "launch" \/ t = "check" \/ t = "reader"
  BY DEF TypeOK, Task
<1>2. \A file \in File : file.build \in Nat
  BY SwapAssumption DEF File
<1>3. Chosen \in File /\ Chosen.build \in Nat /\ disk.build \in Nat
  BY <1>2, ChosenIsAFile DEF TypeOK
<1>4. model.file.build \in Nat
  BY <1>2, Values DEF TypeOK
<1>5. screen.build \in Nat
  BY SwapAssumption DEF TypeOK
<1>6. opened.is # "stray" /\ opened.is \in {"none", "host", "stray", "closed"}
  BY DEF TypeOK, Conn
<1>7. ASSUME NEW t \in Task
      PROVE  /\ conn[t] \in Conn /\ conn[t].file.build \in Nat
             /\ answer[t].build \in Nat /\ answer[t].kind \in {"none", "rows", "closed"}
  <2>1. conn[t] \in Conn /\ conn[t].file.build \in Nat
    BY <1>1, <1>2, Values
  <2>2. answer[t] \in Answers
    BY DEF TypeOK, Answers
  <2>3. answer[t].build \in Nat /\ answer[t].kind \in {"none", "rows", "closed"}
    BY <2>2, SwapAssumption DEF Answers
  <2> QED
    BY <2>1, <2>3
<1> QED
  BY <1>1, <1>3, <1>4, <1>5, <1>6, <1>7

(* A process that has just begun.                                          *)
LEMMA Begins ==
  ASSUME TypeOK, opened = NoConn, model = NoConn, pc = Launching, ~swapped,
         screen = LoadingScreen, current = "none"
  PROVE  QInv
<1>1. pc["launch"] = "opening" /\ pc["check"] = "idle" /\ pc["reader"] = "idle"
  BY DEF Launching, Task
<1>2. \A t \in Task : pc[t] \in {"opening", "idle"}
  BY <1>1 DEF Task
<1>3. Places /\ SwapSeen /\ Early
  BY <1>1 DEF Places, SwapSeen, Early
<1>4. HostRight /\ InHand /\ ModelRight
  BY <1>1, <1>2 DEF HostRight, InHand, ModelRight, Unhanded, NoConn
<1>5. ScreenBehind
  <2>1. screen.build = 0 /\ Chosen.build \in Nat /\ "none" \notin Task
    BY Typed DEF LoadingScreen, Task
  <2> QED
    BY <2>1 DEF ScreenBehind
<1>6. ScreenRight
  BY <1>1 DEF ScreenRight, Waiting, LaunchHasRead
<1> QED
  BY <1>3, <1>4, <1>5, <1>6 DEF QInv

LEMMA BeginsNext ==
  ASSUME TypeOK', opened' = NoConn, model' = NoConn, pc' = Launching, ~swapped',
         screen' = LoadingScreen, current' = "none"
  PROVE  QInv'
<1>1. pc'["launch"] = "opening" /\ pc'["check"] = "idle" /\ pc'["reader"] = "idle"
  BY DEF Launching, Task
<1>2. \A t \in Task : pc'[t] \in {"opening", "idle"}
  BY <1>1 DEF Task
<1>3. Places' /\ SwapSeen' /\ Early'
  BY <1>1 DEF Places, SwapSeen, Early
<1>4. HostRight' /\ InHand' /\ ModelRight'
  BY <1>1, <1>2 DEF HostRight, InHand, ModelRight, Unhanded, NoConn
<1>5. ScreenBehind'
  <2>1. Chosen' \in File
    BY Values DEF TypeOK, Chosen
  <2>2. screen'.build = 0 /\ 0 <= Chosen'.build /\ "none" \notin Task
    BY <2>1, SwapAssumption DEF LoadingScreen, Task, File
  <2> QED
    BY <2>2 DEF ScreenBehind
<1>6. ScreenRight'
  BY <1>1 DEF ScreenRight, Waiting, LaunchHasRead
<1> QED
  BY <1>3, <1>4, <1>5, <1>6 DEF QInv

(* The host opens a connection, or hands out the one it has.               *)
LEMMA HostKeeps ==
  ASSUME TypeOK, TypeOK', QInv, ~torn, NEW t \in Task, StoreStep(t)
  PROVE  QInv'
<1> USE DEF hostVars, modelVars, taskVars, checkVars, world
<1>0. /\ Places /\ SwapSeen /\ Early /\ HostRight /\ InHand /\ ModelRight /\ ScreenBehind /\ ScreenRight
  BY DEF QInv
<1>1. Chosen.kind = "good" /\ Chosen \in File /\ Bundled \in File
      /\ (disk.kind = "good" => Chosen = disk) /\ (disk.kind # "good" => Chosen = Bundled)
  BY Typed, Values DEF Chosen, Bundled
(* What every such step amounts to.                                        *)
<1> DEFINE Opens ==
      /\ UNCHANGED <<disk, known, current, screen, answer, checkVars, torn>>
      /\ pc[t] \in {"opening", "adopting"}
      /\ \A u \in Task \ {t} : /\ pc'[u] = pc[u] /\ conn'[u].file = conn[u].file
                               /\ IsOpen(conn'[u]) <=> IsOpen(conn[u])
      /\ model'.file = model.file /\ (IsOpen(model') <=> IsOpen(model))
      /\ (model' = NoConn <=> model = NoConn)
      /\ opened' = opened \/ (opened'.file = Chosen /\ opened'.is = "host")
      /\ \/ pc'[t] = "adopting" /\ IsOpen(conn'[t]) /\ conn'[t].file = disk
         \/ pc'[t] = "opened" /\ IsOpen(conn'[t]) /\ conn'[t].file = Chosen
<1>2. Opens
  <2>1. ASSUME Remember(t, Chosen), pc[t] \in {"opening", "adopting"} PROVE Opens
    <3>1. UNCHANGED <<disk, known, current, screen, answer, checkVars, torn>>
      BY <2>1 DEF Remember
    <3>2. /\ opened' = [file |-> Chosen, is |-> "host"] /\ conn'[t] = opened' /\ pc'[t] = "opened"
          /\ \A u \in Task \ {t} : /\ pc'[u] = pc[u] /\ conn'[u].file = conn[u].file
                                   /\ IsOpen(conn'[u]) <=> IsOpen(conn[u])
          /\ model'.file = model.file /\ (IsOpen(model') <=> IsOpen(model))
          /\ (model' = NoConn <=> model = NoConn)
      BY <1>1, <2>1, Remembers
    <3>3. IsOpen(conn'[t]) /\ conn'[t].file = Chosen /\ opened'.file = Chosen /\ opened'.is = "host"
      BY <3>2 DEF IsOpen
    <3> QED
      BY <2>1, <3>1, <3>2, <3>3
  <2>2. CASE HostHasOne(t)
    <3>1. pc["check"] # "swapping"
      BY <2>2, Typed DEF HostHasOne, Early, Waiting, LaunchHasRead, Places, QInv
    <3>2. opened.file = Chosen /\ IsOpen(opened)
      BY <1>0, <2>2, <3>1 DEF HostHasOne, HostRight, IsOpen
    <3> QED
      BY <2>2, <3>2, Typed DEF HostHasOne, At
  <2>3. CASE HostOpensBundled(t)
    BY <1>1, <2>1, <2>3 DEF HostOpensBundled
  <2>4. CASE HostTriesInstalled(t)
    BY <2>4, Typed DEF HostTriesInstalled, At, IsOpen
  <2>5. CASE HostAdopts(t)
    <3>1. conn[t].file = Chosen
      BY <1>0, <1>1, <2>5 DEF HostAdopts, InHand
    <3> QED
      BY <2>1, <2>5, <3>1 DEF HostAdopts
  <2>6. CASE HostFallsBack(t)
    <3>1. Bundled = Chosen
      BY <1>0, <1>1, <2>6 DEF HostFallsBack, InHand
    <3> QED
      BY <2>1, <2>6, <3>1 DEF HostFallsBack
  <2> QED
    BY <2>2, <2>3, <2>4, <2>5, <2>6 DEF StoreStep
<1> HIDE DEF Opens
<1>3. /\ Chosen' = Chosen /\ t # "reader"
      /\ pc[t] \in {"opening", "adopting"} /\ pc'[t] \in {"adopting", "opened"}
      /\ Waiting' <=> Waiting
      /\ pc'["check"] \in {"opening", "adopting", "opened"} <=> pc["check"] \in {"opening", "adopting", "opened"}
      /\ pc'["launch"] \in {"opening", "adopting", "opened"} <=> pc["launch"] \in {"opening", "adopting", "opened"}
      /\ \A u \in Task : pc[u] \notin {"opening", "adopting", "opened"} => pc'[u] = pc[u]
      /\ \A u \in Task : pc'[u] \notin {"opening", "adopting", "opened"} => pc'[u] = pc[u]
  BY <1>0, <1>2, Typed DEF Opens, Chosen, Places, Waiting, LaunchHasRead
<1>4. Places' /\ SwapSeen' /\ Early'
  BY <1>0, <1>2, <1>3, Typed DEF Opens, Places, SwapSeen, Early
<1>5. HostRight'
  <2>1. opened' = opened \/ (opened'.file = Chosen /\ opened'.is = "host")
    BY <1>2 DEF Opens
  <2> QED
    BY <1>0, <1>3, <2>1, Typed DEF HostRight
<1>6. InHand'
  <2>1. ASSUME NEW u \in Task, pc'[u] = "adopting" PROVE IsOpen(conn'[u]) /\ conn'[u].file = disk'
    BY <1>0, <1>2, <2>1 DEF Opens, InHand
  <2>2. ASSUME NEW u \in Task, pc'[u] \in {"opened", "reading"}
        PROVE  IsOpen(conn'[u]) /\ conn'[u].file = Chosen'
    BY <1>0, <1>2, <1>3, <2>2 DEF Opens, InHand
  <2> QED
    BY <2>1, <2>2 DEF InHand
<1>7. Unhanded' <=> Unhanded
  BY <1>2, <1>3 DEF Opens, Unhanded
<1>8. ModelRight'
  BY <1>0, <1>2, <1>3, <1>7, Typed DEF Opens, ModelRight
<1>9. \A u \in Task : pc[u] \in {"asking", "answered"} \/ pc'[u] \in {"asking", "answered"} =>
        /\ pc'[u] = pc[u] /\ conn'[u].file = conn[u].file /\ answer'[u] = answer[u]
        /\ IsOpen(conn'[u]) <=> IsOpen(conn[u])
  BY <1>2, <1>3 DEF Opens
<1>10. ScreenBehind'
  BY <1>0, <1>2, <1>3, <1>9 DEF Opens, ScreenBehind, Shows
<1>11. ScreenRight'
  <2>1. Exchanging' <=> Exchanging
    BY <1>2, <1>3, Typed DEF Opens, Exchanging
  <2> QED
    BY <1>0, <1>2, <1>3, <1>9, <2>1 DEF Opens, ScreenRight
<1> QED
  BY <1>4, <1>5, <1>6, <1>8, <1>10, <1>11 DEF QInv

(* The launch, the reload and the reader.                                  *)
LEMMA TaskKeeps ==
  ASSUME TypeOK, TypeOK', QInv, ~torn,
         (\E t \in Task : LoadStep(t) \/ Show(t)) \/ ReaderAsks
  PROVE  QInv'
<1> USE DEF hostVars, modelVars, taskVars, checkVars, world
<1>0. /\ Places /\ SwapSeen /\ Early /\ HostRight /\ InHand /\ ModelRight /\ ScreenBehind /\ ScreenRight
  BY DEF QInv
<1>1. ASSUME UNCHANGED <<disk, opened>> PROVE Chosen' = Chosen
  BY <1>1 DEF Chosen
<1>2. ASSUME NEW t \in Task, LoadTakes(t) PROVE QInv'
  <2>1. /\ pc[t] = "opened" /\ Loading(t) /\ model' = conn[t] /\ Chosen' = Chosen
        /\ UNCHANGED <<disk, opened, known, current, screen, conn, answer, swapped, torn>>
        /\ pc'[t] = "reading" /\ \A u \in Task \ {t} : pc'[u] = pc[u]
    BY <1>1, <1>2, Typed DEF LoadTakes, At
  <2>2. IsOpen(model') /\ model'.file = Chosen /\ model' # NoConn /\ Unhanded /\ model = NoConn
    <3>1. IsOpen(model') /\ model'.file = Chosen
      BY <1>0, <2>1 DEF InHand
    <3> QED
      BY <1>0, <2>1, <3>1 DEF IsOpen, NoConn, Loading, Unhanded, ModelRight
  <2>3. Waiting' <=> Waiting
    BY <2>1, Typed DEF Waiting, LaunchHasRead, Loading
  <2>4. Exchanging' <=> Exchanging
    BY <2>1, Typed DEF Exchanging, Loading
  <2>5. Places' /\ SwapSeen' /\ Early'
    BY <1>0, <2>1, <2>3, Typed DEF Places, SwapSeen, Early, Loading
  <2>6. HostRight' /\ InHand'
    BY <1>0, <2>1, Typed DEF HostRight, InHand, Loading
  <2>7. ~Unhanded'
    <3>1. CASE t = "launch"
      <4>1. ~swapped
        BY <1>0, <2>1, <3>1 DEF Early, Waiting, LaunchHasRead
      <4> QED
        BY <2>1, <3>1, <4>1 DEF Unhanded
    <3>2. CASE t = "check" /\ swapped
      <4>1. pc["launch"] \in {"asking", "answered", "idle"}
        BY <1>0, <3>2 DEF Early, Waiting, LaunchHasRead
      <4> QED
        BY <2>1, <3>2, <4>1, Typed DEF Unhanded
    <3> QED
      BY <2>1, <3>1, <3>2 DEF Loading
  <2>8. ModelRight'
    BY <2>1, <2>2, <2>7, Typed DEF ModelRight
  <2>9. ScreenBehind'
    BY <1>0, <2>1, <2>2, Typed DEF ScreenBehind, Shows
  <2>10. ScreenRight'
    BY <1>0, <2>1, <2>3, <2>4 DEF ScreenRight
  <2> QED
    BY <2>5, <2>6, <2>8, <2>9, <2>10 DEF QInv
<1>3. ASSUME NEW t \in Task, LoadReads(t) \/ LoadFails(t) PROVE QInv'
  <2>1. pc[t] = "reading" /\ IsOpen(conn[t]) /\ t # "reader"
    BY <1>0, <1>3 DEF LoadReads, LoadFails, InHand, Places
  <2>2. ~Unhanded /\ pc["check"] \notin {"swapping", "installed"}
    <3>1. CASE t = "launch"
      BY <1>0, <2>1, <3>1 DEF Early, Waiting, LaunchHasRead, Unhanded, SwapSeen
    <3>2. CASE t = "check"
      BY <1>0, <2>1, <3>2 DEF Early, Waiting, LaunchHasRead, Unhanded, SwapSeen
    <3> QED
      BY <2>1, <3>1, <3>2, Typed
  <2>3. model # NoConn /\ IsOpen(model) /\ model.file = Chosen
    BY <1>0, <2>2 DEF ModelRight
  <2>4. /\ UNCHANGED <<disk, opened, model, screen, answer, swapped, torn>> /\ current' = t /\ Chosen' = Chosen
        /\ pc'[t] = "asking" /\ \A u \in Task \ {t} : pc'[u] = pc[u] /\ conn'[u] = conn[u]
        /\ conn'[t] = model
    BY <1>1, <1>3, <2>1, <2>3, Typed DEF LoadReads, LoadFails, At
  <2>5. Places' /\ SwapSeen' /\ Early'
    BY <1>0, <2>1, <2>4, Typed DEF Places, SwapSeen, Early, Waiting, LaunchHasRead
  <2>6. HostRight' /\ InHand'
    BY <1>0, <2>1, <2>4, Typed DEF HostRight, InHand
  <2>7. ModelRight'
    BY <1>0, <2>2, <2>1, <2>4, Typed DEF ModelRight, Unhanded
  <2>8. ScreenBehind'
    BY <1>0, <2>3, <2>4, Typed DEF ScreenBehind, Shows
  <2>9. ScreenRight'
    BY <2>3, <2>4 DEF ScreenRight
  <2> QED
    BY <2>5, <2>6, <2>7, <2>8, <2>9 DEF QInv
<1>4. CASE ReaderAsks
  <2>1. /\ UNCHANGED <<disk, opened, model, screen, swapped, torn>> /\ current' = "reader" /\ Chosen' = Chosen
        /\ pc'["reader"] = "asking" /\ conn'["reader"] = model /\ model # NoConn
        /\ \A u \in Task \ {"reader"} : pc'[u] = pc[u] /\ conn'[u] = conn[u] /\ answer'[u] = answer[u]
    BY <1>1, <1>4, Typed DEF ReaderAsks, At
  <2>2. Places' /\ SwapSeen' /\ Early' /\ HostRight'
    BY <1>0, <2>1, Typed DEF Places, SwapSeen, Early, Waiting, LaunchHasRead, HostRight
  <2>3. InHand' /\ (Unhanded' <=> Unhanded) /\ ModelRight'
    BY <1>0, <2>1, Typed DEF InHand, ModelRight, Unhanded
  <2>4. ScreenBehind'
    BY <1>0, <2>1, Typed DEF ScreenBehind, ModelRight, Shows
  <2>5. ScreenRight'
    <3>1. SUFFICES ASSUME ~Waiting, ~Exchanging PROVE IsOpen(model) /\ model.file = Chosen
      BY <2>1, Typed DEF ScreenRight, Waiting, LaunchHasRead, Exchanging
    <3>2. ~Unhanded
      BY <1>0, <2>1 DEF ModelRight
    <3>3. pc["check"] \notin {"swapping", "installed"}
      BY <1>0, <3>1 DEF Exchanging, SwapSeen
    <3> QED
      BY <1>0, <3>2, <3>3 DEF ModelRight
  <2> QED
    BY <2>2, <2>3, <2>4, <2>5 DEF QInv
<1>5. ASSUME NEW t \in Task, StoreAnswers(t) PROVE QInv'
  <2>1. /\ UNCHANGED <<disk, opened, model, known, current, screen, conn, swapped, torn>> /\ Chosen' = Chosen
        /\ pc[t] = "asking" /\ pc'[t] = "answered"
        /\ \A u \in Task \ {t} : pc'[u] = pc[u] /\ answer'[u] = answer[u]
    BY <1>1, <1>5, Typed DEF StoreAnswers, At
  <2>2. /\ IsOpen(conn[t]) => answer'[t].kind = "rows" /\ answer'[t].build = conn[t].file.build
        /\ ~IsOpen(conn[t]) => answer'[t].kind = "closed"
    BY <1>5 DEF StoreAnswers, TypeOK
  <2>3. Places' /\ SwapSeen' /\ Early' /\ HostRight' /\ InHand'
    BY <1>0, <2>1, Typed DEF Places, SwapSeen, Early, Waiting, LaunchHasRead, HostRight, InHand
  <2>4. ModelRight'
    BY <1>0, <2>1, Typed DEF ModelRight, Unhanded
  <2>5. ScreenBehind'
    BY <1>0, <2>1, <2>2, Typed DEF ScreenBehind, Shows
  <2>6. ScreenRight'
    <3>1. (Waiting' <=> Waiting) /\ (Exchanging' <=> Exchanging)
      BY <2>1, Typed DEF Waiting, LaunchHasRead, Exchanging
    <3> QED
      BY <1>0, <2>1, <2>2, <3>1, Typed DEF ScreenRight
  <2> QED
    BY <2>3, <2>4, <2>5, <2>6 DEF QInv
<1>6. ASSUME NEW t \in Task, Show(t) PROVE QInv'
  <2>1. /\ UNCHANGED <<disk, opened, model, known, current, torn>> /\ Chosen' = Chosen
        /\ pc[t] = "answered" /\ pc'[t] = "idle"
        /\ \A u \in Task \ {t} : pc'[u] = pc[u] /\ conn'[u] = conn[u] /\ answer'[u] = answer[u]
        /\ swapped' = IF t = "check" THEN FALSE ELSE swapped
    BY <1>1, <1>6, Typed DEF Show, Finish, Done, At, TypeOK
  <2>2. /\ current # t => screen' = screen
        /\ current = t /\ answer[t].kind = "rows" => screen'.kind = "ready" /\ screen'.build = answer[t].build
        /\ current = t /\ answer[t].kind # "rows" => screen'.build = screen.build
    BY <1>6 DEF Show, ShowRows, TypeOK
  <2>3. Places' /\ SwapSeen' /\ Early' /\ HostRight' /\ InHand'
    BY <1>0, <2>1, Typed DEF Places, SwapSeen, Early, Waiting, LaunchHasRead, HostRight, InHand
  <2>4. ModelRight'
    BY <1>0, <2>1, Typed DEF ModelRight, Unhanded
  <2>5. ScreenBehind'
    BY <1>0, <2>1, <2>2, Typed DEF ScreenBehind, Shows
  <2>6. ScreenRight'
    <3>1. (Waiting' <=> Waiting) /\ (Exchanging' <=> Exchanging)
      BY <1>0, <2>1, Typed DEF Waiting, LaunchHasRead, Exchanging
    <3> QED
      BY <1>0, <2>1, <2>2, <3>1, Typed DEF ScreenRight
  <2> QED
    BY <2>3, <2>4, <2>5, <2>6 DEF QInv
<1> QED
  BY <1>2, <1>3, <1>4, <1>5, <1>6 DEF LoadStep

(* The weekly check, from its start to the file in place.                  *)
LEMMA CheckKeeps ==
  ASSUME IInv, TypeOK, TypeOK', QInv, ~torn, ~torn',
         CheckStep \/ \E pulled \in BOOLEAN : StartCheck(pulled)
  PROVE  QInv'
<1> USE DEF hostVars, modelVars, taskVars, checkVars, world
<1>0. /\ Places /\ SwapSeen /\ Early /\ HostRight /\ InHand /\ ModelRight /\ ScreenBehind /\ ScreenRight
  BY DEF QInv
(* Before the exchange the check disturbs nothing.                         *)
<1>1. ASSUME UNCHANGED <<disk, opened, modelVars, torn>>, ~swapped, ~swapped',
             pc["check"] \in {"idle", "manifest", "opened", "payload", "validating"},
             pc'["check"] \in {"idle", "manifest", "opening", "payload", "validating", "closing"},
             \A u \in Task \ {"check"} : pc'[u] = pc[u] /\ conn'[u] = conn[u] /\ answer'[u] = answer[u]
      PROVE  QInv'
  <2>1. Chosen' = Chosen
    BY <1>1 DEF Chosen
  <2>2. Places' /\ SwapSeen' /\ Early' /\ HostRight' /\ InHand'
    BY <1>0, <1>1, <2>1, Typed DEF Places, SwapSeen, Early, Waiting, LaunchHasRead, HostRight, InHand
  <2>3. ModelRight'
    BY <1>0, <1>1, <2>1, Typed DEF ModelRight, Unhanded
  <2>4. ScreenBehind'
    BY <1>0, <1>1, <2>1, Typed DEF ScreenBehind, Shows
  <2>5. ScreenRight'
    BY <1>0, <1>1, <2>1, Typed DEF ScreenRight, Waiting, LaunchHasRead, Exchanging
  <2> QED
    BY <2>2, <2>3, <2>4, <2>5 DEF QInv
<1>2. ASSUME NEW pulled \in BOOLEAN, StartCheck(pulled) PROVE QInv'
  BY <1>0, <1>1, <1>2, Typed DEF StartCheck, At, SwapSeen
<1>3. CASE ManifestArrives
  BY <1>0, <1>1, <1>3, Typed DEF ManifestArrives, At, SwapSeen
<1>4. ASSUME Skip, ~swapped, pc["check"] \in {"manifest", "opened", "payload", "validating"} PROVE QInv'
  <2>1. /\ UNCHANGED <<disk, opened, modelVars, torn>> /\ ~swapped' /\ pc'["check"] = "idle"
        /\ \A u \in Task \ {"check"} : pc'[u] = pc[u] /\ conn'[u] = conn[u] /\ answer'[u] = answer[u]
    BY <1>4, Typed DEF Skip, Finish, Done, At, TypeOK
  <2> QED
    BY <1>1, <1>4, <2>1
<1>5. CASE FetchFails
  BY <1>0, <1>4, <1>5 DEF FetchFails, SwapSeen
<1>6. CASE Decide
  <2>1. CASE Skip
    BY <1>4, <1>6, <2>1 DEF Decide
  <2>2. CASE ~Skip
    BY <1>1, <1>6, <2>2, Typed DEF Decide, At
  <2> QED
    BY <2>1, <2>2
<1>7. CASE PayloadArrives
  BY <1>0, <1>1, <1>7, Typed DEF PayloadArrives, At, SwapSeen
<1>8. CASE Validate
  <2>1. pc["check"] = "validating" /\ ~swapped
    BY <1>0, <1>8 DEF Validate, SwapSeen
  <2>2. CASE Valid(staged)
    BY <1>1, <1>8, <2>1, <2>2, Typed DEF Validate, At
  <2>3. CASE ~Valid(staged)
    BY <1>4, <1>8, <2>1, <2>3 DEF Validate
  <2> QED
    BY <2>2, <2>3
<1>9. CASE CloseOld
  <2>1. pc["check"] = "closing" /\ ~swapped /\ ~Waiting
    BY <1>0, <1>9 DEF CloseOld, SwapSeen, Waiting
  <2>2. /\ UNCHANGED <<disk, known, current, screen, answer, swapped>> /\ Chosen' = Chosen
        /\ pc'["check"] = "swapping" /\ \A u \in Task \ {"check"} : pc'[u] = pc[u]
        /\ opened' # NoConn => opened # NoConn /\ opened'.file = opened.file
        /\ \A u \in Task : conn'[u].file = conn[u].file
        /\ model'.file = model.file /\ (model' = NoConn <=> model = NoConn)
    BY <1>9, Closes, Typed DEF CloseOld, At, Chosen
  <2>3. Places' /\ SwapSeen' /\ Early' /\ HostRight'
    BY <1>0, <2>1, <2>2, Typed DEF Places, SwapSeen, Early, Waiting, LaunchHasRead, HostRight
  <2>4. InHand'
    <3>1. \A u \in Task : pc'[u] \notin {"adopting", "opened", "reading"}
      BY <1>0, <2>1, <2>2, Typed DEF Waiting, LaunchHasRead, Places
    <3> QED
      BY <3>1 DEF InHand
  <2>5. ModelRight'
    BY <1>0, <2>1, <2>2, Typed DEF ModelRight, Unhanded
  <2>6. ScreenBehind'
    BY <1>0, <2>1, <2>2, Typed DEF ScreenBehind, Shows
  <2>7. ScreenRight'
    BY <2>2 DEF ScreenRight, Exchanging
  <2> QED
    BY <2>3, <2>4, <2>5, <2>6, <2>7 DEF QInv
<1>10. CASE Swap
  <2>1. pc["check"] = "swapping" /\ ~swapped /\ ~Waiting
    BY <1>0, <1>10 DEF Swap, SwapSeen, Early
  <2>2. /\ UNCHANGED <<known, current, screen, answer>> /\ opened' = NoConn /\ swapped' /\ disk' = staged
        /\ pc'["check"] = "installed" /\ \A u \in Task \ {"check"} : pc'[u] = pc[u]
        /\ \A u \in Task : conn'[u].file = conn[u].file
        /\ model'.file = model.file /\ (model' = NoConn <=> model = NoConn)
    BY <1>10, Forgets, Typed DEF Swap, At
  <2>3. staged.kind = "good" /\ Chosen' = staged /\ Chosen.build <= staged.build /\ staged.build \in Nat
    <3>1. staged.kind = "good" /\ NotOlder(staged.build)
      BY <2>1 DEF IInv, Downloads
    <3>2. staged.build \in Nat
      BY SwapAssumption DEF TypeOK, File
    <3>3. Chosen.build <= staged.build
      BY <3>1, <3>2, Typed DEF NotOlder, Chosen
    <3> QED
      BY <2>2, <3>1, <3>2, <3>3 DEF Chosen
  <2>4. Places' /\ SwapSeen' /\ Early' /\ HostRight'
    BY <1>0, <2>1, <2>2, <2>3, Typed DEF Places, SwapSeen, Early, Waiting, LaunchHasRead, HostRight
  <2>5. InHand'
    <3>1. \A u \in Task : pc'[u] \notin {"adopting", "opened", "reading"}
      BY <1>0, <2>1, <2>2, Typed DEF Waiting, LaunchHasRead, Places
    <3> QED
      BY <3>1 DEF InHand
  <2>6. ModelRight'
    BY <1>0, <2>1, <2>2, <2>3, Typed DEF ModelRight, Unhanded
  <2>7. ScreenBehind'
    BY <1>0, <2>1, <2>2, <2>3, Typed DEF ScreenBehind, Shows
  <2>8. ScreenRight'
    BY <2>2 DEF ScreenRight, Exchanging
  <2> QED
    BY <2>4, <2>5, <2>6, <2>7, <2>8 DEF QInv
<1>11. CASE Reload
  <2>1. pc["check"] = "installed" /\ swapped /\ ~Waiting
    BY <1>0, <1>11 DEF Reload, SwapSeen, Early
  <2>2. /\ UNCHANGED <<disk, opened, known, current, screen, conn, answer, swapped>> /\ Chosen' = Chosen
        /\ model' = NoConn
        /\ pc'["check"] = "opening" /\ \A u \in Task \ {"check"} : pc'[u] = pc[u]
    BY <1>11, Typed DEF Reload, At, Chosen
  <2>3. Places' /\ SwapSeen' /\ Early' /\ HostRight' /\ InHand'
    BY <1>0, <2>1, <2>2, Typed DEF Places, SwapSeen, Early, Waiting, LaunchHasRead, HostRight, InHand
  <2>4. ModelRight'
    BY <2>1, <2>2 DEF ModelRight, Unhanded
  <2>5. ScreenBehind'
    BY <1>0, <2>1, <2>2, Typed DEF ScreenBehind, Shows
  <2>6. ScreenRight'
    BY <2>1, <2>2 DEF ScreenRight, Exchanging
  <2> QED
    BY <2>3, <2>4, <2>5, <2>6 DEF QInv
<1>12. ASSUME NEW placed \in BOOLEAN, SwapThrows(placed) PROVE FALSE
  BY <1>12 DEF SwapThrows
<1> QED
  BY <1>2, <1>3, <1>5, <1>6, <1>7, <1>8, <1>9, <1>10, <1>11, <1>12 DEF CheckStep

(* A process that has torn the store stays so until the next one begins.   *)
LEMMA NextQInv == IInv /\ IInv' /\ QInv /\ [Next]_vars => QInv'
<1> SUFFICES ASSUME IInv, IInv', QInv, [Next]_vars PROVE QInv'
  OBVIOUS
<1>0. TypeOK /\ TypeOK'
  BY DEF IInv
<1>1. CASE Relaunch
  BY <1>0, <1>1, BeginsNext DEF Relaunch
<1>2. CASE torn'
  BY <1>2 DEF QInv
<1>3. CASE ~Relaunch /\ ~torn'
  <2>1. ~torn
    BY <1>3
    DEF Next, StoreStep, LoadStep, CheckStep, HostHasOne, HostOpensBundled, HostTriesInstalled, HostAdopts,
        HostFallsBack, Remember, LoadTakes, LoadReads, LoadFails, StoreAnswers, Show, ReaderAsks, StartCheck,
        Publish, Coverage, HourPasses, ManifestArrives, FetchFails, Skip, Decide, PayloadArrives, Validate,
        CloseOld, Swap, SwapThrows, Reload, vars, world
  <2>2. ASSUME UNCHANGED <<hostVars, modelVars, taskVars, checkVars, torn>> PROVE QInv'
    BY <2>2 DEF hostVars, modelVars, taskVars, checkVars, QInv, Places, SwapSeen, Early, Waiting,
       LaunchHasRead, HostRight, InHand, ModelRight, Unhanded, ScreenBehind, Shows, ScreenRight, Exchanging,
       Chosen
  <2>3. CASE Coverage \/ HourPasses \/ UNCHANGED vars \/ \E kind \in UploadKinds : Publish(kind)
    BY <2>2, <2>3 DEF Coverage, HourPasses, Publish, vars, world
  <2> QED
    BY <1>0, <1>3, <2>1, <2>3, HostKeeps, TaskKeeps, CheckKeeps DEF Next
<1> QED
  BY <1>1, <1>2, <1>3

LEMMA InitQInv == Init => QInv
BY Begins, InitTypes DEF Init

THEOREM SpecQInv == Spec => []QInv
BY SpecIInv, InitQInv, NextQInv, PTL DEF Spec

(* Once every task has come to rest, the connection the model answers from *)
(* is open and reads the file a new process would choose, and the screen   *)
(* shows that file.                                                        *)
THEOREM RestShowsTheStore == Spec => []QuietIsCurrent
<1>1. IInv /\ QInv => QuietIsCurrent
  <2> SUFFICES ASSUME IInv, QInv, Quiet, ~torn
               PROVE  /\ IsOpen(model) /\ model.file = Chosen
                      /\ screen = [kind |-> "ready", build |-> Chosen.build]
    BY DEF QuietIsCurrent
  <2>1. \A t \in Task : pc[t] = "idle"
    BY DEF Quiet
  <2>2. ~Waiting /\ ~Exchanging /\ ~Unhanded
    BY <2>1, Typed DEF IInv, QInv, SwapSeen, Waiting, LaunchHasRead, Exchanging, Unhanded
  <2>3. IsOpen(model) /\ model.file = Chosen
    BY <2>1, <2>2, Typed DEF IInv, QInv, ModelRight
  <2>4. screen.kind = "ready" /\ screen.build = Chosen.build
    BY <2>1, <2>2 DEF QInv, ScreenRight
  <2> QED
    BY <2>3, <2>4 DEF IInv, TypeOK
<1> QED
  BY <1>1, SpecIInv, SpecQInv, PTL

(* An old answer that comes late is never shown over a newer store's: the  *)
(* build on screen only moves forward within a process.                    *)
THEOREM ScreenForward == Spec => ScreenNeverGoesBack
<1>1. IInv /\ QInv /\ [Next]_vars
        => [relaunches' = relaunches /\ ~torn' => screen'.build >= screen.build]_vars
  <2> SUFFICES ASSUME IInv, QInv, [Next]_vars, relaunches' = relaunches, ~torn'
               PROVE  screen'.build >= screen.build
    OBVIOUS
  <2>1. screen.build \in Nat /\ \A t \in Task : answer[t].build \in Nat
    BY Typed DEF IInv
  <2>2. ASSUME NEW t \in Task, Show(t) PROVE screen'.build >= screen.build
    <3>1. \/ screen'.build = screen.build
          \/ current = t /\ pc[t] = "answered" /\ answer[t].kind = "rows" /\ screen'.build = answer[t].build
      BY <2>2 DEF Show, ShowRows, IInv, TypeOK
    <3>2. ~torn
      BY <2>2 DEF Show, world
    <3> QED
      BY <2>1, <3>1, <3>2 DEF QInv, ScreenBehind, Shows
  <2>3. ASSUME NEW t \in Task, LoadFails(t) PROVE screen'.build >= screen.build
    BY <2>1, <2>3 DEF LoadFails, IInv, TypeOK
  <2>4. ~Relaunch
    BY DEF Relaunch, IInv, TypeOK
  <2> QED
    BY <2>1, <2>2, <2>3, <2>4
    DEF Next, StoreStep, LoadStep, CheckStep, HostHasOne, HostOpensBundled, HostTriesInstalled,
        HostAdopts, HostFallsBack, Remember, LoadTakes, LoadReads, StoreAnswers, ReaderAsks,
        StartCheck, Publish, Coverage, HourPasses, ManifestArrives, FetchFails, Skip, Decide,
        PayloadArrives, Validate, CloseOld, Swap, SwapThrows, Reload, vars, modelVars
<1> QED
  BY <1>1, SpecIInv, SpecQInv, PTL DEF Spec, ScreenNeverGoesBack
=============================================================================
