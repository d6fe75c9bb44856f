--------------------------- MODULE OpenServerProofs ---------------------------
(***************************************************************************)
(* Theorems about the server without [auth] and its configuration, for any *)
(* number of threads, uploads, configurations and changes of the file.     *)
(***************************************************************************)
EXTENDS OpenServer, FiniteSetTheorems, SequenceTheorems, WellFoundedInduction, TLAPS

Stamps == Nat \cup {None}

Locations == {"idle", "download", "field", "store", "create", "consume", "find", "remove"}

GoodRequest(k) ==
  /\ k \in [pc : Locations, upload : {k.upload}, name : {k.name}, path : {k.path},
            stamp : Stamps]
  /\ k.pc = "create" => k.path.stamp \in Stamps

(* The types that the actions rely on, of the configuration ...            *)
ConfigTypes ==
  /\ disk \in Configs \cup {None} /\ parsed \in Configs \cup {None}
  /\ event \in BOOLEAN
  /\ config \in Configs /\ ~config.auth
  /\ channel \in Seq(Configs)

(* ... and of the server.                                                  *)
ServerTypes ==
  /\ now \in 0..MaxTime
  /\ cleaner = [pc |-> cleaner.pc, enabled |-> cleaner.enabled, todo |-> cleaner.todo]
  /\ cleaner.pc \in {"loop", "remove"} /\ cleaner.enabled \in BOOLEAN
  /\ IsFiniteSet(DOMAIN fs)
  /\ \A p \in DOMAIN fs : p.stamp \in Stamps
  /\ req = [r \in Threads |-> req[r]]
  /\ \A r \in Threads : GoodRequest(req[r])
  /\ sent \subseteq Uploads

Types == ConfigTypes /\ ServerTypes

------------------------------------------------------------------------------
(* Types *)

(* Only the watcher and the cleanup thread touch the configuration.        *)
LEMMA ConfigMoves ==
  ASSUME [Next]_vars
  PROVE  \/ EditFile \/ ParseFile \/ ReplaceConfig
         \/ ReceiveConfig /\ UNCHANGED <<disk, edits, event, parsed, config>>
         \/ UNCHANGED configVars
<1>1. \A r \in Threads : Arrive(r) \/ Handle(r) => UNCHANGED configVars
  BY DEF Arrive, ArriveUpload, View, ArriveDelete, Handle, Download, FindDuplicate,
         CheckTarget, Create, Consume, FindFile, RemovePasteFile
<1>2. Cleaner => \/ ReceiveConfig /\ UNCHANGED <<disk, edits, event, parsed, config>>
                 \/ UNCHANGED configVars
  BY DEF Cleaner, ScanExpired, RemoveExpired, SleepAndTryReceive, WaitForConfig,
         UnchangedButCleaner, configVars
<1>3. Watcher \/ Edit => EditFile \/ ParseFile \/ ReplaceConfig
  BY DEF Watcher, Parse, Replace, Edit
<1>4. Tick \/ UNCHANGED vars => UNCHANGED configVars
  BY DEF Tick, vars
<1>. QED
  BY <1>1, <1>2, <1>3, <1>4 DEF Next

(* A configuration with other authentication settings never comes in.      *)
LEMMA ConfigStep == Types /\ [Next]_vars => ConfigTypes'
<1> SUFFICES ASSUME Types, [Next]_vars PROVE ConfigTypes'
  OBVIOUS
<1>. USE DEF Types, ConfigTypes
<1>1. CASE EditFile
  BY <1>1 DEF EditFile
<1>2. CASE ParseFile
  BY <1>2 DEF ParseFile
<1>3. CASE ReplaceConfig
  <2>1. parsed \in Configs
    BY <1>3 DEF ReplaceConfig
  <2>2. AuthConfigsMatch(config, parsed) => ~parsed.auth
    BY DEF AuthConfigsMatch, Fingerprint
  <2>3. config' \in Configs /\ ~config'.auth
    BY <1>3, <2>1, <2>2 DEF ReplaceConfig
  <2>4. channel' \in Seq(Configs)
    BY <1>3, <2>1 DEF ReplaceConfig, Send
  <2>. QED
    BY <1>3, <2>3, <2>4 DEF ReplaceConfig
<1>4. CASE ReceiveConfig /\ UNCHANGED <<disk, edits, event, parsed, config>>
  BY <1>4 DEF ReceiveConfig
<1>5. CASE UNCHANGED configVars
  BY <1>5 DEF configVars
<1>. QED
  BY <1>1, <1>2, <1>3, <1>4, <1>5, ConfigMoves

(* The state of the cleanup thread is its own.                             *)
LEMMA CleanerMoves ==
  ASSUME [Next]_vars
  PROVE  Cleaner \/ UNCHANGED cleaner
BY DEF Next, Tick, Edit, Watcher, Parse, Replace, serverVars, vars, Arrive, ArriveUpload,
   View, ArriveDelete, Handle, Download, FindDuplicate, CheckTarget, Create, Consume,
   FindFile, RemovePasteFile

(* A step gives the directory one file more at most.                       *)
LEMMA FilesMove ==
  ASSUME Types, [Next]_vars
  PROVE  \/ UNCHANGED fs
         \/ \E p : fs' = Without(p)
         \/ \E r \in Threads : Create(r) \/ Consume(r)
<1>1. Tick \/ Edit \/ Watcher \/ UNCHANGED vars => UNCHANGED fs
  BY DEF Tick, Edit, Watcher, Parse, Replace, serverVars, vars
<1>2. Cleaner => UNCHANGED fs \/ \E p : fs' = Without(p)
  BY DEF Cleaner, ScanExpired, RemoveExpired, SleepAndTryReceive, WaitForConfig,
         UnchangedButCleaner
<1>3. \A r \in Threads :
        Arrive(r) \/ Handle(r)
          => \/ UNCHANGED fs \/ Create(r) \/ Consume(r) \/ \E p : fs' = Without(p)
  BY DEF Arrive, ArriveUpload, View, ArriveDelete, Handle, Download, FindDuplicate,
         CheckTarget, FindFile, RemovePasteFile
<1>. QED
  BY <1>1, <1>2, <1>3 DEF Next

(* What a step does to the requests: all but one stay.                     *)
LEMMA RequestsMove ==
  ASSUME Types, [Next]_vars
  PROVE  \/ UNCHANGED req
         \/ \E r \in Threads :
              /\ \E k : GoodRequest(k) /\ req' = [req EXCEPT ![r] = k]
              /\ Arrive(r) \/ Handle(r)
<1>1. Tick \/ Edit \/ Watcher \/ Cleaner \/ UNCHANGED vars => UNCHANGED req
  BY DEF Tick, Edit, Watcher, Parse, Replace, serverVars, vars, Cleaner, ScanExpired,
         RemoveExpired, SleepAndTryReceive, WaitForConfig, UnchangedButCleaner
<1>2. ASSUME NEW r \in Threads, Arrive(r) \/ Handle(r)
      PROVE  UNCHANGED req \/ \E k : GoodRequest(k) /\ req' = [req EXCEPT ![r] = k]
  <2>1. /\ req = [q \in Threads |-> req[q]]
        /\ GoodRequest(req[r])
        /\ now \in Nat
    BY OpenAssumption DEF Types, ServerTypes
  <2>2. GoodRequest(NoRequest)
    BY DEF GoodRequest, NoRequest, Locations, Stamps
  <2>3. ASSUME Done(r) PROVE \E k : GoodRequest(k) /\ req' = [req EXCEPT ![r] = k]
    BY <2>2, <2>3 DEF Done
  <2>4. ASSUME NEW u, ArriveUpload(r, u)
        PROVE  \E k : GoodRequest(k) /\ req' = [req EXCEPT ![r] = k]
    <3> DEFINE k == [req[r] EXCEPT !.pc = IF u.type = "remote_file" THEN "download" ELSE "field",
                                   !.upload = u, !.stamp = ExpiryDate(u)]
    <3>1. ExpiryDate(u) \in Stamps
      BY <2>1, OpenAssumption DEF ExpiryDate, Stamps
    <3>2. GoodRequest(k)
      BY <2>1, <3>1 DEF GoodRequest, Locations
    <3>3. req' = [req EXCEPT ![r] = k]
      BY <2>4 DEF ArriveUpload
    <3>. QED
      BY <3>2, <3>3
  <2>5. ASSUME NEW pc \in {"field", "store"}, req' = [req EXCEPT ![r].pc = pc]
        PROVE  \E k : GoodRequest(k) /\ req' = [req EXCEPT ![r] = k]
    <3>1. GoodRequest([req[r] EXCEPT !.pc = pc])
      BY <2>1 DEF GoodRequest, Locations
    <3>. QED
      BY <2>5, <3>1
  <2>6. ASSUME NEW p, p.stamp \in Stamps, req' = [req EXCEPT ![r].pc = "create", ![r].path = p]
        PROVE  \E k : GoodRequest(k) /\ req' = [req EXCEPT ![r] = k]
    <3>1. GoodRequest([req[r] EXCEPT !.pc = "create", !.path = p])
      BY <2>1, <2>6 DEF GoodRequest, Locations
    <3>. QED
      BY <2>6, <3>1
  <2>7. ASSUME NEW p, req' = [req EXCEPT ![r].pc = "consume", ![r].path = p]
        PROVE  \E k : GoodRequest(k) /\ req' = [req EXCEPT ![r] = k]
    <3>1. GoodRequest([req[r] EXCEPT !.pc = "consume", !.path = p])
      BY <2>1 DEF GoodRequest, Locations
    <3>. QED
      BY <2>7, <3>1
  <2>8. ASSUME NEW n, req' = [req EXCEPT ![r].pc = "find", ![r].name = n]
        PROVE  \E k : GoodRequest(k) /\ req' = [req EXCEPT ![r] = k]
    <3>1. GoodRequest([req[r] EXCEPT !.pc = "find", !.name = n])
      BY <2>1 DEF GoodRequest, Locations
    <3>. QED
      BY <2>8, <3>1
  <2>9. ASSUME NEW n, NEW p,
               req' = [req EXCEPT ![r].pc = "remove", ![r].name = n, ![r].path = p]
        PROVE  \E k : GoodRequest(k) /\ req' = [req EXCEPT ![r] = k]
    <3>1. GoodRequest([req[r] EXCEPT !.pc = "remove", !.name = n, !.path = p])
      BY <2>1 DEF GoodRequest, Locations
    <3>. QED
      BY <2>9, <3>1
  <2>10. CASE CheckTarget(r)
    <3>1. req[r].stamp \in Stamps
      BY <2>1 DEF GoodRequest
    <3>. QED
      BY <2>3, <2>6, <2>10, <3>1 DEF CheckTarget, Path
  <2>11. CASE Download(r) \/ FindDuplicate(r)
    BY <2>3, <2>5, <2>11 DEF Download, FindDuplicate
  <2>12. CASE FindFile(r)
    BY <2>3, <2>9, <2>12 DEF FindFile
  <2>13. CASE Create(r) \/ Consume(r) \/ RemovePasteFile(r)
    BY <2>3, <2>13 DEF Create, Consume, RemovePasteFile
  <2>14. CASE Arrive(r)
    BY <2>4, <2>7, <2>8, <2>14 DEF Arrive, View, ArriveDelete
  <2>. QED
    BY <1>2, <2>10, <2>11, <2>12, <2>13, <2>14 DEF Handle
<1>. QED
  BY <1>1, <1>2 DEF Next

(* Only a check makes a creator of a request.                              *)
LEMMA CreatorsMove ==
  ASSUME Types, [Next]_vars, NEW r \in Threads, req'[r].pc = "create", ~CheckTarget(r)
  PROVE  At(r, "create") /\ req'[r] = req[r]
<1>1. /\ req = [q \in Threads |-> req[q]]
      /\ GoodRequest(req[r])
  BY DEF Types, ServerTypes
<1>2. ASSUME Arrive(r) \/ Handle(r) PROVE req'[r].pc # "create"
  <2>1. Done(r) => req'[r].pc # "create"
    BY <1>1 DEF Done, NoRequest
  <2>2. Arrive(r) => req'[r].pc # "create"
    <3>1. \A u : ArriveUpload(r, u) => req'[r].pc \in {"download", "field"}
      BY <1>1 DEF ArriveUpload, GoodRequest
    <3>2. \A n : View(r, n) => req'[r].pc = "consume"
      BY <1>1 DEF View, GoodRequest
    <3>3. \A n : ArriveDelete(r, n) => req'[r].pc = "find"
      BY <1>1 DEF ArriveDelete, GoodRequest
    <3>. QED
      BY <3>1, <3>2, <3>3 DEF Arrive
  <2>3. Download(r) \/ FindDuplicate(r) \/ FindFile(r) => req'[r].pc # "create"
    BY <1>1, <2>1 DEF Download, FindDuplicate, FindFile, GoodRequest
  <2>4. Create(r) \/ Consume(r) \/ RemovePasteFile(r) => Done(r)
    BY DEF Create, Consume, RemovePasteFile
  <2>. QED
    BY <1>2, <2>1, <2>2, <2>3, <2>4 DEF Handle
<1>3. CASE UNCHANGED req
  BY <1>3 DEF At
<1>4. ASSUME NEW q \in Threads, Arrive(q) \/ Handle(q), NEW k, req' = [req EXCEPT ![q] = k]
      PROVE  q # r /\ req'[r] = req[r]
  BY <1>1, <1>2, <1>4
<1>. QED
  BY <1>3, <1>4, RequestsMove DEF At

(* What is stored has a stamp or none, and there are finitely many files.  *)
LEMMA ServerStep == Types /\ [Next]_vars => ServerTypes'
<1> SUFFICES ASSUME Types, [Next]_vars PROVE ServerTypes'
  OBVIOUS
<1>1. ServerTypes /\ now \in Nat
  BY OpenAssumption DEF Types, ServerTypes
<1>2. now' \in 0..MaxTime
  <2>1. CASE Tick
    BY <1>1, <2>1, OpenAssumption DEF Tick, ServerTypes
  <2>2. CASE ~Tick
    BY <1>1, <2>2 DEF Next, Edit, Watcher, Parse, Replace, serverVars, vars, Cleaner,
       ScanExpired, RemoveExpired, SleepAndTryReceive, WaitForConfig, UnchangedButCleaner,
       Arrive, ArriveUpload, View, ArriveDelete, Handle, Download, FindDuplicate,
       CheckTarget, Create, Consume, FindFile, RemovePasteFile, ServerTypes
  <2>. QED
    BY <2>1, <2>2
<1>3. /\ cleaner' = [pc |-> cleaner'.pc, enabled |-> cleaner'.enabled, todo |-> cleaner'.todo]
      /\ cleaner'.pc \in {"loop", "remove"} /\ cleaner'.enabled \in BOOLEAN
  <2> USE <1>1 DEF ServerTypes
  <2>1. CASE ScanExpired
    BY <2>1 DEF ScanExpired
  <2>2. CASE RemoveExpired
    BY <2>2 DEF RemoveExpired
  <2>3. CASE ReceiveConfig
    <3>1. Head(channel) \in Configs
      BY <2>3 DEF ReceiveConfig, Types, ConfigTypes
    <3>2. Head(channel).cleanup \in BOOLEAN
      BY <3>1, ConfigsAssumption DEF ConfigRecords
    <3>. QED
      BY <2>3, <3>2 DEF ReceiveConfig
  <2>4. CASE SleepAndTryReceive \/ WaitForConfig
    BY <2>3, <2>4 DEF SleepAndTryReceive, WaitForConfig
  <2>5. CASE UNCHANGED cleaner
    BY <2>5
  <2>. QED
    BY <2>1, <2>2, <2>4, <2>5, CleanerMoves DEF Cleaner
<1>4. IsFiniteSet((DOMAIN fs)') /\ \A p \in (DOMAIN fs)' : p.stamp \in Stamps
  <2> USE <1>1 DEF ServerTypes
  <2>1. ASSUME NEW p, fs' = Without(p)
        PROVE  IsFiniteSet((DOMAIN fs)') /\ \A q \in (DOMAIN fs)' : q.stamp \in Stamps
    <3>1. DOMAIN fs' = DOMAIN fs \ {p}
      BY <2>1 DEF Without, Restrict
    <3>. QED
      BY <3>1, FS_RemoveElement
  <2>2. ASSUME NEW r \in Threads, Create(r)
        PROVE  IsFiniteSet((DOMAIN fs)') /\ \A q \in (DOMAIN fs)' : q.stamp \in Stamps
    <3>1. req[r].path.stamp \in Stamps
      BY <2>2 DEF Create, At, GoodRequest
    <3>2. UNCHANGED fs \/ DOMAIN fs' = DOMAIN fs \cup {req[r].path}
      BY <2>2 DEF Create
    <3>. QED
      BY <3>1, <3>2, FS_AddElement
  <2>3. ASSUME NEW r \in Threads, Consume(r)
        PROVE  IsFiniteSet((DOMAIN fs)') /\ \A q \in (DOMAIN fs)' : q.stamp \in Stamps
    <3> DEFINE p == req[r].path
               c == Path(p.root, p.dir, p.name, now)
    <3>1. c.stamp \in Stamps
      BY <1>1 DEF Path, Stamps
    <3>2. UNCHANGED fs \/ DOMAIN fs' = (DOMAIN fs \ {p}) \cup {c}
      BY <2>3 DEF Consume
    <3> HIDE DEF p, c
    <3>3. IsFiniteSet((DOMAIN fs \ {p}) \cup {c})
      BY FS_RemoveElement, FS_AddElement
    <3>. QED
      BY <3>1, <3>2, <3>3
  <2>. QED
    BY <2>1, <2>2, <2>3, FilesMove
<1>5. req' = [r \in Threads |-> req'[r]] /\ \A r \in Threads : GoodRequest(req'[r])
  BY <1>1, RequestsMove DEF ServerTypes
<1>6. sent' \subseteq Uploads
  <2>1. ASSUME NEW r \in Threads, NEW u \in Uploads, ArriveUpload(r, u)
        PROVE  sent' \subseteq Uploads
    BY <1>1, <2>1 DEF ArriveUpload, ServerTypes
  <2>2. ASSUME ~\E r \in Threads, u \in Uploads : ArriveUpload(r, u) PROVE UNCHANGED sent
    BY <2>2 DEF Next, Tick, Edit, Watcher, Parse, Replace, serverVars, vars, Cleaner,
       ScanExpired, RemoveExpired, SleepAndTryReceive, WaitForConfig, UnchangedButCleaner,
       Arrive, View, ArriveDelete, Handle, Download, FindDuplicate,
       CheckTarget, Create, Consume, FindFile, RemovePasteFile
  <2>. QED
    BY <1>1, <2>1, <2>2 DEF ServerTypes
<1>. QED
  BY <1>2, <1>3, <1>4, <1>5, <1>6 DEF ServerTypes

(* So the types hold in every state.                                       *)
LEMMA TypesHold == Spec => []Types
<1>1. Init => ConfigTypes
  <2>1. <<>> \in Seq(Configs)
    OBVIOUS
  <2>. QED
    BY <2>1, ConfigsAssumption, StartAssumption DEF Init, ConfigInit, ConfigTypes
<1>2. Init => ServerTypes
  <2>1. StartConfig.cleanup \in BOOLEAN
    BY ConfigsAssumption DEF ConfigRecords
  <2>. QED
    BY <2>1, FS_EmptySet, OpenAssumption
       DEF Init, ServerTypes, GoodRequest, NoRequest, Locations, Stamps
<1>3. Types /\ [Next]_vars => Types'
  BY ConfigStep, ServerStep DEF Types
<1>. QED
  BY <1>1, <1>2, <1>3, PTL DEF Types, Spec

(* Every variable has its type, and [auth] never comes in.                 *)
THEOREM TypeCorrect == Spec => []TypeOK
<1>1. Types => TypeOK
  BY DEF Types, ConfigTypes, ServerTypes, GoodRequest, Locations, Stamps, TypeOK
<1>. QED
  BY <1>1, TypesHold, PTL

------------------------------------------------------------------------------
(* The copy of the cleanup thread *)

(* No configuration that comes into use is withheld from the cleanup       *)
(* thread, and none that is refused reaches it: the last one in its queue, *)
(* or its own when the queue is empty, is that of the handlers.            *)
THEOREM CleanupIsUpToDate == Spec => []CleanupGetsTheLatest
<1>1. Init => CleanupGetsTheLatest
  BY DEF Init, ConfigInit, CleanupGetsTheLatest
<1>2. Types /\ CleanupGetsTheLatest /\ [Next]_vars => CleanupGetsTheLatest'
  <2> SUFFICES ASSUME Types, CleanupGetsTheLatest, [Next]_vars PROVE CleanupGetsTheLatest'
    OBVIOUS
  <2>1. channel \in Seq(Configs) /\ parsed \in Configs \cup {None}
    BY DEF Types, ConfigTypes
  <2>2. CASE ReplaceConfig /\ UNCHANGED cleaner
    <3>1. parsed \in Configs
      BY <2>1, <2>2 DEF ReplaceConfig
    <3>2. CASE AuthConfigsMatch(config, parsed)
      <4>1. channel' = Append(channel, parsed) /\ config' = parsed
        BY <2>2, <3>2 DEF ReplaceConfig, Send
      <4>2. channel' # <<>> /\ channel'[Len(channel')] = parsed
        BY <2>1, <3>1, <4>1
      <4>. QED
        BY <4>1, <4>2 DEF CleanupGetsTheLatest
    <3>3. CASE ~AuthConfigsMatch(config, parsed)
      BY <2>2, <3>3 DEF ReplaceConfig, Send, CleanupGetsTheLatest
    <3>. QED
      BY <3>2, <3>3
  <2>3. CASE ReceiveConfig /\ UNCHANGED config
    <3>1. CASE Len(channel) = 1
      <4>1. channel' = <<>> /\ channel[Len(channel)] = Head(channel)
        BY <2>1, <2>3, <3>1 DEF ReceiveConfig
      <4>2. cleaner'.enabled = Head(channel).cleanup
        BY <2>3 DEF ReceiveConfig, Types, ServerTypes
      <4>. QED
        BY <2>3, <4>1, <4>2 DEF CleanupGetsTheLatest, ReceiveConfig
    <3>2. CASE Len(channel) # 1
      <4>1. channel' = Tail(channel) /\ channel # <<>>
        BY <2>3 DEF ReceiveConfig
      <4>2. Len(channel) \in Nat /\ Len(channel) > 1
        BY <2>1, <3>2, <4>1, EmptySeq, LenProperties
      <4>3. Len(Tail(channel)) = Len(channel) - 1
        BY <2>1, <4>1, HeadTailProperties
      <4>4. Tail(channel)[Len(channel) - 1] = channel[Len(channel)]
        BY <2>1, <4>1, <4>2, HeadTailProperties
      <4>5. channel' # <<>> /\ channel'[Len(channel')] = channel[Len(channel)]
        <5> DEFINE t == Tail(channel)
        <5>1. /\ channel' = t /\ t[Len(channel) - 1] = channel[Len(channel)]
              /\ Len(t) = Len(channel) - 1
          BY <4>1, <4>3, <4>4
        <5> HIDE DEF t
        <5>2. Len(t) # 0
          BY <4>2, <5>1
        <5>3. t # <<>>
          BY <5>2
        <5>. QED
          BY <5>1, <5>3
      <4>. QED
        BY <2>3, <4>1, <4>5 DEF CleanupGetsTheLatest
    <3>. QED
      BY <3>1, <3>2
  <2>4. ASSUME ~ReplaceConfig, ~ReceiveConfig PROVE CleanupGetsTheLatest'
    <3>1. UNCHANGED <<channel, config>>
      BY <2>4, ConfigMoves DEF EditFile, ParseFile, configVars
    <3>2. ASSUME ScanExpired \/ RemoveExpired PROVE cleaner'.enabled = cleaner.enabled
      BY <3>2 DEF ScanExpired, RemoveExpired, Types, ServerTypes
    <3>3. ASSUME SleepAndTryReceive \/ WaitForConfig PROVE cleaner'.enabled = cleaner.enabled
      BY <2>4, <3>3 DEF SleepAndTryReceive, WaitForConfig, Types, ServerTypes
    <3>4. UNCHANGED cleaner \/ Cleaner
      BY CleanerMoves
    <3>. QED
      BY <3>1, <3>2, <3>3, <3>4 DEF Cleaner, CleanupGetsTheLatest
  <2>5. ReplaceConfig => UNCHANGED cleaner
    <3>1. Cleaner => UNCHANGED parsed
      BY DEF Cleaner, ScanExpired, RemoveExpired, SleepAndTryReceive, WaitForConfig,
         UnchangedButCleaner, configVars
    <3>2. ReplaceConfig => parsed' # parsed
      BY DEF ReplaceConfig
    <3>. QED
      BY <3>1, <3>2, CleanerMoves
  <2>6. ReceiveConfig => UNCHANGED config \/ ReplaceConfig
    BY ConfigMoves DEF EditFile, ParseFile, configVars
  <2>. QED
    BY <2>2, <2>3, <2>4, <2>5, <2>6
<1>. QED
  BY <1>1, <1>2, TypesHold, PTL DEF Spec

------------------------------------------------------------------------------
(* The size of the upload directory *)

(* A directory has one limit, which a new configuration does not change.   *)
LimitsAreFixed ==
  \A c, d \in Configs :
    ~c.auth /\ ~d.auth /\ c.upload_path = d.upload_path
      => c.max_upload_dir_size = d.max_upload_dir_size

LimitedDirs == {"root", "oneshot", "protected_file"}

(* The handlers that have passed the check and not yet created their file  *)
Creators(root, dir) ==
  {r \in Threads : At(r, "create") /\ req[r].path.root = root /\ req[r].path.dir = dir}

(* The files that are there and those about to be are as many as the limit *)
(* and one for every other thread.  The files alone would not do: a        *)
(* handler creates its file whatever has been created since its check.     *)
RoomForAll(c, dir) ==
  Cardinality(FilesIn(c.upload_path, dir)) + Cardinality(Creators(c.upload_path, dir))
    <= c.max_upload_dir_size + Cardinality(Threads) - 1

Limited(c) == c \in Configs /\ ~c.auth /\ c.max_upload_dir_size # None

RoomInAll == \A c \in Configs : Limited(c) => \A dir \in LimitedDirs : RoomForAll(c, dir)

(* Both are finite, in any directory.                                      *)
LEMMA FiniteFiles ==
  ASSUME Types, NEW root, NEW dir
  PROVE  /\ IsFiniteSet(FilesIn(root, dir)) /\ Cardinality(FilesIn(root, dir)) \in Nat
         /\ IsFiniteSet(Creators(root, dir)) /\ Cardinality(Creators(root, dir)) \in Nat
         /\ Cardinality(Creators(root, dir)) <= Cardinality(Threads)
         /\ Cardinality(Threads) \in Nat /\ Cardinality(Threads) >= 1
<1>1. IsFiniteSet(DOMAIN fs)
  BY DEF Types, ServerTypes
<1>2. FilesIn(root, dir) \subseteq DOMAIN fs /\ Creators(root, dir) \subseteq Threads
  BY DEF FilesIn, Creators
<1>3. IsFiniteSet(FilesIn(root, dir)) /\ IsFiniteSet(Creators(root, dir))
  BY <1>1, <1>2, FS_Subset, ThreadsAssumption
<1>4. Cardinality(Creators(root, dir)) <= Cardinality(Threads)
  BY <1>2, FS_Subset, ThreadsAssumption
<1>5. Cardinality(Threads) \in Nat /\ Cardinality(Threads) # 0
  BY FS_EmptySet, FS_CardinalityType, ThreadsAssumption
<1>. QED
  BY <1>3, <1>4, <1>5, FS_CardinalityType

(* A handler that passes the check finds room for its file, in a directory *)
(* of the configuration in use.                                            *)
LEMMA CheckedTargetFits ==
  ASSUME Types, LimitsAreFixed, NEW r \in Threads, CheckTarget(r),
         NEW c \in Configs, Limited(c), NEW dir \in LimitedDirs,
         r \in Creators(c.upload_path, dir)'
  PROVE  Cardinality(FilesIn(c.upload_path, dir)) + 1 <= c.max_upload_dir_size
<1> DEFINE u == req[r].upload
<1>1. /\ MayStore(u, config.upload_path)
      /\ req' = [req EXCEPT ![r].pc = "create",
                            ![r].path = Path(config.upload_path, GetDir(u.type), u.name,
                                             req[r].stamp)]
  <2>1. req'[r].pc = "create"
    BY DEF Creators, At
  <2>2. ~Done(r)
    BY <2>1 DEF Done, NoRequest, Types, ServerTypes
  <2>. QED
    BY <2>2 DEF CheckTarget
<1>2. req'[r].path.root = config.upload_path /\ req'[r].path.dir = GetDir(u.type)
  BY <1>1 DEF Path, Types, ServerTypes, GoodRequest
<1>3. config.upload_path = c.upload_path /\ GetDir(u.type) = dir
  BY <1>2 DEF Creators
<1>4. config.max_upload_dir_size = c.max_upload_dir_size /\ config.max_upload_dir_size # None
  BY <1>3 DEF LimitsAreFixed, Limited, Types, ConfigTypes
<1>5. ~StoredByUrl(u)
  BY <1>3 DEF StoredByUrl, GetDir, LimitedDirs
<1>6. DirSize(c.upload_path, dir) + 1 <= c.max_upload_dir_size
  BY <1>1, <1>3, <1>4, <1>5 DEF MayStore, FitsIntoLimit
<1>7. Cardinality(FilesIn(c.upload_path, dir)) <= DirSize(c.upload_path, dir)
  <2> DEFINE all == {p \in DOMAIN fs : p.root = c.upload_path /\ dir \in {p.dir, "root"}}
  <2>1. FilesIn(c.upload_path, dir) \subseteq all /\ all \subseteq DOMAIN fs
    BY DEF FilesIn
  <2>2. IsFiniteSet(all)
    BY <2>1, FS_Subset DEF Types, ServerTypes
  <2>3. Cardinality(FilesIn(c.upload_path, dir)) <= Cardinality(all)
    BY <2>1, <2>2, FS_Subset
  <2>. QED
    BY <2>3 DEF DirSize
<1>8. DirSize(c.upload_path, dir) \in Nat /\ c.max_upload_dir_size \in Nat
  <2> DEFINE all == {p \in DOMAIN fs : p.root = c.upload_path /\ dir \in {p.dir, "root"}}
  <2>1. all \subseteq DOMAIN fs
    OBVIOUS
  <2>2. Cardinality(all) \in Nat
    BY <2>1, FS_Subset, FS_CardinalityType DEF Types, ServerTypes
  <2>3. c.max_upload_dir_size \in Nat
    BY ConfigsAssumption DEF Limited, ConfigRecords
  <2>. QED
    BY <2>2, <2>3 DEF DirSize
<1>. QED
  BY <1>6, <1>7, <1>8, FiniteFiles

(* A check adds a handler only where a file fits; a created file takes the *)
(* place of its handler, and a consumed one that of its old name.          *)
LEMMA RoomStep == Types /\ Types' /\ LimitsAreFixed /\ RoomInAll /\ [Next]_vars => RoomInAll'
<1> SUFFICES ASSUME Types, Types', LimitsAreFixed, RoomInAll, [Next]_vars,
                    NEW c \in Configs, Limited(c), NEW dir \in LimitedDirs
             PROVE  RoomForAll(c, dir)'
  BY DEF RoomInAll, Limited
<1> DEFINE files == FilesIn(c.upload_path, dir)
           creators == Creators(c.upload_path, dir)
           n == Cardinality(Threads)
           limit == c.max_upload_dir_size
<1>1. /\ IsFiniteSet(files) /\ Cardinality(files) \in Nat
      /\ IsFiniteSet(creators) /\ Cardinality(creators) \in Nat
      /\ n \in Nat /\ n >= 1
  BY FiniteFiles
<1>2. /\ IsFiniteSet(files') /\ Cardinality(files') \in Nat
      /\ IsFiniteSet(creators') /\ Cardinality(creators') \in Nat
      /\ Cardinality(creators') <= n
  <2>1. files' \subseteq (DOMAIN fs)' /\ creators' \subseteq Threads
    BY DEF FilesIn, Creators
  <2>2. IsFiniteSet((DOMAIN fs)')
    BY DEF Types, ServerTypes
  <2>. QED
    BY <2>1, <2>2, FS_Subset, FS_CardinalityType, ThreadsAssumption
<1>3. limit \in Nat
  BY ConfigsAssumption DEF Limited, ConfigRecords
<1>4. Cardinality(files) + Cardinality(creators) <= limit + n - 1
  BY DEF RoomInAll, RoomForAll
<1>5. ASSUME files' \subseteq files, creators' \subseteq creators
      PROVE  Cardinality(files') + Cardinality(creators') <= limit + n - 1
  <2>1. Cardinality(files') <= Cardinality(files) /\ Cardinality(creators') <= Cardinality(creators)
    BY <1>1, <1>5, FS_Subset
  <2>. QED
    BY <1>1, <1>2, <1>3, <1>4, <2>1
<1>6. ASSUME NEW r \in Threads, Create(r)
      PROVE  Cardinality(files') + Cardinality(creators') <= limit + n - 1
  <2> DEFINE p == req[r].path
  <2>1. /\ DOMAIN fs' \subseteq DOMAIN fs \cup {p}
        /\ creators' = creators \ {r}
    BY <1>6 DEF Create, Done, NoRequest, Creators, At, Types, ServerTypes
  <2>2. CASE r \in creators
    <3>1. files' \subseteq files \cup {p}
      BY <2>1 DEF FilesIn
    <3> HIDE DEF files, p
    <3>2. Cardinality(files') <= Cardinality(files) + 1
      <4>1. /\ IsFiniteSet(files \cup {p})
            /\ Cardinality(files \cup {p})
                 = IF p \in files THEN Cardinality(files) ELSE Cardinality(files) + 1
        BY <1>1, FS_AddElement
      <4>2. Cardinality(files') <= Cardinality(files \cup {p})
        BY <3>1, <4>1, FS_Subset
      <4>. QED
        BY <1>1, <1>2, <4>1, <4>2, FS_CardinalityType
    <3>3. Cardinality(creators') = Cardinality(creators) - 1
      BY <1>1, <2>1, <2>2, FS_RemoveElement
    <3>. QED
      BY <1>1, <1>2, <1>3, <1>4, <3>2, <3>3
  <2>3. CASE r \notin creators
    <3>1. files' \subseteq files
      BY <1>6, <2>1, <2>3 DEF FilesIn, Creators, Create
    <3>. QED
      BY <1>5, <2>1, <3>1
  <2>. QED
    BY <2>2, <2>3
<1>7. ASSUME NEW r \in Threads, Consume(r)
      PROVE  Cardinality(files') + Cardinality(creators') <= limit + n - 1
  <2> DEFINE p == req[r].path
             q == Path(p.root, p.dir, p.name, now)
  <2>1. creators' \subseteq creators
    BY <1>7 DEF Consume, Done, NoRequest, Creators, At, Types, ServerTypes
  <2>2. CASE p \in files
    <3>1. DOMAIN fs' \subseteq (DOMAIN fs \ {p}) \cup {q}
      <4>1. IsFile(p)
        BY <2>2 DEF FilesIn, IsFile
      <4>. QED
        BY <1>7, <4>1 DEF Consume
    <3> HIDE DEF p, q
    <3>2. files' \subseteq (files \ {p}) \cup {q}
      BY <3>1 DEF FilesIn
    <3> HIDE DEF files
    <3>3. IsFiniteSet(files \ {p}) /\ Cardinality(files \ {p}) = Cardinality(files) - 1
      BY <1>1, <2>2, FS_RemoveElement
    <3> DEFINE others == files \ {p}
    <3>4. /\ IsFiniteSet(others \cup {q})
          /\ Cardinality(others \cup {q})
               = IF q \in others THEN Cardinality(others) ELSE Cardinality(others) + 1
      <4> HIDE DEF others
      <4>1. IsFiniteSet(others)
        BY <3>3 DEF others
      <4>. QED
        BY <4>1, FS_AddElement
    <3>5. Cardinality(files') <= Cardinality(others \cup {q})
      BY <3>4, <3>2, FS_Subset
    <3>6. Cardinality(creators') <= Cardinality(creators)
      BY <1>1, <2>1, FS_Subset
    <3>. QED
      BY <1>1, <1>2, <1>3, <1>4, <3>3, <3>4, <3>5, <3>6
  <2>3. CASE p \notin files
    <3>1. files' \subseteq files
      BY <1>7, <2>3 DEF Consume, FilesIn, IsFile, Path
    <3>. QED
      BY <1>5, <2>1, <3>1
  <2>. QED
    BY <2>2, <2>3
<1>8. ASSUME NEW r \in Threads, CheckTarget(r)
      PROVE  Cardinality(files') + Cardinality(creators') <= limit + n - 1
  <2>1. files' = files
    BY <1>8 DEF CheckTarget, FilesIn
  <2>2. CASE r \in creators'
    <3>1. Cardinality(files) + 1 <= limit
      BY <1>8, <2>2, CheckedTargetFits
    <3>. QED
      BY <1>1, <1>2, <1>3, <2>1, <3>1
  <2>3. CASE r \notin creators'
    <3>1. creators' \subseteq creators
      BY <1>8, <2>3 DEF CheckTarget, Done, Creators, At, Types, ServerTypes
    <3>. QED
      BY <1>5, <2>1, <3>1
  <2>. QED
    BY <2>2, <2>3
<1>9. ASSUME \A r \in Threads : ~Create(r) /\ ~Consume(r) /\ ~CheckTarget(r)
      PROVE  Cardinality(files') + Cardinality(creators') <= limit + n - 1
  <2>1. files' \subseteq files
    BY <1>9, FilesMove DEF FilesIn, Without, Restrict
  <2>2. creators' \subseteq creators
    BY <1>9, CreatorsMove DEF Creators, At
  <2>. QED
    BY <1>5, <2>1, <2>2
<1>. QED
  BY <1>6, <1>7, <1>8, <1>9 DEF RoomForAll

(* However many uploads pass the check together, a directory exceeds its   *)
(* limit by one file for every handler but one, if the limit stays.        *)
THEOREM OvershootBound == LimitsAreFixed => (Spec => []OvershootIsBounded)
<1> SUFFICES ASSUME LimitsAreFixed PROVE Spec => []OvershootIsBounded
  OBVIOUS
<1>1. Init => RoomInAll
  <2> SUFFICES ASSUME Init, NEW c \in Configs, Limited(c), NEW dir \in LimitedDirs
               PROVE  RoomForAll(c, dir)
    BY DEF RoomInAll
  <2>1. FilesIn(c.upload_path, dir) = {} /\ Creators(c.upload_path, dir) = {}
    BY DEF Init, FilesIn, Creators, At, NoRequest
  <2>2. Cardinality(Threads) \in Nat /\ Cardinality(Threads) # 0
    BY FS_EmptySet, FS_CardinalityType, ThreadsAssumption
  <2>3. c.max_upload_dir_size \in Nat
    BY ConfigsAssumption DEF Limited, ConfigRecords
  <2>. QED
    BY <2>1, <2>2, <2>3, FS_EmptySet DEF RoomForAll
<1>2. Types /\ Types' /\ RoomInAll /\ [Next]_vars => RoomInAll'
  BY RoomStep
<1>3. Types /\ RoomInAll => OvershootIsBounded
  <2> SUFFICES ASSUME Types, RoomInAll, config.max_upload_dir_size # None,
                      NEW dir \in LimitedDirs
               PROVE  Cardinality(FilesIn(config.upload_path, dir))
                        <= config.max_upload_dir_size + Cardinality(Threads) - 1
    BY DEF OvershootIsBounded, LimitedDirs
  <2>1. Limited(config)
    BY DEF Limited, Types, ConfigTypes
  <2>2. RoomForAll(config, dir)
    BY <2>1 DEF RoomInAll, Limited
  <2>3. config.max_upload_dir_size \in Nat
    BY <2>1, ConfigsAssumption DEF Limited, ConfigRecords
  <2>. QED
    BY <2>2, <2>3, FiniteFiles DEF RoomForAll
<1>. QED
  BY <1>1, <1>2, <1>3, TypesHold, PTL DEF Spec

-----------------------------------------------------------------------------

(***************************************************************************)
(* The links of the server without [auth] lead to what was uploaded, for   *)
(* any number of threads, uploads, configurations and changes of the file, *)
(* as long as the uploads keep out of each other's way (SeparateUploads).  *)
(***************************************************************************)

UploadTypes == {"file", "remote_file", "url", "oneshot", "oneshot_url", "protected_file"}

(* A name is used for one directory, links do not expire, and nobody       *)
(* uploads the content of a one-shot paste as an ordinary one.  Nothing in *)
(* the code sees to it; without any of the three a link may lead astray.   *)
SeparateUploads ==
  /\ \A u \in Uploads : u.type \in UploadTypes
  /\ \A u, v \in Uploads : u.name = v.name => GetDir(u.type) = GetDir(v.type)
  /\ \A u \in Uploads : StoredByUrl(u) => ~u.expires
  /\ \A u, v \in Uploads :
       u.content = v.content /\ u.type \in {"file", "remote_file", "url"}
         => v.type \notin {"oneshot", "oneshot_url"}

(* Every path of a stored file.                                            *)
PathStamps == 0..(MaxTime + Lifetime) \cup {None}

Paths == [root : UploadPaths, dir : ServedFrom, name : Names, stamp : PathStamps]

(* What is served: a paste that has not expired.                           *)
Active(p) == p.stamp = None \/ now < p.stamp

Twins(p, q) == p.root = q.root /\ p.name = q.name

(* The parts of the inductive invariant.  Each file is of some upload;     *)
Stored(p, k) == \E u \in Uploads : p.name = u.name /\ p.dir = GetDir(u.type) /\ k = u.content

FilesStored ==
  \A p \in DOMAIN fs :
    /\ p \in Paths /\ Stored(p, fs[p])
    /\ p.dir \in {"url", "oneshot_url"} /\ p.stamp # None => p.stamp <= now

(* a name has one active file,                                             *)
OneActive ==
  \A p, q \in DOMAIN fs : Twins(p, q) /\ Active(p) /\ Active(q) => p = q

(* which is so of a file about to be created as well;                      *)
NoRival(p) == \A q \in DOMAIN fs : Twins(p, q) /\ Active(q) => q = p

GoodUpload(k) ==
  /\ k.pc \in {"download", "field", "store", "create"}
       => /\ k.upload \in Uploads
          /\ k.stamp \in PathStamps
          /\ StoredByUrl(k.upload) => k.stamp = None
  /\ k.pc = "create"
       => /\ k.path \in Paths /\ k.path.stamp = k.stamp
          /\ k.path.dir = GetDir(k.upload.type) /\ k.path.name = k.upload.name
  /\ k.pc = "consume" => IsOneshot(k.path)

UploadsGood == \A r \in Threads : GoodUpload(req[r])

CreatorsAlone == \A r \in Threads : At(r, "create") => NoRival(req[r].path)

(* uploads of one name follow one another;                                 *)
UploadsApart ==
  \A r, d \in Threads :
    req[r].upload \in Uploads /\ req[d].upload \in Uploads /\ r # d
      => req[r].upload.name # req[d].upload.name

(* the content of a link is there;                                         *)
LinksKept ==
  \A l \in owed :
    /\ l.path \in Paths
    /\ Active(l.path) => l.path \in DOMAIN fs /\ fs[l.path] = l.content
    /\ IsOneshot(l.path) => l.once

(* and what the cleanup thread is about to remove has expired.             *)
TodoExpired == \A p \in cleaner.todo : p.stamp \in Nat /\ p.stamp < now

LinkInv ==
  /\ FilesStored /\ OneActive
  /\ UploadsGood /\ CreatorsAlone /\ UploadsApart
  /\ LinksKept /\ TodoExpired

------------------------------------------------------------------------------
(* Finding a file by its name *)

(* A set of numbers that is not empty and has a bound has a greatest one.  *)
LEMMA MaxIsMember ==
  ASSUME NEW n \in Nat, NEW S \in SUBSET (0..n), S # {}
  PROVE  Max(S) \in S /\ \A s \in S : s <= Max(S)
<1> DEFINE Above(x) == {y \in S : y > x}
           T == {Above(x) : x \in S}
<1>1. IsFiniteSet(S)
  <2>1. IsFiniteSet(0..n)
    BY FS_Interval
  <2>. QED
    BY <2>1, FS_Subset
<1>2. T \subseteq FiniteSubsetsOf(S) /\ T # {}
  <2>1. \A x \in S : Above(x) \in SUBSET S
    OBVIOUS
  <2>2. \A x \in S : IsFiniteSet(Above(x))
    BY <1>1, <2>1, FS_Subset
  <2>. QED
    BY <2>1, <2>2 DEF FiniteSubsetsOf
<1>3. PICK A \in T : \A B \in T : ~(<<B, A>> \in StrictSubsetOrdering(S))
  <2> HIDE DEF T
  <2>. QED
    BY <1>2, FS_StrictSubsetOrderingWellFounded, WFMin
<1>4. PICK x \in S : A = Above(x)
  BY <1>3
<1>5. ASSUME NEW y \in S, y > x PROVE FALSE
  <2>1. \A z \in S : z \in Nat
    OBVIOUS
  <2>2. ASSUME NEW z \in S, z > y PROVE z > x
    <3>1. x \in Nat /\ y \in Nat /\ z \in Nat
      BY <2>1
    <3>. QED
      BY <1>5, <2>2, <3>1
  <2>3. Above(y) \subseteq Above(x) /\ y \in Above(x) /\ y \notin Above(y)
    <3>1. ~(y > y)
      BY <2>1
    <3>. QED
      BY <1>5, <2>2, <3>1
  <2>4. Above(y) \in SUBSET S /\ Above(x) \in SUBSET S /\ Above(y) \in T
    OBVIOUS
  <2> HIDE DEF Above, T
  <2>5. <<Above(y), Above(x)>> \in StrictSubsetOrdering(S)
    BY <2>3, <2>4 DEF StrictSubsetOrdering
  <2>. QED
    BY <1>3, <1>4, <2>4, <2>5
<1>6. \A y \in S : x >= y
  BY <1>5
<1>. QED
  BY <1>6 DEF Max

(* Of a name, the lookup in its directory finds the active file.           *)
LEMMA GlobFindsActive ==
  ASSUME Types, FilesStored, OneActive, NEW p \in DOMAIN fs, Active(p)
  PROVE  GlobMatchFile(p.root, p.dir, p.name) = p
<1> DEFINE stamps == {s \in 0..(MaxTime + Lifetime) : IsFile(Path(p.root, p.dir, p.name, s))}
<1>1. now \in Nat /\ MaxTime + Lifetime \in Nat /\ None \notin Nat
  BY OpenAssumption, NoneAssumption DEF Types, ServerTypes
<1>2. p \in Paths /\ p = Path(p.root, p.dir, p.name, p.stamp)
  BY DEF FilesStored, Paths, Path
<1>3. \A s \in stamps : s <= now \/ s = p.stamp
  <2> SUFFICES ASSUME NEW s \in stamps, now < s PROVE s = p.stamp
    BY <1>1
  <2> DEFINE q == Path(p.root, p.dir, p.name, s)
  <2>1. q \in DOMAIN fs /\ Twins(p, q) /\ Active(q)
    BY DEF IsFile, Path, Twins, Active
  <2>2. q.stamp = s
    BY DEF Path
  <2>. QED
    BY <2>1, <2>2 DEF OneActive
<1>4. stamps \in SUBSET (0..(MaxTime + Lifetime))
  OBVIOUS
<1>5. stamps # {} => Max(stamps) \in stamps /\ \A s \in stamps : s <= Max(stamps)
  BY <1>1, <1>4, MaxIsMember
<1>6. CASE p.stamp = None
  <2>1. stamps # {} => ~(now < Max(stamps))
    BY <1>1, <1>3, <1>5, <1>6
  <2>. QED
    BY <1>2, <1>6, <2>1 DEF GlobMatchFile
<1>7. CASE p.stamp # None
  <2>1. p.stamp \in stamps /\ now < p.stamp
    BY <1>2, <1>7 DEF IsFile, Active, Paths, PathStamps
  <2>2. Max(stamps) = p.stamp
    BY <1>1, <1>3, <1>5, <2>1
  <2>. QED
    BY <1>2, <2>1, <2>2 DEF GlobMatchFile
<1>. QED
  BY <1>6, <1>7

(* The directory of a name is that of its upload.                          *)
LEMMA OneDirectory ==
  ASSUME SeparateUploads, FilesStored, NEW p \in DOMAIN fs, NEW q \in DOMAIN fs, p.name = q.name
  PROVE  p.dir = q.dir
BY DEF FilesStored, Stored, SeparateUploads

(* What a lookup in a directory finds is active.                           *)
LEMMA GlobIsActive ==
  ASSUME NEW root, NEW dir, NEW name
  PROVE  LET p == GlobMatchFile(root, dir, name)
         IN  Active(p) /\ p.root = root /\ p.dir = dir /\ p.name = name
BY DEF GlobMatchFile, Active, Path

(* Among the directories, a lookup finds the active file of a name.        *)
LEMMA LookupFindsActive ==
  ASSUME SeparateUploads, Types, FilesStored, OneActive, NEW dirs \in SUBSET ServedFrom,
         NEW p \in DOMAIN fs, Active(p), p.dir \in dirs
  PROVE  Lookup(p.root, p.name, dirs) = p
<1> DEFINE hits == {i \in DOMAIN TypeDirs :
                      TypeDirs[i] \in dirs /\ IsFile(GlobMatchFile(p.root, TypeDirs[i], p.name))}
<1>1. PICK i \in 1..5 : TypeDirs[i] = p.dir
  <2>1. /\ TypeDirs[1] = "root" /\ TypeDirs[2] = "url" /\ TypeDirs[3] = "oneshot"
        /\ TypeDirs[4] = "oneshot_url" /\ TypeDirs[5] = "protected_file"
    BY DEF TypeDirs
  <2>2. p.dir \in ServedFrom
    OBVIOUS
  <2>. QED
    BY <2>1, <2>2 DEF ServedFrom
<1>2. DOMAIN TypeDirs = 1..5 /\ \A j \in 1..5 : TypeDirs[j] = TypeDirs[i] => j = i
  BY DEF TypeDirs
<1>3. i \in hits
  BY <1>1, <1>2, GlobFindsActive DEF IsFile
<1>4. \A j \in hits : j = i
  <2> SUFFICES ASSUME NEW j \in hits PROVE j = i
    OBVIOUS
  <2> DEFINE q == GlobMatchFile(p.root, TypeDirs[j], p.name)
  <2>1. q \in DOMAIN fs /\ q.name = p.name /\ q.dir = TypeDirs[j]
    BY GlobIsActive DEF IsFile
  <2> HIDE DEF q
  <2>2. q.dir = p.dir
    BY <2>1, OneDirectory
  <2>. QED
    BY <1>1, <1>2, <2>1, <2>2
<1>5. hits = {i}
  BY <1>3, <1>4
<1>6. Min(hits) = i
  <2> HIDE DEF hits
  <2>1. \A x \in hits : x = i /\ x <= i
    BY <1>5
  <2>. QED
    BY <1>5, <2>1 DEF Min
<1>. QED
  BY <1>1, <1>5, <1>6, GlobFindsActive DEF Lookup

------------------------------------------------------------------------------
(* What the properties say *)

(* A link that must work leads to an active file, which the lookup finds.  *)
LEMMA LinksFollow ==
  ASSUME SeparateUploads, Types, LinkInv
  PROVE  LinksLeadToUploads
<1> SUFFICES ASSUME NEW l \in owed, Active(l.path)
             PROVE  /\ Lookup(l.path.root, l.path.name, ServedFrom) = l.path
                    /\ fs[l.path] = l.content
  BY DEF LinksLeadToUploads, Active
<1>1. l.path \in DOMAIN fs /\ fs[l.path] = l.content /\ l.path.dir \in ServedFrom
  BY DEF LinkInv, LinksKept, Paths
<1>. QED
  BY <1>1, LookupFindsActive DEF LinkInv

(* The listing shows the names of the active files, which the lookup finds. *)
LEMMA ListingFollows ==
  ASSUME SeparateUploads, None \notin Paths, Types, LinkInv
  PROVE  ListingAgrees
<1> SUFFICES ASSUME \A p \in DOMAIN fs : p.stamp # now
             PROVE  Listed(config.upload_path)
                      = {n \in Names : Lookup(config.upload_path, n, ListedDirs) # None}
  BY DEF ListingAgrees
<1> DEFINE root == config.upload_path
<1>1. ListedDirs \in SUBSET ServedFrom /\ now \in Nat /\ None \notin Nat
  BY OpenAssumption, NoneAssumption DEF ListedDirs, ServedFrom, Types, ServerTypes
<1>2. ASSUME NEW p \in DOMAIN fs, p.root = root, p.dir \in ListedDirs, ~Expired(p)
      PROVE  p.name \in Names /\ Lookup(root, p.name, ListedDirs) # None
  <2>1. p \in Paths
    BY DEF LinkInv, FilesStored
  <2>2. Active(p)
    BY <1>1, <1>2, <2>1 DEF Active, Expired, Paths, PathStamps
  <2>3. Lookup(root, p.name, ListedDirs) = p
    BY <1>1, <1>2, <2>2, LookupFindsActive DEF LinkInv
  <2>. QED
    BY <2>1, <2>3 DEF Paths
<1>3. ASSUME NEW n \in Names, Lookup(root, n, ListedDirs) # None
      PROVE  n \in Listed(root)
  <2> DEFINE hits == {i \in DOMAIN TypeDirs :
                        TypeDirs[i] \in ListedDirs /\ IsFile(GlobMatchFile(root, TypeDirs[i], n))}
  <2>1. hits # {}
    BY <1>3 DEF Lookup
  <2>2. PICK i \in hits : TRUE
    BY <2>1
  <2> DEFINE q == GlobMatchFile(root, TypeDirs[i], n)
  <2>3. /\ q \in DOMAIN fs /\ Active(q)
        /\ q.root = root /\ q.name = n /\ q.dir \in ListedDirs
    BY <2>2, GlobIsActive DEF IsFile
  <2> HIDE DEF q
  <2>4. ~Expired(q)
    BY <1>1, <2>3 DEF Active, Expired, LinkInv, FilesStored, Paths, PathStamps
  <2>. QED
    BY <2>3, <2>4 DEF Listed
<1>4. Listed(root) \subseteq {n \in Names : Lookup(root, n, ListedDirs) # None}
  BY <1>2 DEF Listed
<1>. QED
  BY <1>3, <1>4

------------------------------------------------------------------------------
(* What the steps do *)

(* The clock does not go back: what is active has been so.                 *)
LEMMA ClockMoves ==
  ASSUME Types, Types', [Next]_vars
  PROVE  /\ now \in Nat /\ now' \in Nat /\ now <= now'
         /\ \A p \in Paths : Active(p)' => Active(p)
<1>1. now \in Nat /\ now' \in Nat
  BY OpenAssumption DEF Types, ServerTypes
<1>2. Tick \/ UNCHANGED now
  BY DEF Next, Edit, Watcher, Parse, Replace, serverVars, vars, Cleaner, ScanExpired,
     RemoveExpired, SleepAndTryReceive, WaitForConfig, UnchangedButCleaner, Arrive,
     ArriveUpload, View, ArriveDelete, Handle, Download, FindDuplicate, CheckTarget,
     Create, Consume, FindFile, RemovePasteFile
<1>3. now <= now'
  BY <1>1, <1>2 DEF Tick
<1>4. \A p \in Paths : p.stamp \in Nat \cup {None}
  BY OpenAssumption DEF Paths, PathStamps
<1>. QED
  BY <1>1, <1>3, <1>4 DEF Active

(* Links are given out, used up and taken back in four kinds of steps.     *)
LEMMA LinksMove ==
  ASSUME [Next]_vars
  PROVE  \/ UNCHANGED <<fs, owed>>
         \/ RemoveExpired
         \/ \E r \in Threads :
              FindDuplicate(r) \/ Create(r) \/ Consume(r) \/ RemovePasteFile(r)
BY DEF Next, Tick, Edit, Watcher, Parse, Replace, serverVars, vars, Cleaner, ScanExpired,
   SleepAndTryReceive, WaitForConfig, UnchangedButCleaner, Arrive, ArriveUpload, View,
   ArriveDelete, Handle, Download, CheckTarget, FindFile

(* A file is created where none was, of a name that nobody else stores.    *)
LEMMA Created ==
  ASSUME SeparateUploads, Types, LinkInv, NEW r \in Threads, Create(r)
  PROVE  LET p == req[r].path
             u == req[r].upload
         IN  /\ UNCHANGED now
             /\ u \in Uploads /\ p \in Paths /\ NoRival(p)
             /\ p.dir = GetDir(u.type) /\ p.name = u.name
             /\ p.dir \in {"url", "oneshot_url"} => p.stamp = None
             /\ \/ UNCHANGED <<fs, owed>>
                \/ /\ p \notin DOMAIN fs /\ DOMAIN fs' = DOMAIN fs \cup {p}
                   /\ fs'[p] = u.content /\ \A q \in DOMAIN fs : fs'[q] = fs[q]
                   /\ owed' = owed \cup {Link(p, u)}
<1> DEFINE p == req[r].path
           u == req[r].upload
<1>1. At(r, "create") /\ GoodUpload(req[r]) /\ NoRival(p)
  BY DEF Create, LinkInv, UploadsGood, CreatorsAlone
<1>2. /\ u \in Uploads /\ p \in Paths /\ p.dir = GetDir(u.type) /\ p.name = u.name
      /\ StoredByUrl(u) => p.stamp = None
  BY <1>1 DEF At, GoodUpload
<1>3. p.dir \in {"url", "oneshot_url"} => StoredByUrl(u)
  BY <1>2 DEF GetDir, StoredByUrl
<1> HIDE DEF p, u
<1>4. UNCHANGED now
  BY DEF Create
<1>5. CASE IsFile(p)
  <2>1. UNCHANGED <<fs, owed>>
    BY <1>5 DEF Create, p, u
  <2>. QED
    BY <1>1, <1>2, <1>3, <1>4, <2>1 DEF p, u
<1>6. CASE ~IsFile(p)
  <2>1. /\ fs' = [q \in DOMAIN fs \cup {p} |-> IF q = p THEN u.content ELSE fs[q]]
        /\ owed' = owed \cup {Link(p, u)}
    BY <1>6 DEF Create, p, u
  <2>2. /\ p \notin DOMAIN fs /\ DOMAIN fs' = DOMAIN fs \cup {p}
        /\ fs'[p] = u.content /\ \A q \in DOMAIN fs : fs'[q] = fs[q]
    BY <1>6, <2>1 DEF IsFile
  <2>. QED
    BY <1>1, <1>2, <1>3, <1>4, <2>1, <2>2 DEF p, u
<1>. QED
  BY <1>5, <1>6

(* A consumed file goes to where it is active no more.                     *)
LEMMA Consumed ==
  ASSUME SeparateUploads, Types, LinkInv, NEW r \in Threads, Consume(r)
  PROVE  LET p == req[r].path
             c == Path(p.root, p.dir, p.name, now)
         IN  /\ UNCHANGED now
             /\ \/ UNCHANGED <<fs, owed>>
                \/ /\ p \in DOMAIN fs /\ DOMAIN fs' = (DOMAIN fs \ {p}) \cup {c}
                   /\ c \in Paths /\ c.dir = p.dir /\ c.name = p.name
                   /\ c.stamp = now /\ ~Active(c)
                   /\ fs'[c] = fs[p] /\ \A q \in DOMAIN fs \ {p, c} : fs'[q] = fs[q]
                   /\ owed' = {l \in owed : ~(l.once /\ l.path = p)}
                   /\ \A l \in owed' : l.path # p
<1> DEFINE p == req[r].path
           c == Path(p.root, p.dir, p.name, now)
<1>1. IsOneshot(p)
  BY DEF Consume, At, LinkInv, UploadsGood, GoodUpload
<1>2. UNCHANGED now
  BY DEF Consume
<1>3. CASE IsFile(p)
  <2>1. now \in 0..MaxTime /\ None \notin Nat
    BY NoneAssumption DEF Types, ServerTypes
  <2>2. p \in DOMAIN fs /\ p \in Paths
    BY <1>3 DEF IsFile, LinkInv, FilesStored
  <2>3. c.dir = p.dir /\ c.name = p.name /\ c.stamp = now
    BY DEF Path
  <2>4. c \in Paths
    <3>1. now \in PathStamps
      BY <2>1, OpenAssumption DEF PathStamps
    <3>. QED
      BY <2>2, <3>1 DEF Paths, Path
  <2>5. ~Active(c)
    BY <2>1, <2>3, OpenAssumption DEF Active
  <2>6. /\ fs' = [q \in (DOMAIN fs \ {p}) \cup {c} |-> IF q = c THEN fs[p] ELSE fs[q]]
        /\ owed' = {l \in owed : ~(l.once /\ l.path = p)}
    BY <1>3 DEF Consume
  <2>7. \A l \in owed' : l.path # p
    BY <1>1, <2>6 DEF LinkInv, LinksKept
  <2> HIDE DEF p, c
  <2>8. /\ DOMAIN fs' = (DOMAIN fs \ {p}) \cup {c}
        /\ fs'[c] = fs[p] /\ \A q \in DOMAIN fs \ {p, c} : fs'[q] = fs[q]
    BY <2>6
  <2>. QED
    BY <1>2, <2>2, <2>3, <2>4, <2>5, <2>6, <2>7, <2>8 DEF p, c
<1>4. CASE ~IsFile(p)
  BY <1>2, <1>4 DEF Consume
<1>. QED
  BY <1>3, <1>4

(* Removing takes nothing from the other files.                            *)
LEMMA RemovedFile ==
  ASSUME NEW p, fs' = Without(p)
  PROVE  DOMAIN fs' = DOMAIN fs \ {p} /\ \A q \in DOMAIN fs' : fs'[q] = fs[q]
BY DEF Without, Restrict

------------------------------------------------------------------------------
(* The invariant is kept *)

(* The files: only a creator adds an active one, and it has no rival.      *)
LEMMA FilesStep ==
  ASSUME SeparateUploads, Types, Types', LinkInv, [Next]_vars
  PROVE  FilesStored' /\ OneActive'
<1> USE DEF LinkInv
<1>1. /\ now \in Nat /\ now' \in Nat /\ now <= now'
      /\ \A p \in Paths : Active(p)' => Active(p)
      /\ \A p \in Paths : p.stamp \in Nat \cup {None}
  BY ClockMoves, OpenAssumption DEF Paths, PathStamps
<1>2. \A p \in DOMAIN fs : p \in Paths
  BY DEF FilesStored
<1>3. ASSUME DOMAIN fs' \subseteq DOMAIN fs, \A q \in DOMAIN fs' : fs'[q] = fs[q]
      PROVE  FilesStored' /\ OneActive'
  <2>1. FilesStored'
    <3> SUFFICES ASSUME NEW p \in DOMAIN fs'
                 PROVE  /\ p \in Paths /\ Stored(p, fs'[p])
                        /\ p.dir \in {"url", "oneshot_url"} /\ p.stamp # None => p.stamp <= now'
      BY DEF FilesStored, Stored
    <3>1. /\ p \in Paths /\ Stored(p, fs[p])
          /\ p.dir \in {"url", "oneshot_url"} /\ p.stamp # None => p.stamp <= now
      BY <1>3 DEF FilesStored
    <3>. QED
      BY <1>1, <1>3, <3>1
  <2>2. OneActive'
    BY <1>1, <1>2, <1>3 DEF OneActive, Twins
  <2>. QED
    BY <2>1, <2>2
<1>4. ASSUME NEW r \in Threads, Create(r) PROVE FilesStored' /\ OneActive'
  <2>1. PICK p, u : p = req[r].path /\ u = req[r].upload
    OBVIOUS
  <2>2. /\ UNCHANGED now
        /\ u \in Uploads /\ p \in Paths /\ NoRival(p)
        /\ p.dir = GetDir(u.type) /\ p.name = u.name
        /\ p.dir \in {"url", "oneshot_url"} => p.stamp = None
        /\ \/ UNCHANGED <<fs, owed>>
           \/ /\ p \notin DOMAIN fs /\ DOMAIN fs' = DOMAIN fs \cup {p}
              /\ fs'[p] = u.content /\ \A q \in DOMAIN fs : fs'[q] = fs[q]
    BY <1>4, <2>1, Created
  <2>3. CASE UNCHANGED fs
    BY <1>3, <2>3
  <2>4. CASE /\ DOMAIN fs' = DOMAIN fs \cup {p}
             /\ fs'[p] = u.content /\ \A q \in DOMAIN fs : fs'[q] = fs[q]
    <3>1. FilesStored'
      BY <2>2, <2>4 DEF FilesStored, Stored
    <3>2. \A q \in DOMAIN fs' : q # p => q \in DOMAIN fs
      BY <2>4
    <3>3. OneActive'
      BY <2>2, <2>4, <3>2 DEF OneActive, NoRival, Twins, Active
    <3>. QED
      BY <3>1, <3>3
  <2>. QED
    BY <2>2, <2>3, <2>4
<1>5. ASSUME NEW r \in Threads, Consume(r) PROVE FilesStored' /\ OneActive'
  <2>1. PICK p, c : p = req[r].path /\ c = Path(p.root, p.dir, p.name, now)
    OBVIOUS
  <2>2. /\ UNCHANGED now
        /\ \/ UNCHANGED <<fs, owed>>
           \/ /\ p \in DOMAIN fs /\ DOMAIN fs' = (DOMAIN fs \ {p}) \cup {c}
              /\ c \in Paths /\ c.dir = p.dir /\ c.name = p.name
              /\ c.stamp = now /\ ~Active(c)
              /\ fs'[c] = fs[p] /\ \A q \in DOMAIN fs \ {p, c} : fs'[q] = fs[q]
    BY <1>5, <2>1, Consumed
  <2>3. CASE UNCHANGED fs
    BY <1>3, <2>3
  <2>4. CASE /\ p \in DOMAIN fs /\ DOMAIN fs' = (DOMAIN fs \ {p}) \cup {c}
             /\ c \in Paths /\ c.dir = p.dir /\ c.name = p.name
             /\ c.stamp = now /\ ~Active(c)
             /\ fs'[c] = fs[p] /\ \A q \in DOMAIN fs \ {p, c} : fs'[q] = fs[q]
    <3>1. \A q \in DOMAIN fs' : q = c \/ q \in DOMAIN fs \ {p, c}
      BY <2>4
    <3>2. FilesStored'
      <4>1. c \in Paths /\ Stored(c, fs'[c]) /\ c.stamp <= now
        BY <1>1, <2>4 DEF FilesStored, Stored
      <4>2. \A q \in DOMAIN fs' : q # c =>
              /\ q \in Paths /\ Stored(q, fs'[q])
              /\ q.dir \in {"url", "oneshot_url"} /\ q.stamp # None => q.stamp <= now
        BY <2>4, <3>1 DEF FilesStored
      <4>. QED
        BY <2>2, <4>1, <4>2 DEF FilesStored, Stored
    <3>3. OneActive'
      BY <2>2, <2>4, <3>1 DEF OneActive, Twins, Active
    <3>. QED
      BY <3>2, <3>3
  <2>. QED
    BY <2>2, <2>3, <2>4
<1>6. CASE UNCHANGED fs
  BY <1>3, <1>6
<1>7. ASSUME NEW p, fs' = Without(p) PROVE FilesStored' /\ OneActive'
  BY <1>3, <1>7, RemovedFile
<1>. QED
  BY <1>4, <1>5, <1>6, <1>7, FilesMove

(* The links: what is removed or renamed has expired, is deleted or was    *)
(* viewed once.                                                            *)
LEMMA LinksStep ==
  ASSUME SeparateUploads, Types, Types', LinkInv, [Next]_vars
  PROVE  LinksKept'
<1> USE DEF LinkInv
<1>1. \A p \in Paths : Active(p)' => Active(p)
  BY ClockMoves
<1>2. CASE UNCHANGED <<fs, owed>>
  BY <1>1, <1>2 DEF LinksKept, IsOneshot
<1>3. ASSUME NEW r \in Threads, FindDuplicate(r) PROVE LinksKept'
  <2> DEFINE u == req[r].upload
  <2>1. UNCHANGED <<fs, now>> /\ u \in Uploads
    BY <1>3 DEF FindDuplicate, At, UploadsGood, GoodUpload
  <2>2. ASSUME NEW p \in SameContent(config.upload_path, u.content), Deduplicates(r)
        PROVE  /\ p \in DOMAIN fs /\ fs[p] = u.content /\ p \in Paths
               /\ ~IsOneshot(p)
    <3>1. p \in DOMAIN fs /\ fs[p] = u.content /\ p \in Paths /\ Stored(p, fs[p])
      BY DEF SameContent, FilesStored
    <3>2. PICK v \in Uploads : p.dir = GetDir(v.type) /\ v.content = u.content
      BY <3>1 DEF Stored
    <3>3. v.type \notin {"oneshot", "oneshot_url"} /\ v.type \in UploadTypes
      BY <2>1, <2>2, <3>2 DEF SeparateUploads, Deduplicates
    <3>. QED
      BY <3>1, <3>2, <3>3 DEF IsOneshot, GetDir, UploadTypes
  <2>3. \/ UNCHANGED owed
        \/ /\ Deduplicates(r)
           /\ \E p \in SameContent(config.upload_path, u.content) :
                owed' = owed \cup {Link(p, u)}
    BY <1>3 DEF FindDuplicate
  <2>4. CASE UNCHANGED owed
    BY <1>2, <2>1, <2>4
  <2>5. ASSUME NEW p \in SameContent(config.upload_path, u.content), Deduplicates(r),
               owed' = owed \cup {Link(p, u)}
        PROVE  LinksKept'
    <3>1. /\ Link(p, u).path = p /\ Link(p, u).content = fs[p]
          /\ p \in Paths /\ p \in DOMAIN fs /\ ~IsOneshot(p)
      BY <2>2, <2>5 DEF Link
    <3>. QED
      BY <2>1, <2>5, <3>1 DEF LinksKept, Active, IsOneshot
  <2>. QED
    BY <2>3, <2>4, <2>5
<1>4. ASSUME NEW r \in Threads, Create(r) PROVE LinksKept'
  <2>1. PICK p, u : p = req[r].path /\ u = req[r].upload
    OBVIOUS
  <2>2. /\ UNCHANGED now
        /\ u \in Uploads /\ p \in Paths /\ p.dir = GetDir(u.type)
        /\ \/ UNCHANGED <<fs, owed>>
           \/ /\ p \notin DOMAIN fs /\ DOMAIN fs' = DOMAIN fs \cup {p}
              /\ fs'[p] = u.content /\ \A q \in DOMAIN fs : fs'[q] = fs[q]
              /\ owed' = owed \cup {Link(p, u)}
    BY <1>4, <2>1, Created
  <2>3. CASE /\ p \notin DOMAIN fs /\ DOMAIN fs' = DOMAIN fs \cup {p}
             /\ fs'[p] = u.content /\ \A q \in DOMAIN fs : fs'[q] = fs[q]
             /\ owed' = owed \cup {Link(p, u)}
    <3>1. /\ Link(p, u).path = p /\ Link(p, u).content = fs'[p] /\ p \in DOMAIN fs'
          /\ IsOneshot(p) => Link(p, u).once
      BY <2>2, <2>3 DEF Link, IsOneshot, GetDir, SeparateUploads, UploadTypes
    <3>2. \A l \in owed : Active(l.path) => l.path \in DOMAIN fs' /\ fs'[l.path] = l.content
      BY <2>3 DEF LinksKept
    <3>. QED
      BY <2>2, <2>3, <3>1, <3>2 DEF LinksKept, Active, IsOneshot
  <2>. QED
    BY <1>2, <2>2, <2>3
<1>5. ASSUME NEW r \in Threads, Consume(r) PROVE LinksKept'
  <2>1. PICK p, c : p = req[r].path /\ c = Path(p.root, p.dir, p.name, now)
    OBVIOUS
  <2>2. /\ UNCHANGED now
        /\ \/ UNCHANGED <<fs, owed>>
           \/ /\ DOMAIN fs' = (DOMAIN fs \ {p}) \cup {c}
              /\ ~Active(c)
              /\ \A q \in DOMAIN fs \ {p, c} : fs'[q] = fs[q]
              /\ owed' \subseteq owed
              /\ \A l \in owed' : l.path # p
    BY <1>5, <2>1, Consumed
  <2>3. CASE /\ DOMAIN fs' = (DOMAIN fs \ {p}) \cup {c}
             /\ ~Active(c)
             /\ \A q \in DOMAIN fs \ {p, c} : fs'[q] = fs[q]
             /\ owed' \subseteq owed
             /\ \A l \in owed' : l.path # p
    <3>1. ASSUME NEW l \in owed', Active(l.path)
          PROVE  l.path \in DOMAIN fs' /\ fs'[l.path] = l.content
      BY <2>3, <3>1 DEF LinksKept
    <3>. QED
      BY <2>2, <2>3, <3>1 DEF LinksKept, Active, IsOneshot
  <2>. QED
    BY <1>2, <2>2, <2>3
<1>6. ASSUME NEW p, fs' = Without(p), owed' \subseteq owed,
             \A l \in owed' : Active(l.path)' => l.path # p
      PROVE  LinksKept'
  <2>1. DOMAIN fs' = DOMAIN fs \ {p} /\ \A q \in DOMAIN fs' : fs'[q] = fs[q]
    BY <1>6, RemovedFile
  <2>. QED
    BY <1>1, <1>6, <2>1 DEF LinksKept, IsOneshot
<1>7. ASSUME NEW r \in Threads, RemovePasteFile(r) PROVE LinksKept'
  BY <1>6, <1>7 DEF RemovePasteFile
<1>8. CASE RemoveExpired
  <2>1. PICK p \in cleaner.todo : fs' = Without(p)
    BY <1>8 DEF RemoveExpired
  <2>2. ~Active(p)'
    BY <2>1, ClockMoves, NoneAssumption DEF TodoExpired, Active
  <2>3. UNCHANGED <<now, owed>>
    BY <1>8 DEF RemoveExpired
  <2>. QED
    BY <1>6, <2>1, <2>2, <2>3
<1>. QED
  BY <1>2, <1>3, <1>4, <1>5, <1>7, <1>8, LinksMove

(* The clock does not go back, so what has expired stays expired.          *)
LEMMA TodoStep ==
  ASSUME SeparateUploads, Types, Types', LinkInv, [Next]_vars
  PROVE  TodoExpired'
<1> USE DEF LinkInv
<1>1. now \in Nat /\ now' \in Nat /\ now <= now'
  BY ClockMoves
<1>2. CASE cleaner'.todo \subseteq cleaner.todo
  BY <1>1, <1>2 DEF TodoExpired
<1>3. CASE ScanExpired
  <2>1. cleaner'.todo = ExpiredFiles /\ UNCHANGED now
    BY <1>3 DEF ScanExpired, Types, ServerTypes
  <2>2. \A p \in DOMAIN fs : p.stamp \in Nat \cup {None}
    BY DEF Types, ServerTypes, Stamps
  <2>. QED
    BY <1>1, <2>1, <2>2 DEF TodoExpired, ExpiredFiles, Expired
<1>4. CASE RemoveExpired \/ SleepAndTryReceive \/ WaitForConfig
  <2>1. cleaner'.todo \subseteq cleaner.todo
    BY <1>4 DEF RemoveExpired, SleepAndTryReceive, WaitForConfig, ReceiveConfig, Types,
       ServerTypes
  <2>. QED
    BY <1>2, <2>1
<1>. QED
  BY <1>2, <1>3, <1>4, CleanerMoves DEF Cleaner

(* The requests: only the thread that moves has another one.               *)
LEMMA UploadsStep ==
  ASSUME SeparateUploads, Types, Types', LinkInv, [Next]_vars
  PROVE  UploadsGood'
<1> USE DEF LinkInv
<1>1. CASE UNCHANGED req
  BY <1>1 DEF UploadsGood
<1>2. ASSUME NEW r \in Threads, Arrive(r) \/ Handle(r), NEW k, GoodRequest(k),
             req' = [req EXCEPT ![r] = k]
      PROVE  UploadsGood'
  <2>1. /\ req = [q \in Threads |-> req[q]]
        /\ GoodRequest(req[r]) /\ GoodUpload(req[r])
        /\ now \in 0..MaxTime
    BY DEF Types, ServerTypes, UploadsGood
  <2>2. req'[r] = k /\ \A q \in Threads : q # r => req'[q] = req[q]
    BY <1>2, <2>1
  <2>3. GoodUpload(k) => UploadsGood'
    BY <2>2 DEF UploadsGood
  <2>4. Done(r) => GoodUpload(k)
    BY <2>1, <2>2 DEF Done, NoRequest, GoodUpload
  <2>5. ASSUME NEW u \in Uploads, ArriveUpload(r, u) PROVE GoodUpload(k)
    <3>1. k.pc \in {"download", "field"} /\ k.upload = u /\ k.stamp = ExpiryDate(u)
      BY <2>1, <2>2, <2>5 DEF ArriveUpload, GoodRequest
    <3>2. ExpiryDate(u) \in PathStamps
      BY <2>1, OpenAssumption DEF ExpiryDate, PathStamps
    <3>3. StoredByUrl(u) => ExpiryDate(u) = None
      BY DEF SeparateUploads, ExpiryDate
    <3>. QED
      BY <3>1, <3>2, <3>3 DEF GoodUpload
  <2>6. ASSUME NEW n, View(r, n) PROVE GoodUpload(k)
    <3>1. k.pc = "consume" /\ IsOneshot(k.path)
      BY <2>1, <2>2, <2>6 DEF View, GoodRequest
    <3>. QED
      BY <3>1 DEF GoodUpload
  <2>7. ASSUME NEW n, ArriveDelete(r, n) PROVE GoodUpload(k)
    <3>1. k.pc = "find"
      BY <2>1, <2>2, <2>7 DEF ArriveDelete, GoodRequest
    <3>. QED
      BY <3>1 DEF GoodUpload
  <2>8. ASSUME Download(r) \/ FindDuplicate(r) PROVE GoodUpload(k)
    <3>1. \/ Done(r)
          \/ /\ req[r].pc \in {"download", "field"}
             /\ k.pc \in {"field", "store"} /\ k.upload = req[r].upload /\ k.stamp = req[r].stamp
      BY <2>1, <2>2, <2>8 DEF Download, FindDuplicate, At, GoodRequest
    <3>. QED
      BY <2>1, <2>4, <3>1 DEF GoodUpload
  <2>9. ASSUME CheckTarget(r) PROVE GoodUpload(k)
    <3> DEFINE u == req[r].upload
               p == Path(config.upload_path, GetDir(u.type), u.name, req[r].stamp)
    <3>1. \/ Done(r)
          \/ req' = [req EXCEPT ![r].pc = "create", ![r].path = p]
      BY <2>9 DEF CheckTarget
    <3>2. req[r].pc = "store"
      BY <2>9 DEF CheckTarget, At
    <3>3. u \in Uploads /\ req[r].stamp \in PathStamps /\ (StoredByUrl(u) => req[r].stamp = None)
      BY <2>1, <3>2 DEF GoodUpload
    <3>4. config.upload_path \in UploadPaths
      BY ConfigsAssumption DEF ConfigRecords, Types, ConfigTypes
    <3>5. GetDir(u.type) \in ServedFrom /\ u.name \in Names
      BY <3>3 DEF SeparateUploads, UploadTypes, GetDir, ServedFrom, Names
    <3>6. /\ p \in Paths /\ p.stamp = req[r].stamp
          /\ p.dir = GetDir(u.type) /\ p.name = u.name
      BY <3>3, <3>4, <3>5 DEF Paths, Path
    <3> HIDE DEF p
    <3>7. CASE req' = [req EXCEPT ![r].pc = "create", ![r].path = p]
      <4>1. k.pc = "create" /\ k.upload = u /\ k.stamp = req[r].stamp /\ k.path = p
        BY <2>1, <2>2, <3>7 DEF GoodRequest
      <4>. QED
        BY <3>3, <3>6, <4>1 DEF GoodUpload
    <3>. QED
      BY <2>4, <3>1, <3>7
  <2>10. ASSUME FindFile(r) PROVE GoodUpload(k)
    <3>1. Done(r) \/ k.pc = "remove"
      BY <2>1, <2>2, <2>10 DEF FindFile, GoodRequest
    <3>. QED
      BY <2>4, <3>1 DEF GoodUpload
  <2>11. Create(r) \/ Consume(r) \/ RemovePasteFile(r) => Done(r)
    BY DEF Create, Consume, RemovePasteFile
  <2>. QED
    BY <1>2, <2>3, <2>4, <2>5, <2>6, <2>7, <2>8, <2>9, <2>10, <2>11 DEF Arrive, Handle
<1>. QED
  BY <1>1, <1>2, RequestsMove

(* The names: an upload waits for the other one of its name.               *)
LEMMA ApartStep ==
  ASSUME SeparateUploads, Types, Types', LinkInv, [Next]_vars
  PROVE  UploadsApart'
<1> USE DEF LinkInv
<1>1. CASE UNCHANGED req
  BY <1>1 DEF UploadsApart
<1>2. ASSUME NEW r \in Threads, Arrive(r) \/ Handle(r), NEW k, GoodRequest(k),
             req' = [req EXCEPT ![r] = k]
      PROVE  UploadsApart'
  <2>1. /\ req = [q \in Threads |-> req[q]]
        /\ GoodRequest(req[r])
    BY DEF Types, ServerTypes
  <2>2. req'[r] = k /\ \A q \in Threads : q # r => req'[q] = req[q]
    BY <1>2, <2>1
  <2>3. CASE k.upload \in {None, req[r].upload}
    <3>1. \A q \in Threads : req'[q].upload \in {None, req[q].upload}
      BY <2>2, <2>3
    <3>2. \A q \in Threads : req'[q].upload \in Uploads => req'[q].upload = req[q].upload
      BY <3>1, NoneAssumption
    <3>3. ASSUME NEW a \in Threads, NEW b \in Threads,
                 req'[a].upload \in Uploads, req'[b].upload \in Uploads,
                 req'[a].upload.name = req'[b].upload.name
          PROVE  a = b
      <4>1. req'[a].upload = req[a].upload /\ req'[b].upload = req[b].upload
        BY <3>2, <3>3
      <4>. QED
        BY <3>3, <4>1 DEF UploadsApart
    <3>. QED
      BY <3>3 DEF UploadsApart
  <2>4. ASSUME NEW u \in Uploads, ArriveUpload(r, u) PROVE UploadsApart'
    <3>1. k.upload = u
      BY <2>1, <2>2, <2>4 DEF ArriveUpload, GoodRequest
    <3>2. \A q \in Threads : req[q].upload \in Uploads => req[q].upload.name # u.name
      BY <2>4, NoneAssumption DEF ArriveUpload
    <3>. QED
      BY <2>2, <3>1, <3>2 DEF UploadsApart
  <2>5. Done(r) => k.upload = None
    BY <2>1, <2>2 DEF Done, NoRequest
  <2>6. (\E n : View(r, n) \/ ArriveDelete(r, n)) => k.upload = req[r].upload
    BY <2>1, <2>2 DEF View, ArriveDelete, GoodRequest
  <2>7. Download(r) \/ FindDuplicate(r) \/ CheckTarget(r) \/ FindFile(r)
          => k.upload \in {None, req[r].upload}
    BY <2>1, <2>2, <2>5 DEF Download, FindDuplicate, CheckTarget, FindFile, GoodRequest
  <2>8. Create(r) \/ Consume(r) \/ RemovePasteFile(r) => Done(r)
    BY DEF Create, Consume, RemovePasteFile
  <2>. QED
    BY <1>2, <2>3, <2>4, <2>5, <2>6, <2>7, <2>8 DEF Arrive, Handle
<1>. QED
  BY <1>1, <1>2, RequestsMove

(* The check refuses a name in use, so that the creator has no rival; ...  *)
LEMMA CheckedTargetIsFree ==
  ASSUME SeparateUploads, Types, LinkInv, NEW u \in Uploads, NEW root, NEW s \in PathStamps,
         MayStore(u, root), StoredByUrl(u) => s = None
  PROVE  NoRival(Path(root, GetDir(u.type), u.name, s))
<1> USE DEF LinkInv
<1> SUFFICES ASSUME NEW q \in DOMAIN fs, q.root = root, q.name = u.name, Active(q)
             PROVE  q = Path(root, GetDir(u.type), u.name, s)
  BY DEF NoRival, Twins, Path
<1>1. q \in Paths /\ q = Path(q.root, q.dir, q.name, q.stamp)
  BY DEF FilesStored, Paths, Path
<1>2. q.dir = GetDir(u.type)
  BY DEF FilesStored, Stored, SeparateUploads
<1>3. CASE StoredByUrl(u)
  <2>1. q.dir \in {"url", "oneshot_url"}
    BY <1>2, <1>3 DEF StoredByUrl, GetDir
  <2>2. q.stamp # None => q.stamp <= now /\ q.stamp \in Nat
    BY <1>1, <2>1, OpenAssumption DEF FilesStored, Paths, PathStamps
  <2>3. now \in Nat
    BY OpenAssumption DEF Types, ServerTypes
  <2>4. q.stamp = None
    BY <2>2, <2>3 DEF Active
  <2>. QED
    BY <1>1, <1>2, <1>3, <2>4
<1>4. CASE ~StoredByUrl(u)
  <2>1. ~IsFile(GlobMatchFile(root, GetDir(u.type), u.name))
    BY <1>4 DEF MayStore, NameTaken
  <2>2. GlobMatchFile(q.root, q.dir, q.name) = q
    BY GlobFindsActive
  <2>. QED
    BY <1>2, <2>1, <2>2 DEF IsFile
<1>. QED
  BY <1>3, <1>4

(* ... and it gets none while it waits, as uploads of one name wait too.   *)
LEMMA CreatorsStep ==
  ASSUME SeparateUploads, Types, Types', LinkInv, UploadsGood', [Next]_vars
  PROVE  CreatorsAlone'
<1> USE DEF LinkInv
<1>1. /\ \A p \in Paths : Active(p)' => Active(p)
      /\ \A p \in DOMAIN fs : p \in Paths
  BY ClockMoves DEF FilesStored
<1>2. ASSUME NEW d \in Threads, At(d, "create"), req'[d] = req[d]
      PROVE  \A x : x = req'[d].path => NoRival(x)'
  <2>1. PICK x : x = req[d].path
    OBVIOUS
  <2>2. NoRival(x) /\ x.name = req[d].upload.name /\ req[d].upload \in Uploads
    BY <1>2, <2>1 DEF CreatorsAlone, UploadsGood, GoodUpload, At
  <2>3. ASSUME DOMAIN fs' \subseteq DOMAIN fs PROVE NoRival(x)'
    BY <1>1, <2>2, <2>3 DEF NoRival, Twins
  <2>4. ASSUME NEW r \in Threads, Create(r) PROVE NoRival(x)'
    <3>1. r # d
      <4>1. Create(r) => req'[r].pc = "idle"
        BY DEF Create, Done, NoRequest, Types, ServerTypes
      <4>. QED
        BY <1>2, <2>4, <4>1 DEF At
    <3>2. PICK p : p = req[r].path
      OBVIOUS
    <3>3. /\ UNCHANGED now
          /\ req[r].upload \in Uploads /\ p.name = req[r].upload.name
          /\ UNCHANGED fs \/ DOMAIN fs' = DOMAIN fs \cup {p}
      BY <2>4, <3>2, Created
    <3>4. p.name # x.name
      BY <2>2, <3>1, <3>3 DEF UploadsApart
    <3>. QED
      BY <2>2, <2>3, <3>3, <3>4 DEF NoRival, Twins, Active
  <2>5. ASSUME NEW r \in Threads, Consume(r) PROVE NoRival(x)'
    <3>1. PICK p, c : p = req[r].path /\ c = Path(p.root, p.dir, p.name, now)
      OBVIOUS
    <3>2. /\ UNCHANGED now
          /\ \/ UNCHANGED fs
             \/ DOMAIN fs' = (DOMAIN fs \ {p}) \cup {c} /\ ~Active(c)
      BY <2>5, <3>1, Consumed
    <3>. QED
      BY <2>2, <2>3, <3>2 DEF NoRival, Twins, Active
  <2>6. ASSUME NEW p, fs' = Without(p) PROVE DOMAIN fs' \subseteq DOMAIN fs
    BY <2>6, RemovedFile
  <2>. QED
    BY <1>2, <2>1, <2>3, <2>4, <2>5, <2>6, FilesMove
<1>3. ASSUME NEW d \in Threads, CheckTarget(d), req'[d].pc = "create"
      PROVE  \A x : x = req'[d].path => NoRival(x)'
  <2> DEFINE u == req[d].upload
             p == Path(config.upload_path, GetDir(u.type), u.name, req[d].stamp)
  <2>1. MayStore(u, config.upload_path) /\ req' = [req EXCEPT ![d].pc = "create", ![d].path = p]
    BY <1>3 DEF CheckTarget, Done, NoRequest, Types, ServerTypes
  <2>2. req'[d].path = p
    <3> HIDE DEF p
    <3>. QED
      BY <2>1 DEF Types, ServerTypes, GoodRequest
  <2>3. u \in Uploads /\ req[d].stamp \in PathStamps /\ (StoredByUrl(u) => req[d].stamp = None)
    BY <1>3 DEF CheckTarget, At, UploadsGood, GoodUpload
  <2>4. NoRival(p)
    BY <2>1, <2>3, CheckedTargetIsFree
  <2>5. UNCHANGED <<fs, now>>
    BY <1>3 DEF CheckTarget
  <2> HIDE DEF p
  <2>6. PICK x : x = p
    OBVIOUS
  <2>7. NoRival(x)'
    BY <2>4, <2>5, <2>6 DEF NoRival, Twins, Active
  <2>. QED
    BY <2>2, <2>6, <2>7
<1>4. ASSUME NEW d \in Threads, req'[d].pc = "create", ~CheckTarget(d)
      PROVE  At(d, "create") /\ req'[d] = req[d]
  BY <1>4, CreatorsMove
<1>5. ASSUME NEW d \in Threads, req'[d].pc = "create"
      PROVE  \E x : x = req'[d].path /\ NoRival(x)'
  BY <1>2, <1>3, <1>4, <1>5
<1>. QED
  BY <1>5 DEF CreatorsAlone, At, NoRival, Twins, Active

------------------------------------------------------------------------------
(* Every link that an upload was answered with leads to what was uploaded, *)
(* for as long as it should, if the uploads keep apart: the invariant says *)
(* that a name has one active file, also once the running uploads have     *)
(* created theirs.                                                         *)
THEOREM LinkInvariant == SeparateUploads => (Spec => [](Types /\ LinkInv))
<1> SUFFICES ASSUME SeparateUploads PROVE Spec => [](Types /\ LinkInv)
  OBVIOUS
<1>1. Init => LinkInv
  BY NoneAssumption
     DEF Init, NoRequest, LinkInv, FilesStored, OneActive, UploadsGood, GoodUpload,
         CreatorsAlone, At, UploadsApart, LinksKept, TodoExpired
<1>2. Types /\ Types' /\ LinkInv /\ [Next]_vars => LinkInv'
  BY FilesStep, LinksStep, TodoStep, UploadsStep, ApartStep, CreatorsStep DEF LinkInv
<1>. QED
  BY <1>1, <1>2, TypesHold, PTL DEF Spec

(* What follows for a download.                                            *)
THEOREM LinksWork == SeparateUploads => (Spec => []LinksLeadToUploads)
<1> SUFFICES ASSUME SeparateUploads PROVE Spec => []LinksLeadToUploads
  OBVIOUS
<1>1. Types /\ LinkInv => LinksLeadToUploads
  BY LinksFollow
<1>. QED
  BY <1>1, LinkInvariant, PTL

(* What follows for the listing.                                           *)
THEOREM ListingIsExact ==
  SeparateUploads /\ None \notin Paths => (Spec => []ListingAgrees)
<1> SUFFICES ASSUME SeparateUploads, None \notin Paths PROVE Spec => []ListingAgrees
  OBVIOUS
<1>1. Types /\ LinkInv => ListingAgrees
  BY ListingFollows
<1>. QED
  BY <1>1, LinkInvariant, PTL
================================================================================
