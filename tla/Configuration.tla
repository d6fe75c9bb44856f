---------------------------- MODULE Configuration ----------------------------
(***************************************************************************)
(* The configuration: its file, the watcher that reads the file when it    *)
(* changes, the copy that the handlers share, and the channel on which the *)
(* cleanup thread gets every copy in turn.                                 *)
(***************************************************************************)
EXTENDS Naturals, Sequences

CONSTANTS
  None,           \* Option::None
  UploadPaths,    \* the directories a configuration may name
  Tokens,         \* the tokens that clients present
  Configs,        \* the configurations that the file may hold
  StartConfig,    \* the one that the server is started with
  MaxEdits        \* bound: changes of the file

(* What of a configuration the other modules use: [auth] is there or not;  *)
(* cleanup is delete_expired_files.enabled.                                *)
ConfigRecords ==
  [auth : BOOLEAN, upload_path : UploadPaths,
   auth_tokens : SUBSET Tokens, delete_tokens : SUBSET Tokens,
   duplicate_files : BOOLEAN, max_upload_dir_size : Nat \cup {None}, cleanup : BOOLEAN]

(* get_tokens: those of the file, of the environment and of a token file.  *)
GetTokens(c, type) == IF type = "auth" THEN c.auth_tokens ELSE c.delete_tokens

ASSUME ConfigsAssumption ==
  Configs \subseteq ConfigRecords /\ StartConfig \in Configs /\ None \notin Configs
ASSUME EditsAssumption == MaxEdits \in Nat

VARIABLES
  disk,           \* the file: a configuration, or None if it does not parse
  edits,          \* how often it has changed
  event,          \* a change that the watcher has not been told of
  parsed,         \* what the watcher has parsed and not yet compared
  config,         \* the configuration the handlers share, behind a RwLock
  channel         \* configurations on their way to the cleanup thread

configVars == <<disk, edits, event, parsed, config, channel>>

ConfigInit ==
  /\ disk = StartConfig
  /\ edits = 0
  /\ event = FALSE
  /\ parsed = None
  /\ config = StartConfig
  /\ channel = <<>>

(* auth_config_fingerprint                                                 *)
Fingerprint(c) ==
  [auth |-> c.auth, upload_path |-> c.upload_path,
   auth_tokens |-> c.auth_tokens, delete_tokens |-> c.delete_tokens]

(* A mutant: tokens count as authentication also without [auth].           *)
FingerprintsMatch(current, candidate) == Fingerprint(current) = Fingerprint(candidate)

(* A mutant: whatever parses comes into use.                               *)
AnyConfigMatches(current, candidate) == TRUE

(* auth_configs_match: without [auth] before and after, all may change.    *)
AuthConfigsMatch(current, candidate) ==
  \/ ~current.auth /\ ~candidate.auth
  \/ Fingerprint(current) = Fingerprint(candidate)

(* Someone changes the file, and it need not be complete at once.  Changes *)
(* that come soon after one another are one event.                         *)
EditFile ==
  /\ edits < MaxEdits
  /\ disk' \in (Configs \cup {None}) \ {disk}
  /\ edits' = edits + 1
  /\ event' = TRUE
  /\ UNCHANGED <<parsed, config, channel>>

(* config_watcher: Config::parse; what does not parse is dropped.          *)
ParseFile ==
  /\ event /\ parsed = None
  /\ event' = FALSE
  /\ parsed' = disk
  /\ UNCHANGED <<disk, edits, config, channel>>

(* A mutant: a configuration is sent once it has parsed, as it may be used *)
SendAlways(c) == Append(channel, c)

Send(c) == IF AuthConfigsMatch(config, c) THEN Append(channel, c) ELSE channel

(* config_watcher, under the write lock: compare, replace and send.        *)
ReplaceConfig ==
  /\ parsed # None
  /\ config' = IF AuthConfigsMatch(config, parsed) THEN parsed ELSE config
  /\ channel' = Send(parsed)
  /\ parsed' = None
  /\ UNCHANGED <<disk, edits, event>>
==============================================================================
