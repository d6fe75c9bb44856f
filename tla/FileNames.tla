------------------------------ MODULE FileNames ------------------------------
(***************************************************************************)
(* Names of stored pastes: how the expiry date is written into the name of *)
(* the file, and how the three readers of that name take it apart again.   *)
(*                                                                         *)
(* A file name is the sequence of its dot-separated parts, <<"ls", 1>> for *)
(* "ls.1".  A numeric part is a number; NumericParts is the finite set of  *)
(* numbers an instance uses.  A suffix of ten digits or more is a number   *)
(* that is at least MinStamp (leading zeros are not modelled).             *)
(*                                                                         *)
(* Suffixes are in milliseconds and the database is in seconds.  A second  *)
(* has TicksPerSec ticks, the unit that stands for the millisecond.        *)
(***************************************************************************)
EXTENDS Integers, Sequences

CONSTANTS
  Parts,          \* the dot-separated parts that names are made of
  NumericParts,   \* the numeric ones
  PublicNames,    \* the public names of pastes
  MinStamp,       \* the least number that split_expiry takes for a stamp
  TicksPerSec,    \* ticks of the millisecond clock in a second
  PasswordExt,    \* the part "password"
  None            \* Option::None, SQL's NULL

ASSUME PartsAssumption == NumericParts \subseteq Nat \cap Parts
ASSUME NamesAssumption == PublicNames \subseteq Seq(Parts) \ {<<>>}
ASSUME MinStampAssumption == MinStamp \in Nat
ASSUME TicksPerSecAssumption == TicksPerSec \in Nat \ {0}
ASSUME NoneAssumption == None \notin Nat
ASSUME PasswordExtAssumption == PasswordExt \notin Nat

PasteTypes == {"file", "remote_file", "oneshot", "url", "oneshot_url", "protected_file"}

(* PasteType::get_dir; a remote file lies in the root beside the files.    *)
GetDir(type) == IF type \in {"file", "remote_file"} THEN "root" ELSE type

(* A mutant: the root has a type of its own.                               *)
RootDirAsType(dir) == dir

(* The type a scan gives the files of a directory.                         *)
TypeOfDir(dir) == IF dir = "root" THEN "file" ELSE dir

Numeric(name) == Len(name) > 1 /\ name[Len(name)] \in NumericParts
Suffix(name) == name[Len(name)]
WithoutSuffix(name) == SubSeq(name, 1, Len(name) - 1)

Seconds(ms) == ms \div TicksPerSec

(* expiry_seconds: the first whole second that is not before the stamp.    *)
ExpirySeconds(ms) == IF ms = None THEN None ELSE (ms + TicksPerSec - 1) \div TicksPerSec

(* The name store_file and store_url give to the file of a paste.          *)
StoredName(name, expiry) == IF expiry = None THEN name ELSE Append(name, expiry)

HasStamp(name) == Numeric(name) /\ Suffix(name) >= MinStamp

(* split_expiry: the public name and expiry the scan reads off a file name *)
SplitExpiry(name) ==
  IF HasStamp(name)
  THEN [name |-> WithoutSuffix(name), expires |-> ExpirySeconds(Suffix(name))]
  ELSE [name |-> name, expires |-> None]

(* The stamps an expiring upload may get, and the names of files.          *)
Stamps == {n \in NumericParts : n >= MinStamp}
Expiries == Stamps \cup {None}
StoredNames == {StoredName(n, e) : n \in PublicNames, e \in Expiries}

(* A scan finds public names of the instance: a bound, not a claim.        *)
ASSUME ScanAssumption == \A f \in StoredNames : SplitExpiry(f).name \in PublicNames

(* No public name ends in what split_expiry takes for a stamp.  Then and   *)
(* only then does the scan read off a file name what the upload wrote.     *)
CleanNames == \A n \in PublicNames : ~HasStamp(n)

(* A mutant: a paste expires a tick too early.                             *)
ExpiredAtStamp(name, now) == Numeric(name) /\ now >= Suffix(name)

(* get_expired_files: any numeric extension that lies in the past; there   *)
(* is no lower limit on its length.                                        *)
ExpiredOnDisk(name, now) == Numeric(name) /\ now > Suffix(name)

(* get_password_file_path                                                  *)
PasswordFileName(name) == Append(name, PasswordExt)
==============================================================================
