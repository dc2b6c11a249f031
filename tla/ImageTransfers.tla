---------------------------- MODULE ImageTransfers ----------------------------
(***************************************************************************)
(* The requests of the Apple backend that go through the file system:      *)
(* LoadImages, GetImage and BuildImage (internal/backend/apple/client.go)  *)
(* with their handlers (internal/api/images.go, build.go).  Each has a     *)
(* temporary file or directory of its own, so requests do not meet and one *)
(* after another is enough.  The client may disconnect at any time, which  *)
(* cancels the context and kills the CLI command.                          *)
(***************************************************************************)
EXTENDS BuildContext

CONSTANTS
  EntryNames,   \* names in a build context
  MaxEntries,   \* bound: entries of a build context
  MaxTransfers  \* bound: requests in all

ASSUME TransferBounds == MaxEntries \in Nat /\ MaxTransfers \in Nat

ASSUME EntryNamesHaveParts == EntryNames \subseteq [absolute : BOOLEAN, parts : Seq(STRING)]

Entries == [name : EntryNames, type : {"dir", "file", "link"}]

VARIABLES
  kind,       \* "load", "save" or "build"
  step,       \* what the request does next
  temp,       \* its temporary file or directory: "none", "partial" or "whole"
  status,     \* the status the client was sent: "none", "ok" or "error"
  told,       \* an error was written into the body
  failed,     \* the operation returned an error
  entries,    \* the entries of the build context read so far (history)
  verdict,    \* what became of the last of them
  tree,       \* the extracted build context
  transfers

transferVars == <<kind, step, temp, status, told, failed, entries, verdict, tree, transfers>>
answer == <<status, told>>
context == <<entries, verdict, tree>>

TransferInit ==
  /\ kind = "load" /\ step = "idle" /\ temp = "none"
  /\ status = "none" /\ told = FALSE /\ failed = FALSE
  /\ entries = <<>> /\ verdict = "none" /\ tree = <<>>
  /\ transfers = 0

(* Load and Build answer 200 before anything is done.                       *)
BeginTransfer(k) ==
  /\ step = "idle" /\ transfers < MaxTransfers
  /\ kind' = k /\ step' = "temp" /\ transfers' = transfers + 1
  /\ status' = IF k = "save" THEN "none" ELSE "ok"
  /\ told' = FALSE /\ failed' = FALSE
  /\ entries' = <<>> /\ verdict' = "none" /\ tree' = <<>>
  /\ UNCHANGED temp

(* The operation returns an error after its deferred or explicit removal.   *)
Fail == failed' = TRUE /\ step' = "cleanup"

CreateTemp ==
  /\ step = "temp"
  /\ \/ temp' = "partial" /\ UNCHANGED failed
        /\ step' = CASE kind = "load" -> "copy" [] kind = "save" -> "run" [] OTHER -> "extract"
     \/ Fail /\ UNCHANGED temp
  /\ UNCHANGED <<kind, answer, context, transfers>>

(* Mutant: a body that breaks off counts as its end.                        *)
CopyBodyUnchecked ==
  /\ step = "copy"
  /\ \/ temp' = "whole"
     \/ UNCHANGED temp
  /\ step' = "run"
  /\ UNCHANGED <<kind, failed, answer, context, transfers>>

(* LoadImages writes the body to its file; the body may break off.          *)
CopyBody ==
  /\ step = "copy"
  /\ \/ temp' = "whole" /\ step' = "run" /\ UNCHANGED failed
     \/ Fail /\ UNCHANGED temp
  /\ UNCHANGED <<kind, answer, context, transfers>>

ExtractEntry(entry) ==
  /\ step = "extract" /\ Len(entries) < MaxEntries
  /\ entries' = Append(entries, entry)
  /\ verdict' = Verdict(tree, entry)
  /\ tree' = IF verdict' = "placed" THEN Placed(tree, entry, Len(entries')) ELSE tree
  /\ IF verdict' \in {"placed", "ignored"} THEN UNCHANGED <<failed, step>> ELSE Fail
  /\ UNCHANGED <<kind, temp, answer, transfers>>

(* The archive ends; or it breaks off, or a file cannot be written.         *)
ExtractEnd ==
  /\ step = "extract"
  /\ \/ temp' = "whole" /\ step' = "run" /\ UNCHANGED failed
     \/ Fail /\ UNCHANGED temp
  /\ UNCHANGED <<kind, answer, context, transfers>>

RunSucceeds ==
  /\ step = "run"
  /\ temp' = "whole"
  /\ step' = IF kind = "save" THEN "open" ELSE "cleanup"
  /\ UNCHANGED <<kind, failed, answer, context, transfers>>

(* Mutant: an archive whose command failed is not removed.                  *)
RunFailsUnremoved ==
  /\ step = "run"
  /\ failed' = TRUE /\ step' = IF kind = "save" THEN "tell" ELSE "cleanup"
  /\ UNCHANGED <<kind, temp, answer, context, transfers>>

RunFails ==
  /\ step = "run"
  /\ Fail
  /\ UNCHANGED <<kind, temp, answer, context, transfers>>

OpenArchive ==
  /\ step = "open"
  /\ \/ step' = "send" /\ status' = "ok" /\ UNCHANGED failed
     \/ Fail /\ UNCHANGED status
  /\ UNCHANGED <<kind, temp, told, context, transfers>>

(* Get copies the archive to the client and drops any error of that.        *)
SendArchive ==
  /\ step = "send"
  /\ step' = "cleanup"
  /\ UNCHANGED <<kind, temp, answer, failed, context, transfers>>

Cleanup ==
  /\ step = "cleanup"
  /\ temp' = "none"
  /\ step' = "tell"
  /\ UNCHANGED <<kind, answer, failed, context, transfers>>

(* Mutant: Load drops the error as Build does.                              *)
TellNothing ==
  /\ step = "tell"
  /\ status' = IF failed /\ kind = "save" THEN "error" ELSE status
  /\ step' = "idle"
  /\ UNCHANGED <<kind, temp, told, failed, context, transfers>>

(* The handler tells of a failure: Get by its status, Load in the body,     *)
(* Build not at all.                                                        *)
Tell ==
  /\ step = "tell"
  /\ status' = IF failed /\ kind = "save" THEN "error" ELSE status
  /\ told' = (failed /\ kind = "load")
  /\ step' = "idle"
  /\ UNCHANGED <<kind, temp, failed, context, transfers>>

TransferNext ==
  \/ \E k \in {"load", "save", "build"} : BeginTransfer(k)
  \/ \E entry \in Entries : ExtractEntry(entry)
  \/ CreateTemp \/ CopyBody \/ ExtractEnd \/ RunSucceeds \/ RunFails
  \/ OpenArchive \/ SendArchive \/ Cleanup \/ Tell

TransferSpec == TransferInit /\ [][TransferNext]_transferVars

-----------------------------------------------------------------------------
TransferTypeOK ==
  /\ kind \in {"load", "save", "build"} /\ temp \in {"none", "partial", "whole"}
  /\ status \in {"none", "ok", "error"}
  /\ {told, failed} \subseteq BOOLEAN
  /\ step \in {"idle", "temp", "copy", "extract", "run", "open", "send", "cleanup", "tell"}
  /\ transfers \in 0..MaxTransfers

NoTempLeft == step = "idle" => temp = "none"

OnlyWholeIsUsed ==
  step \in {"open", "send"} \/ (step = "run" /\ kind # "save") => temp = "whole"

FailureIsTold ==
  step = "idle" /\ failed /\ kind # "build" => status = "error" \/ told

(* Whatever fails or breaks off: a request that is over has left no         *)
(* temporary file; the CLI loads an archive and builds a context only after *)
(* all of it was received, and an archive is sent only after all of it was  *)
(* written; a load or a save that failed is not taken for a success.  (A    *)
(* failed build is: its error is dropped after the 200.)                    *)
TransferIsSound == NoTempLeft /\ OnlyWholeIsUsed /\ FailureIsTold

InsideTree ==
  \A p \in DOMAIN tree :
    /\ \A n \in DOMAIN p : p[n] \notin {".", ".."}
    /\ \A q \in Parents(p) : q \in DOMAIN tree /\ tree[q] = Directory

LastEntryWins ==
  kind = "build" /\ step = "run" =>
    \A n \in DOMAIN entries : entries[n].type = "file" /\ ~Ignored(entries[n].name) =>
      LET path == Clean(entries[n].name) IN
      path \in DOMAIN tree /\ tree[path] >= n /\ Clean(entries[tree[path]].name) = path

(* An entry is refused as an escape if and only if following its name leads *)
(* out of the directory; what is extracted is a tree inside it; and a build *)
(* sees every file of its context as the last entry for it has it.          *)
ExtractionIsSound ==
  /\ entries # <<>> => (verdict = "escapes" <=> ~StaysInside(entries[Len(entries)].name))
  /\ InsideTree /\ LastEntryWins
===============================================================================
