------------------------------- MODULE Nvram --------------------------------
(***************************************************************************)
(* One NVRAM file: its bytes on nvdata with the two check bytes at the end  *)
(* (libnvram.cpp), its copy in AllFile on nvdata and in the backup partition *)
(* (libfile_op.c), the HIDL service that reads, writes, resets, backs up and *)
(* restores it (Nvram.cpp), and nvram_daemon, which restores files at boot.  *)
(* Power may fail between any two writes, and the service may be killed      *)
(* there.                                                                   *)
(*                                                                         *)
(* The service has one thread, and its clients wait for the daemon's        *)
(* property vendor.service.nvram_init, so one writer of the file runs at a  *)
(* time.  What was written reaches the storage in the order of the writes.  *)
(***************************************************************************)
EXTENDS Integers, Sequences

CONSTANTS
  Payloads,      \* what a client may send as the bytes of one write
  MaxRequests,   \* requests the clients send
  MaxFailures    \* power failures, kills of the service and failing writes

Byte == 0 .. 255

ASSUME NvramAssumption ==
  /\ Payloads \subseteq Seq(Byte) /\ \A p \in Payloads : Len(p) \in 1 .. 4
  /\ MaxRequests \in Nat /\ MaxFailures \in Nat

VARIABLES
  present,    \* the file exists
  file,       \* its bytes
  flag,       \* g_pcNVM_Flag: "none", "empty" or "set" (holds 0x12345678)
  bin,        \* the backup partition: map, bad block bitmap and data
  all,        \* AllMap and AllFile on nvdata
  boot,       \* place in nvram_daemon
  pc,         \* place in the HIDL service
  ret,        \* where the service goes on after a restore or a reset
  req,        \* request being served
  inList,     \* the file is in aBackupToBinRegion
  nand,       \* the partition is on NAND, whose blocks are erased first
  want,       \* history: the bytes the file is to have after the write under way
  expect,     \* history: what the next open may hand out
  saved,      \* history: what a restore of the file may end with
  served,     \* requests so far
  failed      \* failures so far

disk    == <<present, file>>
storage == <<disk, flag, bin, all>>
kind    == <<inList, nand>>
history == <<want, expect, saved>>
bounds  == <<served, failed>>
vars == <<storage, boot, pc, ret, req, kind, history, bounds>>

-----------------------------------------------------------------------------
\* The file: two records of two bytes, a mark and a check number.

RecSize == 2
RecNum  == 2
Size    == RecSize * RecNum
Mark    == 170

Default   == <<0, 0, 0, 0>>
DataOf(f) == SubSeq(f, 1, Size)

\* write() at an offset: replaces bytes, and makes the file longer if it must.
Overwrite(f, at, w) ==
  LET end == at + Len(w)
  IN  [i \in 1 .. (IF end > Len(f) THEN end ELSE Len(f)) |->
         IF at < i /\ i <= end THEN w[i - at]
         ELSE IF i <= Len(f) THEN f[i] ELSE 0]

Bit(n, w) == (n \div w) % 2

\* The exclusive or of two bytes, by the weights of their bits.
Xor(a, b) ==
  LET x(w) == w * ((Bit(a, w) + Bit(b, w)) % 2)
  IN  x(1) + x(2) + x(4) + x(8) + x(16) + x(32) + x(64) + x(128)

NVM_ComputeCheckNoWide(f) == f[1] + f[2] + f[3] + f[4]

\* The bytes are added and xor-ed in turn into one byte.  Files that differ may
\* have the same number: 0 0 .. and 1 1 .. do.
NVM_ComputeCheckNo(f) == Xor((Xor(f[1] % 256, f[2]) + f[3]) % 256, f[4])

\* -1: wrong size, 0: without the check bytes, 1: with them.
NVM_CheckFileSize(f) == CASE Len(f) = Size     -> 0
                          [] Len(f) = Size + 2 -> 1
                          [] OTHER             -> -1

NVM_CheckFile(f) == f[Size + 1] = Mark /\ f[Size + 2] = NVM_ComputeCheckNo(f)

Good(f) == NVM_CheckFileSize(f) = 1 /\ NVM_CheckFile(f)

-----------------------------------------------------------------------------
\* AllMap and AllFile, and their copy in the partition.  A map names the size of
\* the file's copy (0: other files only) and the checksum of AllFile.

NoMap  == [size |-> -1, sum |-> <<0, 0>>]
NoAll  == [map |-> NoMap, dat |-> <<>>]
Erased == [map |-> NoMap, bitmap |-> FALSE, dat |-> <<>>]

At(f, i) == IF i <= Len(f) THEN f[i] ELSE 0

\* The 32-bit words of AllFile, here those of this file, are xor-ed and added in
\* turn, and the length is xor-ed in; given as the upper and the lower half.
FileOp_ComputeCheckSum(f) ==
  LET lo == At(f, 1) + At(f, 5) + 256 * (At(f, 2) + At(f, 6))
      hi == At(f, 3) + At(f, 7) + 256 * (At(f, 4) + At(f, 8)) + lo \div 65536
  IN  <<hi % 65536, 256 * ((lo % 65536) \div 256) + Xor(lo % 256, Len(f))>>

MapOf(f) == [size |-> Len(f), sum |-> FileOp_ComputeCheckSum(f)]

\* FileOp_CompareCheckSum of a map and its data.
Matches(b) == b.map # NoMap /\ b.map.sum = FileOp_ComputeCheckSum(b.dat)

\* The bytes a restore reads: as many as the map says, none if there are fewer.
Copy(b) == IF b.map.size \in 1 .. Len(b.dat) THEN SubSeq(b.dat, 1, b.map.size) ELSE <<>>

\* What NVM_RestoreFromBinRegion_OneFile and FileOp_RestoreFromBinRegion look for
\* before they copy the partition to AllMap and AllFile.
HasMap(b) == b.bitmap /\ b.map # NoMap

-----------------------------------------------------------------------------
NoRequest == [op |-> "none", at |-> 0, times |-> 0, bytes |-> <<>>]

Plain(o) == [NoRequest EXCEPT !.op = o]

\* writeFileBylid writes one record at (para - 1) * RecSize and does not bound para,
\* a uint16_t; writeFileByNamevec writes the client's bytes RecNum times and does
\* not compare their number with RecSize.
Requests ==
  {Plain(o) : o \in {"read", "reset", "backup", "backupAll", "backupOthers", "restoreAll"}}
  \cup {[op |-> "write", at |-> (para - 1) * RecSize, times |-> 1, bytes |-> p] :
          para \in 0 .. RecNum + 2, p \in {q \in Payloads : Len(q) = RecSize}}
  \cup {[op |-> "write", at |-> 0, times |-> RecNum, bytes |-> p] : p \in Payloads}

Init ==
  /\ present = FALSE /\ file = <<>> /\ flag = "none" /\ bin = Erased /\ all = NoAll
  /\ boot = "start" /\ pc = "idle" /\ ret = "opened" /\ req = NoRequest
  /\ inList \in BOOLEAN /\ nand \in BOOLEAN
  /\ want = <<>> /\ expect = {Default} /\ saved = {Default}
  /\ served = 0 /\ failed = 0

Goto(l) == pc' = l

\* What the file may hold once something has begun to overwrite it.
InDoubt == expect \cup saved

\* What an open takes as it is: the data of a file whose check number agrees or is
\* not there yet.
Taken(f) == IF Good(f) \/ Len(f) = Size THEN {DataOf(f)} ELSE {}

-----------------------------------------------------------------------------
\* nvram_daemon at boot: FileOp_RecoveryData, then the property is set to Ready.

\* The flag says that this nvdata was restored once.  Without it, and with a map in
\* the partition, AllMap and AllFile are truncated to be read from there.
BootChecksFlag ==
  /\ boot = "start"
  /\ IF flag = "set" \/ ~HasMap(bin)
       THEN boot' = "ready" /\ UNCHANGED all
       ELSE boot' = "load" /\ all' = NoAll
  /\ UNCHANGED <<disk, flag, bin, pc, ret, req, kind, history, bounds>>

BootLoads ==
  /\ boot = "load"
  /\ all' = [map |-> bin.map, dat |-> bin.dat]
  /\ boot' = "check"
  /\ UNCHANGED <<disk, flag, bin, pc, ret, req, kind, history, bounds>>

\* FileOp_RestoreData_All: every file in the map is truncated and rewritten.  If the
\* checksum is wrong the daemon goes on and leaves the flag as it is.
BootTruncates ==
  /\ boot = "check"
  /\ IF Matches(all) /\ all.map.size > 0
       THEN /\ boot' = "refill" /\ present' = TRUE /\ file' = <<>>
            /\ expect' = InDoubt
       ELSE /\ boot' = IF Matches(all) THEN "flag" ELSE "ready"
            /\ UNCHANGED <<disk, expect>>
  /\ UNCHANGED <<flag, bin, all, pc, ret, req, kind, want, saved, bounds>>

\* FileOp_RestoreFromFiles writes what the backup holds without checking it; an
\* AllFile that is too short makes the restore fail.
BootRefills ==
  /\ boot = "refill"
  /\ file' = Copy(all)
  /\ expect' = saved
  /\ boot' = IF Copy(all) = <<>> THEN "ready" ELSE "flag"
  /\ UNCHANGED <<present, flag, bin, all, pc, ret, req, kind, want, saved, bounds>>

BootOpensFlag ==
  /\ boot = "flag"
  /\ flag' = "empty"
  /\ boot' = "setflag"
  /\ UNCHANGED <<disk, bin, all, pc, ret, req, kind, history, bounds>>

BootSetsFlag ==
  /\ boot = "setflag"
  /\ flag' = "set"
  /\ boot' = "ready"
  /\ UNCHANGED <<disk, bin, all, pc, ret, req, kind, history, bounds>>

-----------------------------------------------------------------------------
\* A request to the service.

Serve(r) ==
  /\ boot = "ready" /\ pc = "idle"
  /\ served < MaxRequests
  /\ served' = served + 1
  /\ req' = r
  /\ CASE r.op \in {"read", "write"} -> Goto("open") /\ UNCHANGED <<ret, expect>>
       [] r.op = "reset"             -> Goto("reset") /\ ret' = "done" /\ expect' = InDoubt \cup {Default}
       [] r.op = "restoreAll"        -> Goto("restoreAll") /\ UNCHANGED <<ret, expect>>
       [] OTHER                      -> Goto("backup") /\ UNCHANGED <<ret, expect>>
  /\ UNCHANGED <<storage, boot, kind, want, saved, failed>>

\* NVM_GetFileDesc: a missing file is restored if this nvdata was restored before,
\* otherwise it is created and reset.
NVM_GetFileDesc ==
  /\ pc = "open"
  /\ IF present
       THEN Goto("protect") /\ UNCHANGED <<disk, ret>>
       ELSE /\ ret' = "protect"
            /\ IF flag # "none" /\ inList
                 THEN Goto("restore") /\ UNCHANGED disk
                 ELSE Goto("reset") /\ present' = TRUE /\ file' = <<>>
  /\ UNCHANGED <<flag, bin, all, boot, req, kind, history, bounds>>

NVM_ProtectDataFileNoRestore ==
  /\ pc = "protect"
  /\ ret' = "opened"
  /\ Goto(IF NVM_CheckFileSize(file) = 1 THEN "opened" ELSE "setno")
  /\ UNCHANGED <<storage, boot, req, kind, history, bounds>>

\* NVM_ProtectDataFile without Setflag.
NVM_ProtectDataFile ==
  /\ pc = "protect"
  /\ ret' = "opened"
  /\ Goto(CASE NVM_CheckFileSize(file) = 0 -> "setno"
            [] Good(file)                  -> "opened"
            [] OTHER                       -> IF inList THEN "restore" ELSE "reset")
  /\ UNCHANGED <<storage, boot, req, kind, history, bounds>>

\* NVM_RestoreFromBinRegion_OneFile: AllMap and AllFile are truncated and read from
\* the partition.
Restore ==
  /\ pc = "restore"
  /\ IF HasMap(bin)
       THEN all' = NoAll /\ Goto("load")
       ELSE UNCHANGED all /\ Goto("reset")
  /\ UNCHANGED <<disk, flag, bin, boot, ret, req, kind, history, bounds>>

RestoreLoads ==
  /\ pc = "load"
  /\ all' = [map |-> bin.map, dat |-> bin.dat]
  /\ Goto("check")
  /\ UNCHANGED <<disk, flag, bin, boot, ret, req, kind, history, bounds>>

\* The checksum must agree and the copy have its check bytes.
RestoreTruncates ==
  /\ pc = "check"
  /\ IF Matches(all) /\ all.map.size = Size + 2 /\ Copy(all) # <<>>
       THEN present' = TRUE /\ file' = <<>> /\ Goto("rewrite")
       ELSE UNCHANGED disk /\ Goto("reset")
  /\ UNCHANGED <<flag, bin, all, boot, ret, req, kind, history, bounds>>

\* The restored file must pass the check, or it is reset.
RestoreWrites ==
  /\ pc = "rewrite"
  /\ file' = Copy(all)
  /\ Goto(IF NVM_CheckFile(Copy(all)) THEN ret ELSE "reset")
  /\ UNCHANGED <<present, flag, bin, all, boot, ret, req, kind, history, bounds>>

\* NVM_ResetFileToDefault: truncate, write the default, append the check bytes.
Reset ==
  /\ pc = "reset"
  /\ present' = TRUE /\ file' = <<>>
  /\ Goto("default")
  /\ UNCHANGED <<flag, bin, all, boot, ret, req, kind, history, bounds>>

WriteDefault ==
  /\ pc = "default"
  /\ file' = Default
  /\ Goto("setno")
  /\ UNCHANGED <<present, flag, bin, all, boot, ret, req, kind, history, bounds>>

\* NVM_SetCheckNo: the mark and the check number are two writes, at the end of the
\* file or over the check bytes that are there.
SetCheckFlag ==
  /\ pc = "setno"
  /\ file' = Overwrite(file, Size, <<Mark>>)
  /\ Goto("setno2")
  /\ UNCHANGED <<present, flag, bin, all, boot, ret, req, kind, history, bounds>>

SetCheckNo ==
  /\ pc = "setno2"
  /\ file' = Overwrite(file, Size + 1, <<NVM_ComputeCheckNo(file)>>)
  /\ Goto(ret)
  /\ UNCHANGED <<present, flag, bin, all, boot, ret, req, kind, history, bounds>>

-----------------------------------------------------------------------------
\* The service with the file open.

\* readFileByName and readFileBylid: the value is settled by having been read.
Read ==
  /\ pc = "opened" /\ req.op = "read"
  /\ expect' = {DataOf(file)}
  /\ Goto("idle")
  /\ UNCHANGED <<storage, boot, ret, req, kind, want, saved, bounds>>

\* The file after the first write() and after the last one.
First == Overwrite(file, req.at, req.bytes)
Last  == IF req.times = 1 THEN First ELSE Overwrite(First, Len(req.bytes), req.bytes)

\* What NVM_CloseFileDesc keeps of a file that is open.
Kept(f) == IF Len(f) = Size + 2 THEN {DataOf(f)} ELSE {}

\* From here until the check bytes are set a cut leaves the old number over new
\* bytes.  If it happens to agree, they are handed out.
WriteFirst ==
  /\ pc = "opened" /\ req.op = "write" /\ req.at >= 0
  /\ want' = Last
  /\ expect' = InDoubt \cup Kept(Last) \cup Taken(First)
  /\ file' = First
  /\ Goto(IF req.times = 1 THEN "close" ELSE "writing")
  /\ UNCHANGED <<present, flag, bin, all, boot, ret, req, kind, saved, bounds>>

WriteNext ==
  /\ pc = "writing"
  /\ file' = Overwrite(file, Len(req.bytes), req.bytes)
  /\ expect' = expect \cup Taken(Overwrite(file, Len(req.bytes), req.bytes))
  /\ Goto("close")
  /\ UNCHANGED <<present, flag, bin, all, boot, ret, req, kind, want, saved, bounds>>

\* lseek() to before the file fails for para = 0; the file is closed unchanged.
SeekFails ==
  /\ pc = "opened" /\ req.op = "write" /\ req.at < 0
  /\ want' = file
  /\ Goto("close")
  /\ UNCHANGED <<storage, boot, ret, req, kind, expect, saved, bounds>>

\* write() fails: the file is closed all the same, which makes what was written
\* so far the contents of the file.
WriteFails ==
  /\ pc \in {"opened", "writing"} /\ req.op = "write" /\ req.at >= 0
  /\ failed < MaxFailures
  /\ failed' = failed + 1
  /\ want' = file
  /\ expect' = expect \cup Kept(file)
  /\ Goto("close")
  /\ UNCHANGED <<storage, boot, ret, req, kind, saved, served>>

NVM_CloseFileDescUnset ==
  /\ pc = "close"
  /\ ret' = "done"
  /\ Goto("done")
  /\ UNCHANGED <<storage, boot, req, kind, history, bounds>>

\* NVM_CloseFileDesc of a writer: NVM_ProtectDataFile with Setflag.  A file that was
\* made too long is restored or reset, and the client is told of success.
NVM_CloseFileDesc ==
  /\ pc = "close"
  /\ ret' = "done"
  /\ Goto(CASE NVM_CheckFileSize(file) # -1 -> "setno"
            [] OTHER                        -> IF inList THEN "restore" ELSE "reset")
  /\ UNCHANGED <<storage, boot, req, kind, history, bounds>>

\* What the file may hold when the request under way is done.
Outcome == IF req.op = "reset" THEN {Default}
           ELSE IF Len(want) = Size + 2 THEN {DataOf(want)} ELSE saved

\* The client is told that it is done.
Done ==
  /\ pc = "done"
  /\ expect' = Outcome
  /\ Goto("idle")
  /\ UNCHANGED <<storage, boot, ret, req, kind, want, saved, bounds>>

-----------------------------------------------------------------------------
\* FileOp_BackupDataToFiles, for the partition (BackupToBinRegion_All: files in
\* aBackupToBinRegion only), for all files (BackupAll_NvRam) or for all but those in
\* some folders (BackupData_Special).

BackupTruncates ==
  /\ pc = "backup"
  /\ all' = NoAll
  /\ Goto("copy")
  /\ UNCHANGED <<disk, flag, bin, boot, ret, req, kind, history, bounds>>

\* A file that is missing, or empty, is left out.
Copied == IF req.op = "backupAll" \/ (req.op = "backup" /\ inList) THEN file ELSE <<>>

\* A file in doubt may become what a restore ends with: that is now more.
Grow(S) ==
  /\ saved' = saved \cup S
  /\ expect' = IF Good(file) THEN expect ELSE expect \cup S

\* The file is copied as it is: one whose last write was cut off takes the place of
\* the copy it would have been restored from.  An empty file makes the backup fail
\* before the partition is touched.
BackupCopies ==
  /\ pc = "copy"
  /\ all' = [map |-> MapOf(Copied), dat |-> Copied]
  /\ IF req.op # "backup" \/ (inList /\ present /\ file = <<>>)
       THEN Goto("idle") /\ UNCHANGED <<expect, saved>>
       ELSE Goto("erase") /\ Grow({Default} \cup Taken(Copied))
  /\ UNCHANGED <<disk, flag, bin, boot, ret, req, kind, want, bounds>>

\* FileOp_CreateBinRegionBadBlockBitMap.
BackupErases ==
  /\ pc = "erase"
  /\ bin' = IF nand THEN Erased ELSE bin
  /\ Goto("map")
  /\ UNCHANGED <<disk, flag, all, boot, ret, req, kind, history, bounds>>

\* What can be restored from a map over data it was not made for: nothing, unless the
\* checksums happen to agree.
Confused(b) == IF HasMap(b) /\ Matches(b) THEN Taken(Copy(b)) ELSE {}

BackupWritesMap ==
  /\ pc = "map"
  /\ bin' = [bin EXCEPT !.map = all.map]
  /\ Grow(Confused([bin EXCEPT !.map = all.map]))
  /\ Goto("bitmap")
  /\ UNCHANGED <<disk, flag, all, boot, ret, req, kind, want, bounds>>

BackupWritesBitmap ==
  /\ pc = "bitmap"
  /\ bin' = [bin EXCEPT !.bitmap = TRUE]
  /\ Grow(Confused([bin EXCEPT !.bitmap = TRUE]))
  /\ Goto("dat")
  /\ UNCHANGED <<disk, flag, all, boot, ret, req, kind, want, bounds>>

BackupWritesData ==
  /\ pc = "dat"
  /\ bin' = [bin EXCEPT !.dat = all.dat]
  /\ saved' = Taken(all.dat) \cup (IF Good(all.dat) THEN {} ELSE {Default})
  /\ Goto("idle")
  /\ UNCHANGED <<disk, flag, all, boot, ret, req, kind, want, expect, bounds>>

-----------------------------------------------------------------------------
\* RestoreAll_NvRam: FileOp_RestoreData_All of whatever AllMap and AllFile hold, be it
\* the last backup or what a restore read from the partition.

RestoreAllTruncates ==
  /\ pc = "restoreAll"
  /\ IF Matches(all) /\ all.map.size > 0
       THEN /\ Goto("refill") /\ present' = TRUE /\ file' = <<>>
            /\ expect' = InDoubt
       ELSE Goto("idle") /\ UNCHANGED <<disk, expect>>
  /\ UNCHANGED <<flag, bin, all, boot, ret, req, kind, want, saved, bounds>>

RestoreAllRefills ==
  /\ pc = "refill"
  /\ file' = Copy(all)
  /\ expect' = Taken(Copy(all)) \cup (IF Good(Copy(all)) THEN {} ELSE saved)
  /\ Goto("idle")
  /\ UNCHANGED <<present, flag, bin, all, boot, ret, req, kind, want, saved, bounds>>

-----------------------------------------------------------------------------
\* Failures.

Fail == failed < MaxFailures /\ failed' = failed + 1

\* Power is lost and the phone boots again; nvdata may have been formatted meanwhile.
PowerLoss(formatted) ==
  /\ Fail
  /\ boot' = "start" /\ pc' = "idle"
  /\ IF formatted
       THEN present' = FALSE /\ file' = <<>> /\ flag' = "none" /\ all' = NoAll /\ expect' = saved
       ELSE UNCHANGED <<disk, flag, all, expect>>
  /\ UNCHANGED <<bin, ret, req, kind, want, saved, served>>

\* The service is killed and started again by init.
ServiceDies ==
  /\ pc # "idle"
  /\ Fail
  /\ pc' = "idle"
  /\ UNCHANGED <<storage, boot, ret, req, kind, history, served>>

Daemon == BootChecksFlag \/ BootLoads \/ BootTruncates \/ BootRefills
          \/ BootOpensFlag \/ BootSetsFlag

OpenFile == NVM_GetFileDesc \/ NVM_ProtectDataFile \/ Restore \/ RestoreLoads
            \/ RestoreTruncates \/ RestoreWrites \/ Reset \/ WriteDefault
            \/ SetCheckFlag \/ SetCheckNo

UseFile == Read \/ WriteFirst \/ WriteNext \/ SeekFails \/ WriteFails
           \/ NVM_CloseFileDesc \/ Done

Backup == BackupTruncates \/ BackupCopies \/ BackupErases \/ BackupWritesMap
          \/ BackupWritesBitmap \/ BackupWritesData

RestoreAll == RestoreAllTruncates \/ RestoreAllRefills

Next ==
  \/ Daemon
  \/ \E r \in Requests : Serve(r)
  \/ OpenFile \/ UseFile \/ Backup \/ RestoreAll
  \/ \E formatted \in BOOLEAN : PowerLoss(formatted)
  \/ ServiceDies

Spec == Init /\ [][Next]_vars

-----------------------------------------------------------------------------
\* The file and its copies are bytes, check numbers included, whatever clients send,
\* and the service and the daemon are at one of their places.
TypeOK ==
  /\ present \in BOOLEAN /\ file \in Seq(Byte)
  /\ flag \in {"none", "empty", "set"}
  /\ bin.dat \in Seq(Byte) /\ bin.bitmap \in BOOLEAN /\ bin.map.size \in Int
  /\ all.dat \in Seq(Byte) /\ all.map.size \in Int
  /\ boot \in {"start", "load", "check", "refill", "flag", "setflag", "ready"}
  /\ pc \in {"idle", "open", "protect", "restore", "load", "check", "rewrite", "reset",
             "default", "setno", "setno2", "opened", "writing", "close", "done", "backup",
             "copy", "erase", "map", "bitmap", "dat", "restoreAll", "refill"}
  /\ ret \in {"protect", "opened", "done"}
  /\ req \in Requests \cup {NoRequest}
  /\ want \in Seq(Byte) /\ expect \subseteq Seq(Byte) /\ saved \subseteq Seq(Byte)

\* Wherever a write, a restore, a reset or a backup was cut off, and however often,
\* NVM_GetFileDesc hands out a file of the right size whose check bytes are there
\* and agree with its data.
HandsOutChecked == pc = "opened" => Good(file)

\* The data handed out is what the last NVM_CloseFileDesc of a write that fits the
\* file was told to keep.  Only these may change that: a write or reset cut off
\* since (the old or the new data, what a restore ends with, or half-written data
\* whose check number happens to agree), a write that makes the file too long
\* (what a restore ends with), formatting and a boot without the restore flag (also
\* that), and RestoreAll_NvRam (the copy in AllFile).  A restore ends with the data of the
\* last backup if that was sound, otherwise, or if a backup was cut off, with the
\* default.
KeepsWhatWasSaved == pc = "opened" => DataOf(file) \in expect
=============================================================================
