------------------------------ MODULE LogFiles ------------------------------
(***************************************************************************)
(* The log files of one module, level and hour: name 0 is <hour>.log,      *)
(* name i is <hour>.log.0i.  Processes that log under one module name, and *)
(* the log server, append to name 0 and rotate the files when it is too    *)
(* long; the rotation locks the inode of the log file itself.              *)
(* mmlib/log/log.cpp (LogInternal, CheckFileSize, RenameFile),             *)
(* logsvr/logsvr_proc.cpp (Run, WriteLogToFile), mmlib/file_lock.           *)
(*                                                                         *)
(* A line is a number, an inode is a number, 0 is no inode; one step is    *)
(* one system call, or a sequence of them that only this process sees.     *)
(***************************************************************************)
EXTENDS Integers, Sequences, FiniteSets

CONSTANTS
  Apps,         \* processes that log through the API
  LogSvr,       \* the log server
  MaxFileNum,   \* iMaxFileNum
  MaxFileSize,  \* iMaxFileSize, in lines
  LogQueueLen,  \* lines that fit into the log queue
  MaxLines,     \* bound: lines logged
  MaxDeaths     \* bound: processes that die

LogProcs == Apps \cup {LogSvr}
Names == 0..MaxFileNum
Lines == 1..MaxLines
Inodes == 1..(MaxFileNum + MaxLines)        \* bound: files ever created
NoLog == "none"                             \* nobody holds the lock

ASSUME LogAssumption ==
  /\ LogSvr \notin Apps /\ NoLog \notin LogProcs
  /\ MaxFileNum \in Nat \ {0, 1} /\ MaxFileSize \in Nat \ {0}
  /\ LogQueueLen \in Nat /\ MaxLines \in Nat /\ MaxDeaths \in Nat

VARIABLES
  lgQueue,   \* m_objLogQueue
  lgFile,    \* [Names -> inode or 0]: the directory
  lgData,    \* [Inodes -> Seq(Lines)]
  lgOwner,   \* [Inodes -> process that holds the write lock, or NoLog]
  lgPc,      \* [LogProcs -> where the process is]
  lgLine,    \* [LogProcs -> the line it is writing]
  lgOpen,    \* [LogProcs -> inode of m_pfInfoLogFile, or 0]
  lgLockFd,  \* [LogProcs -> inode that objFileLock has open]
  lgNum,     \* [LogProcs -> iCurrFileNum, then i]
  lgSeen,    \* [LogProcs -> processes that have checked the length since p did]
  lgNext,    \* lines logged so far
  lgInode,   \* inodes created so far
  lgOldest,  \* inodes RenameFile removed with unlink
  lgDeaths   \* processes that died

logVars == <<lgQueue, lgFile, lgData, lgOwner, lgPc, lgLine, lgOpen, lgLockFd,
             lgNum, lgSeen, lgNext, lgInode, lgOldest, lgDeaths>>

\* CLogSvrProc::Init: the queue, and the files an earlier hour or run has left,
\* the oldest with the last name.
LogSvrInit ==
  /\ lgQueue = << >>
  /\ lgInode \in 0..(MaxFileNum - 1)
  /\ lgFile = [n \in Names |-> IF n \in 1..lgInode THEN lgInode + 1 - n ELSE 0]
  /\ lgData = [f \in Inodes |-> << >>]
  /\ lgOwner = [f \in Inodes |-> NoLog]
  /\ lgOldest = {}

\* CLog::Open, and the constructor: no file is open.
LogOpen ==
  /\ lgPc = [p \in LogProcs |-> "idle"]
  /\ lgLine = [p \in LogProcs |-> 0]
  /\ lgOpen = [p \in LogProcs |-> 0]
  /\ lgLockFd = [p \in LogProcs |-> 0]
  /\ lgNum = [p \in LogProcs |-> 0]
  /\ lgSeen = [p \in LogProcs |-> {}]

LogInit == LogSvrInit /\ LogOpen /\ lgNext = 0 /\ lgDeaths = 0

At(p, pc) == lgPc[p] = pc
Goto(p, pc) == lgPc' = [lgPc EXCEPT ![p] = pc]

\* open(name 0) with O_CREAT: the inode, and the directory afterwards
Opened == IF lgFile[0] # 0 THEN lgFile[0] ELSE lgInode + 1
OpenFile == /\ lgFile' = [lgFile EXCEPT ![0] = Opened]
            /\ lgInode' = IF lgFile[0] # 0 THEN lgInode ELSE lgInode + 1

InRenameFile(p) == lgPc[p] \in {"lockfile", "lock", "count", "unlink", "rename", "unlock"}

TooBig(f) == f = 0 \/ Len(lgData[f]) > MaxFileSize      \* CheckFileSize # 0

-----------------------------------------------------------------------------
\* LogInternal: the line goes to the queue; when InQueue fails, because the queue
\* is full, the process writes it to the log server's file itself.
LogInternal(p) ==
  /\ At(p, "idle") /\ lgNext < MaxLines
  /\ lgNext' = lgNext + 1
  /\ IF Len(lgQueue) < LogQueueLen
     THEN /\ lgQueue' = Append(lgQueue, lgNext + 1)
          /\ UNCHANGED <<lgPc, lgLine>>
     ELSE /\ lgLine' = [lgLine EXCEPT ![p] = lgNext + 1]
          /\ Goto(p, "log")
          /\ UNCHANGED lgQueue
  /\ UNCHANGED <<lgFile, lgData, lgOwner, lgOpen, lgLockFd, lgNum, lgSeen,
                 lgInode, lgOldest, lgDeaths>>

\* CLogSvrProc::Run: OutQueue, then WriteLogToFile.
LogSvrTake ==
  /\ At(LogSvr, "idle") /\ lgQueue # << >>
  /\ lgLine' = [lgLine EXCEPT ![LogSvr] = Head(lgQueue)]
  /\ lgQueue' = Tail(lgQueue)
  /\ Goto(LogSvr, "log")
  /\ UNCHANGED <<lgFile, lgData, lgOwner, lgOpen, lgLockFd, lgNum, lgSeen,
                 lgNext, lgInode, lgOldest, lgDeaths>>

\* LOG_SIZE_CHECK_TIMEVAL has passed since p's last check.  A rotation, which is
\* a few system calls, takes less than that: p has not checked twice while
\* another process was inside RenameFile.
CheckDue(p) == \A q \in LogProcs : InRenameFile(q) => p \notin lgSeen[q]

\* The first line of the hour opens the file; later ones use it as it is, and
\* once per interval its length is looked at.
ChooseFile(p) ==
  /\ At(p, "log")
  /\ \/ /\ lgOpen[p] = 0
        /\ OpenFile /\ lgOpen' = [lgOpen EXCEPT ![p] = Opened]
        /\ Goto(p, "write") /\ UNCHANGED lgSeen
     \/ /\ lgOpen[p] # 0
        /\ Goto(p, "write") /\ UNCHANGED <<lgFile, lgInode, lgOpen, lgSeen>>
     \/ /\ lgOpen[p] # 0 /\ CheckDue(p)
        /\ lgSeen' = [q \in LogProcs |-> IF q = p THEN {} ELSE lgSeen[q] \cup {p}]
        /\ Goto(p, IF TooBig(lgOpen[p]) THEN "reopen" ELSE "write")
        /\ UNCHANGED <<lgFile, lgInode, lgOpen>>
  /\ UNCHANGED <<lgQueue, lgData, lgOwner, lgLine, lgLockFd, lgNum, lgNext,
                 lgOldest, lgDeaths>>

\* Another process may have rotated already: the file is opened anew, and
\* looked at again.
Reopen(p) ==
  /\ At(p, "reopen")
  /\ OpenFile
  /\ IF TooBig(Opened)
     THEN lgOpen' = [lgOpen EXCEPT ![p] = 0] /\ Goto(p, "lockfile")
     ELSE lgOpen' = [lgOpen EXCEPT ![p] = Opened] /\ Goto(p, "write")
  /\ UNCHANGED <<lgQueue, lgData, lgOwner, lgLine, lgLockFd, lgNum, lgSeen,
                 lgNext, lgOldest, lgDeaths>>

-----------------------------------------------------------------------------
(* RenameFile.                                                             *)

\* CFileLock::Init
LockOpen(p) ==
  /\ At(p, "lockfile")
  /\ OpenFile
  /\ lgLockFd' = [lgLockFd EXCEPT ![p] = Opened]
  /\ Goto(p, "lock")
  /\ UNCHANGED <<lgQueue, lgData, lgOwner, lgLine, lgOpen, lgNum, lgSeen,
                 lgNext, lgOldest, lgDeaths>>

\* CFileLock::Lock without waiting; a process that does not get it leaves the
\* rotation to the other one.
LockWrite(p) ==
  /\ At(p, "lock")
  /\ IF lgOwner[lgLockFd[p]] = NoLog
     THEN /\ lgOwner' = [lgOwner EXCEPT ![lgLockFd[p]] = p]
          /\ Goto(p, "count") /\ UNCHANGED lgLockFd
     ELSE /\ lgLockFd' = [lgLockFd EXCEPT ![p] = 0]
          /\ Goto(p, "open") /\ UNCHANGED lgOwner
  /\ UNCHANGED <<lgQueue, lgFile, lgData, lgLine, lgOpen, lgNum, lgSeen,
                 lgNext, lgInode, lgOldest, lgDeaths>>

\* The rotated files 1 .. n that exist without a gap.
CountFiles(p) ==
  /\ At(p, "count")
  /\ lgNum' = [lgNum EXCEPT ![p] =
        CHOOSE n \in 0..(MaxFileNum - 1) :
          /\ \A i \in 1..n : lgFile[i] # 0
          /\ n < MaxFileNum - 1 => lgFile[n + 1] = 0]
  /\ Goto(p, "unlink")
  /\ UNCHANGED <<lgQueue, lgFile, lgData, lgOwner, lgLine, lgOpen, lgLockFd,
                 lgSeen, lgNext, lgInode, lgOldest, lgDeaths>>

\* When all names are taken the last file is removed.
UnlinkLast(p) ==
  /\ At(p, "unlink")
  /\ IF lgNum[p] = MaxFileNum - 1
     THEN /\ lgOldest' = lgOldest \cup {lgFile[lgNum[p]]}
          /\ lgFile' = [lgFile EXCEPT ![lgNum[p]] = 0]
          /\ lgNum' = [lgNum EXCEPT ![p] = @ - 1]
     ELSE UNCHANGED <<lgFile, lgNum, lgOldest>>
  /\ Goto(p, "rename")
  /\ UNCHANGED <<lgQueue, lgData, lgOwner, lgLine, lgOpen, lgLockFd, lgSeen,
                 lgNext, lgInode, lgDeaths>>

\* rename(i, j): fails when i does not exist, else replaces j
Renamed(i, j) == IF lgFile[i] = 0 THEN lgFile
                 ELSE [lgFile EXCEPT ![i] = 0, ![j] = lgFile[i]]

\* As the next definition, but from the newest file to the oldest.
RenameAscending(p) ==
  /\ At(p, "rename")
  /\ LET i == IF lgNum[p] > 0 THEN 1 ELSE 0
     IN lgFile' = Renamed(i, i + 1)
  /\ IF lgNum[p] > 0 THEN Goto(p, "rename") /\ lgNum' = [lgNum EXCEPT ![p] = @ - 1]
     ELSE Goto(p, "unlock") /\ UNCHANGED lgNum
  /\ UNCHANGED <<lgQueue, lgData, lgOwner, lgLine, lgOpen, lgLockFd, lgSeen,
                 lgNext, lgInode, lgOldest, lgDeaths>>

\* One rename: i to i + 1 from the oldest file down, at last 0 to 1.
RenameOne(p) ==
  /\ At(p, "rename")
  /\ lgFile' = Renamed(lgNum[p], lgNum[p] + 1)
  /\ IF lgNum[p] > 0 THEN Goto(p, "rename") /\ lgNum' = [lgNum EXCEPT ![p] = @ - 1]
     ELSE Goto(p, "unlock") /\ UNCHANGED lgNum
  /\ UNCHANGED <<lgQueue, lgData, lgOwner, lgLine, lgOpen, lgLockFd, lgSeen,
                 lgNext, lgInode, lgOldest, lgDeaths>>

UnLock(p) ==
  /\ At(p, "unlock")
  /\ lgOwner' = [lgOwner EXCEPT ![lgLockFd[p]] = NoLog]
  /\ lgLockFd' = [lgLockFd EXCEPT ![p] = 0]
  /\ Goto(p, "open")
  /\ UNCHANGED <<lgQueue, lgFile, lgData, lgLine, lgOpen, lgNum, lgSeen,
                 lgNext, lgInode, lgOldest, lgDeaths>>

-----------------------------------------------------------------------------
\* After RenameFile, whatever it returned.
OpenAgain(p) ==
  /\ At(p, "open")
  /\ OpenFile
  /\ lgOpen' = [lgOpen EXCEPT ![p] = Opened]
  /\ Goto(p, "write")
  /\ UNCHANGED <<lgQueue, lgData, lgOwner, lgLine, lgLockFd, lgNum, lgSeen,
                 lgNext, lgOldest, lgDeaths>>

\* fprintf to the file the process has open, whatever its name is by now.
WriteLine(p) ==
  /\ At(p, "write")
  /\ lgData' = [lgData EXCEPT ![lgOpen[p]] = Append(@, lgLine[p])]
  /\ lgLine' = [lgLine EXCEPT ![p] = 0]
  /\ Goto(p, "idle")
  /\ UNCHANGED <<lgQueue, lgFile, lgOwner, lgOpen, lgLockFd, lgNum, lgSeen,
                 lgNext, lgInode, lgOldest, lgDeaths>>

\* A process dies and is started again; the kernel releases its lock.
LogDies(p) ==
  /\ lgDeaths < MaxDeaths /\ ~At(p, "idle")
  /\ lgDeaths' = lgDeaths + 1
  /\ lgOwner' = [f \in Inodes |-> IF lgOwner[f] = p THEN NoLog ELSE lgOwner[f]]
  /\ lgPc' = [lgPc EXCEPT ![p] = "idle"]
  /\ lgLine' = [lgLine EXCEPT ![p] = 0]
  /\ lgOpen' = [lgOpen EXCEPT ![p] = 0]
  /\ lgLockFd' = [lgLockFd EXCEPT ![p] = 0]
  /\ lgSeen' = [q \in LogProcs |-> lgSeen[q] \ {p}]
  /\ UNCHANGED <<lgQueue, lgFile, lgData, lgNum, lgNext, lgInode, lgOldest>>

\* WriteLogToFile chooses a file, the same way for every level, and writes.
FileStep(p) == ChooseFile(p) \/ Reopen(p) \/ OpenAgain(p) \/ WriteLine(p)

LogStep(p) ==
  \/ FileStep(p) \/ LockOpen(p) \/ LockWrite(p) \/ CountFiles(p)
  \/ UnlinkLast(p) \/ RenameOne(p) \/ UnLock(p)

LogNext ==
  \/ \E p \in LogProcs : LogStep(p) \/ LogDies(p)
  \/ \E p \in Apps : LogInternal(p)
  \/ LogSvrTake

LogSpec == LogInit /\ [][LogNext]_logVars

-----------------------------------------------------------------------------
\* The only file that a rotation ever takes away is the oldest one, removed by
\* unlink when all names are taken: no rename overwrites a file, whatever
\* process rotates at the same time or dies in between.  So a line that was
\* written is in one of the files, or was older than all that are left.
OnlyOldestLost ==
  /\ \A f \in 1..lgInode : (\E n \in Names : lgFile[n] = f) \/ f \in lgOldest
  /\ \A f \in lgOldest, n \in Names : lgFile[n] # 0 => f < lgFile[n]
=============================================================================
