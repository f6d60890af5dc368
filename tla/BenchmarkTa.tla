---------------------------- MODULE BenchmarkTa ----------------------------
(***************************************************************************)
(* The storage benchmark TA (src/ta/storage_benchmark/benchmark.c).  Each  *)
(* session has an instance of its own, and all instances work on the one   *)
(* file "BenchmarkTestFile": a command creates and fills it, closes it,    *)
(* opens it again for the test, verifies it if asked to and removes it.    *)
(* A byte of the file is the position in the chunk buffer it was filled    *)
(* from.  Its SCRAMBLE, which the code writes, repeats after 256 bytes.    *)
(***************************************************************************)
EXTENDS TaInstance, Integers, Sequences, SequencesExt, FiniteSetsExt

CONSTANTS
    File,               \* the object of filename
    Requests,           \* instance -> the parameters hosts call it with:
                        \* [cmd, types, data_size, chunk_size, do_verify]
    DefaultSize,        \* DEFAULT_DATA_SIZE and DEFAULT_CHUNK_SIZE
    SizeWidth           \* bits of a size_t

\* Values of a size_t, and the contents of the file and its handles.
Sizes == 0 .. 2^SizeWidth - 1
AccessFlags == {"READ", "WRITE", "META", "OVERWRITE"}
FileContents == [attr : {NULL}, data : Seq(Nat)]
FileHandles == [obj : {File}, flags : {AccessFlags}, key : FileContents]

\* Sizes fit in a size_t, and NULL is no other value.
ASSUME BenchmarkAssumption ==
    /\ File \in Objects \ {NULL}
    /\ 2^SizeWidth \in Nat
    /\ DefaultSize \in Sizes \ {0}
    /\ \A i \in Instances : \A r \in Requests[i] :
           r.data_size \in Sizes /\ r.chunk_size \in Sizes
    /\ NULL \notin FileContents \cup FileHandles \cup Seq(Nat)

VARIABLES
    object,             \* instance -> the local variable object
    chunk_buf,          \* instance -> the chunk buffer, NULL when there is none
    remain,             \* instance -> remain_bytes, tmp_data_size
    pos,                \* instance -> the data position of the handle
    res,                \* instance -> the result of the command
    opened,             \* history: instance -> the file as it was opened for the test
    left                \* history: whether something may have left the file behind

localVars == <<object, chunk_buf, remain, pos, res, opened, left>>
vars == <<teeVars, callVars, localVars>>

Commands == {"TEST_READ", "TEST_WRITE", "TEST_REWRITE"}
EmptyFile == [attr |-> NULL, data |-> <<>>]

OrDefault(n) == IF n = 0 THEN DefaultSize ELSE n
data_size(i) == OrDefault(arg[i].data_size)
chunk_size(i) == OrDefault(arg[i].chunk_size)

Init ==
    /\ InstanceInit
    /\ object = [i \in Instances |-> NULL]
    /\ chunk_buf = [i \in Instances |-> NULL]
    /\ remain = [i \in Instances |-> 0]
    /\ pos = [i \in Instances |-> 0]
    /\ res = [i \in Instances |-> "SUCCESS"]
    /\ opened = [i \in Instances |-> NULL]
    /\ left = FALSE

-----------------------------------------------------------------------------
(***************************************************************************)
(* The chunk buffer and the data stream.                                   *)
(***************************************************************************)
fill_buffer(n) == [k \in 1..n |-> k]
ZeroBuffer(n) == [k \in 1..n |-> 0]
verify_buffer(buf) == buf = fill_buffer(Len(buf))

\* The first n entries of buf written over s from position p on.
Overlay(s, p, buf, n) ==
    [k \in 1..Max({Len(s), p + n}) |-> IF k \in p + 1 .. p + n THEN buf[k - p] ELSE s[k]]

\* Bytes of the chunk that is next.
ChunkLength(i) == Min({remain[i], chunk_size(i)})

\* The bytes a read of n bytes returns.
Bytes(i, n) == SubSeq(store[File].data, pos[i] + 1, Min({pos[i] + n, Len(store[File].data)}))

\* What a call says is what the function returns; it goes on only after a success.
Keep(i) == res' = [res EXCEPT ![i] = ret'[i].res]
Advance(i, n) == pos' = [pos EXCEPT ![i] = @ + n]
Consume(i, n) == remain' = [remain EXCEPT ![i] = @ - n]

ReadFails(i) == Fails(i, "STORAGE_NOT_AVAILABLE")

\* TEE_ReadObjectData of n bytes into the chunk buffer.
ReadInto(i, n) ==
    LET got == Bytes(i, n) IN
    /\ TEE_ReadObjectData(i, object[i])
    /\ Advance(i, Len(got))
    /\ chunk_buf' = [chunk_buf EXCEPT ![i] = Overlay(@, 0, got, Len(got))]

\* TEE_WriteObjectData of n bytes from the chunk buffer.
WriteFrom(i, n) ==
    /\ ChangeData(i, object[i], Overlay(store[File].data, pos[i], chunk_buf[i], n))
    /\ IF ret'[i].res = "SUCCESS" THEN Advance(i, n) /\ Consume(i, n) ELSE UNCHANGED <<pos, remain>>

-----------------------------------------------------------------------------
(***************************************************************************)
(* Calling the TA.                                                         *)
(***************************************************************************)
Invoke(i) ==
    /\ pc[i] = "idle"
    /\ \E params \in Requests[i] :
           arg' = [arg EXCEPT ![i] = params] /\ Goto(i, "start")
    /\ UNCHANGED <<teeVars, localVars>>

ta_storage_benchmark_cmd_handler(i) ==
    /\ pc[i] = "start"
    /\ arg[i].cmd \notin Commands \/ ~arg[i].types
    /\ res' = [res EXCEPT ![i] = "BAD_PARAMETERS"]
    /\ Goto(i, "return")
    /\ UNCHANGED <<teeVars, arg, object, chunk_buf, remain, pos, opened, left>>

AllocateChunk(i) ==
    /\ pc[i] = "start"
    /\ arg[i].cmd \in Commands /\ arg[i].types
    /\ LocalCall(i, "OUT_OF_MEMORY", "create", "return")
    /\ Keep(i)
    /\ IF ret'[i].res = "SUCCESS"
       THEN chunk_buf' = [chunk_buf EXCEPT ![i] = fill_buffer(chunk_size(i))]
       ELSE UNCHANGED chunk_buf
    /\ UNCHANGED <<store, handles, enums, arg, object, remain, pos, opened, left>>

-----------------------------------------------------------------------------
(***************************************************************************)
(* prepare_test_file.  Its handle is a local variable of its own: the      *)
(* caller's object is NULL until the file is opened again.                 *)
(***************************************************************************)
\* Mutant: a file that exists is not replaced.
CreateFlagsKeeping == AccessFlags \ {"OVERWRITE"}
CreateFlags == AccessFlags

\* A call that opens the file puts the data position and the loop at the start.
Opens(i) ==
    /\ object' = [object EXCEPT ![i] = ret'[i].val]
    /\ IF ret'[i].res = "SUCCESS"
       THEN pos' = [pos EXCEPT ![i] = 0] /\ remain' = [remain EXCEPT ![i] = data_size(i)]
       ELSE UNCHANGED <<pos, remain>>

CreateFile(i) ==
    /\ pc[i] = "create"
    /\ TEE_CreatePersistentObject(i, File, CreateFlags, EmptyFile)
    /\ Opens(i)
    /\ Keep(i)
    /\ After(i, "fill", "free")
    /\ left' = IF ret'[i].res = "SUCCESS" THEN FALSE ELSE left
    /\ UNCHANGED <<arg, chunk_buf, opened>>

\* Mutant: a failed write leaves without closing the file.
FillExitOpen == "free"

\* Where a failed write goes: exit_close_object.
FillExit == "close"

FillFile(i) ==
    /\ pc[i] = "fill"
    /\ remain[i] > 0
    /\ WriteFrom(i, ChunkLength(i))
    /\ Keep(i)
    /\ After(i, "fill", FillExit)
    /\ left' = IF ret'[i].res = "SUCCESS" THEN left ELSE TRUE
    /\ UNCHANGED <<arg, object, chunk_buf, opened>>

CloseFile(i) ==
    /\ pc[i] = "close" \/ (pc[i] = "fill" /\ remain[i] = 0)
    /\ TEE_CloseObject(i, object[i])
    /\ object' = [object EXCEPT ![i] = NULL]
    /\ After(i, IF res[i] = "SUCCESS" THEN "open" ELSE "free", "free")
    /\ UNCHANGED <<arg, chunk_buf, remain, pos, res, opened, left>>

OpenFlags == AccessFlags

OpenFile(i) ==
    /\ pc[i] = "open"
    /\ TEE_OpenPersistentObject(i, File, OpenFlags)
    /\ Opens(i)
    /\ Keep(i)
    /\ After(i, "test", "remove")
    /\ IF ret'[i].res = "SUCCESS"
       THEN opened' = [opened EXCEPT ![i] = store[File].data] /\ UNCHANGED left
       ELSE left' = TRUE /\ UNCHANGED opened
    /\ UNCHANGED <<arg, chunk_buf>>

-----------------------------------------------------------------------------
(***************************************************************************)
(* The tests: one step per call of the storage API.                        *)
(***************************************************************************)
InTest(i, cmd, label) == pc[i] = label /\ arg[i].cmd = cmd /\ remain[i] > 0

test_write(i) ==
    /\ InTest(i, "TEST_WRITE", "test")
    /\ WriteFrom(i, ChunkLength(i))
    /\ Keep(i)
    /\ After(i, "test", "remove")
    /\ UNCHANGED <<arg, object, chunk_buf, opened, left>>

\* How many bytes were read is not looked at.
test_read(i) ==
    /\ InTest(i, "TEST_READ", "test")
    /\ \/ ReadFails(i) /\ UNCHANGED <<chunk_buf, remain, pos>>
       \/ ReadInto(i, ChunkLength(i)) /\ Consume(i, ChunkLength(i))
    /\ Keep(i)
    /\ After(i, "test", "remove")
    /\ UNCHANGED <<arg, object, opened, left>>

RewriteRead(i) ==
    LET short == Len(Bytes(i, ChunkLength(i))) < ChunkLength(i) IN
    /\ InTest(i, "TEST_REWRITE", "test")
    /\ \/ ReadFails(i) /\ UNCHANGED <<chunk_buf, pos>> /\ Keep(i) /\ Goto(i, "remove")
       \/ /\ ReadInto(i, ChunkLength(i))
          /\ IF short
             THEN res' = [res EXCEPT ![i] = "CORRUPT_OBJECT"] /\ Goto(i, "remove")
             ELSE Keep(i) /\ After(i, "seek_back", "remove")
    /\ UNCHANGED <<arg, object, remain, opened, left>>

\* A seek moves the data position to p, unless it fails.
SeekTo(i, p, next) ==
    /\ TEE_SeekObjectData(i, object[i])
    /\ pos' = [pos EXCEPT ![i] = IF ret'[i].res = "SUCCESS" THEN p ELSE @]
    /\ Keep(i)
    /\ After(i, next, "remove")

\* Mutant: a whole chunk, also when the last one is short.
SeekBackWhole(i) == pos[i] - chunk_size(i)

\* negative_chunk_size from the current position.
SeekBack(i) == pos[i] - ChunkLength(i)

RewriteSeek(i) ==
    /\ InTest(i, "TEST_REWRITE", "seek_back")
    /\ SeekTo(i, SeekBack(i), "write_back")
    /\ UNCHANGED <<arg, object, chunk_buf, remain, opened, left>>

RewriteWrite(i) ==
    /\ InTest(i, "TEST_REWRITE", "write_back")
    /\ WriteFrom(i, ChunkLength(i))
    /\ Keep(i)
    /\ After(i, "test", "remove")
    /\ UNCHANGED <<arg, object, chunk_buf, opened, left>>

test_rewrite(i) == RewriteRead(i) \/ RewriteSeek(i) \/ RewriteWrite(i)

TestDone(i) ==
    /\ pc[i] = "test" /\ remain[i] = 0
    /\ Goto(i, IF arg[i].do_verify THEN "rewind" ELSE "remove")
    /\ UNCHANGED <<teeVars, arg, localVars>>

-----------------------------------------------------------------------------
(***************************************************************************)
(* verify_file_data reads whole chunks; the bytes that remain are a size_t *)
(* and are not compared with the length of a chunk.                        *)
(***************************************************************************)
\* Mutant: verification goes on where the test ended.
RewindNot(i) == pos[i]
RewindPosition(i) == 0

Rewind(i) ==
    /\ pc[i] = "rewind"
    /\ SeekTo(i, RewindPosition(i), "verify")
    /\ remain' = [remain EXCEPT ![i] = data_size(i)]
    /\ chunk_buf' = [chunk_buf EXCEPT ![i] = ZeroBuffer(chunk_size(i))]
    /\ UNCHANGED <<arg, object, opened, left>>

\* Mutant: the number of bytes read is not looked at.
ChunkReadAny(i) == TRUE
ChunkRead(i) == Len(Bytes(i, chunk_size(i))) = chunk_size(i)

BytesLeft(i) == (remain[i] - chunk_size(i)) % 2^SizeWidth

VerifyChunk(i) ==
    /\ pc[i] = "verify" /\ remain[i] > 0
    /\ \/ ReadFails(i) /\ Keep(i) /\ Goto(i, "remove") /\ UNCHANGED <<chunk_buf, pos, remain>>
       \/ /\ ReadInto(i, chunk_size(i))
          /\ IF ChunkRead(i) /\ verify_buffer(chunk_buf'[i])
             THEN /\ Keep(i)
                  /\ After(i, "verify", "remove")
                  /\ remain' = [remain EXCEPT ![i] = BytesLeft(i)]
             ELSE /\ res' = [res EXCEPT ![i] = "CORRUPT_OBJECT"]
                  /\ Goto(i, "remove")
                  /\ UNCHANGED remain
    /\ UNCHANGED <<arg, object, opened, left>>

VerifyDone(i) ==
    /\ pc[i] = "verify" /\ remain[i] = 0
    /\ Goto(i, "remove")
    /\ UNCHANGED <<teeVars, arg, localVars>>

verify_file_data(i) == Rewind(i) \/ VerifyChunk(i) \/ VerifyDone(i)

-----------------------------------------------------------------------------
(***************************************************************************)
(* The way out.                                                            *)
(***************************************************************************)

\* TEE_CloseAndDeletePersistentObject1 takes TEE_HANDLE_NULL; its result is ignored.
RemoveCall(i) ==
    \/ object[i] = NULL /\ Fails(i, "SUCCESS")
    \/ object[i] # NULL /\ TEE_CloseAndDeletePersistentObject1(i, object[i])

RemoveFile(i) ==
    /\ pc[i] = "remove"
    /\ RemoveCall(i)
    /\ left' = IF object[i] = NULL THEN left ELSE ret'[i].res # "SUCCESS"
    /\ object' = [object EXCEPT ![i] = NULL]
    /\ After(i, "free", "free")
    /\ UNCHANGED <<arg, chunk_buf, remain, pos, res, opened>>

FreeChunk(i) ==
    /\ pc[i] = "free"
    /\ chunk_buf' = [chunk_buf EXCEPT ![i] = NULL]
    /\ Goto(i, "return")
    /\ UNCHANGED <<teeVars, arg, object, remain, pos, res, opened, left>>

Return(i) ==
    /\ pc[i] = "return"
    /\ Goto(i, "idle")
    /\ arg' = [arg EXCEPT ![i] = NoArg]
    /\ remain' = [remain EXCEPT ![i] = 0]
    /\ pos' = [pos EXCEPT ![i] = 0]
    /\ res' = [res EXCEPT ![i] = "SUCCESS"]
    /\ opened' = [opened EXCEPT ![i] = NULL]
    /\ ret' = [ret EXCEPT ![i] = Success]
    /\ UNCHANGED <<store, handles, enums, object, chunk_buf, left>>

TaStep(i) ==
    \/ ta_storage_benchmark_cmd_handler(i) \/ AllocateChunk(i)
    \/ CreateFile(i) \/ FillFile(i) \/ CloseFile(i) \/ OpenFile(i)
    \/ test_write(i) \/ test_read(i) \/ test_rewrite(i) \/ TestDone(i)
    \/ verify_file_data(i)
    \/ RemoveFile(i) \/ FreeChunk(i) \/ Return(i)

\* The device is switched off and on again: the persistent storage is as it was.
Restart ==
    /\ \E i \in Instances : pc[i] # "idle"
    /\ handles' = [i \in Instances |-> [h \in HandleIds |-> NULL]]
    /\ ret' = [i \in Instances |-> Success]
    /\ pc' = [i \in Instances |-> "idle"]
    /\ arg' = [i \in Instances |-> NoArg]
    /\ object' = [i \in Instances |-> NULL]
    /\ chunk_buf' = [i \in Instances |-> NULL]
    /\ remain' = [i \in Instances |-> 0]
    /\ pos' = [i \in Instances |-> 0]
    /\ res' = [i \in Instances |-> "SUCCESS"]
    /\ opened' = [i \in Instances |-> NULL]
    /\ left' = TRUE
    /\ UNCHANGED <<store, enums>>

Next == Restart \/ \E i \in Instances : Invoke(i) \/ TaStep(i)

\* A command that was called runs to its end.
Fairness == \A i \in Instances : WF_vars(TaStep(i))

Spec == Init /\ [][Next]_vars /\ Fairness

-----------------------------------------------------------------------------
(***************************************************************************)
(* Properties.                                                             *)
(***************************************************************************)
\* However a command ends (no memory, storage full, the other session's file in the
\* way, corrupt data), it returns with its file handle closed and its chunk buffer
\* freed, and between its calls the handle it has in hand is the open one, inside the
\* file.  A file outlives the commands only when filling it, opening it again or
\* removing it failed, or the device was restarted; a test that fails removes it
\* (the exits of prepare_test_file and of the chunk access test).
NothingLeftBehind ==
    /\ \A i \in Instances :
        /\ OpenHandles(i) = {object[i]} \ {NULL}
        /\ object[i] # NULL => pos[i] \in 0 .. Len(store[File].data)
        /\ pc[i] \in {"idle", "return"} => object[i] = NULL /\ chunk_buf[i] = NULL
    /\ (File \in Present /\ \A i \in Instances : pc[i] = "idle") => left

\* The rewrite test writes back what was there: at every point of it, also when it
\* breaks off and when the last chunk is short, the file is as it was opened.
RewriteKeepsFile ==
    \A i \in Instances :
        (arg[i].cmd = "TEST_REWRITE" /\ opened[i] # NULL /\ object[i] # NULL) =>
            store[File].data = opened[i]

\* Results tell the truth, although another session may have put a file of other sizes
\* in place of the one a command prepared.  A verified success means that the file holds
\* data_size bytes in whole chunks of the pattern: a size that is no multiple of the
\* chunk is never verified, although the number of bytes left wraps below zero.  A write
\* test of whole chunks is never reported as corrupt.  A test that succeeded has gone
\* through data_size bytes; only the read test, which ignores read_bytes, may have seen
\* fewer (benchmark.c:165-206, benchmark.c:275-317).
ResultsTrue ==
    \A i \in Instances :
        /\ pc[i] = "remove" /\ res[i] = "SUCCESS" /\ arg[i].do_verify =>
            /\ data_size(i) % chunk_size(i) = 0
            /\ Len(store[File].data) >= data_size(i)
            /\ \A k \in 1 .. data_size(i) : store[File].data[k] = ((k - 1) % chunk_size(i)) + 1
        /\ arg[i].cmd = "TEST_WRITE" /\ data_size(i) % chunk_size(i) = 0 =>
            res[i] # "CORRUPT_OBJECT"
        /\ pc[i] = "test" /\ remain[i] = 0 =>
            \/ pos[i] = data_size(i)
            \/ /\ arg[i].cmd = "TEST_READ"
               /\ Len(opened[i]) < data_size(i)
               /\ pos[i] = Len(opened[i])

\* A file that an earlier command or a restart left behind never keeps a command from
\* creating its own: creation conflicts only with a session that has the file open.
LeftoverOverwritten ==
    [][\A i \in Instances :
          (pc[i] = "create" /\ pc'[i] = "free" /\ ret'[i].res = "ACCESS_CONFLICT") =>
              \E j \in Instances \ {i} : OpenHandles(j) # {}]_vars

\* Every command returns; in particular the loop of verify_file_data ends although the
\* bytes it counts down may wrap.
CommandReturns == \A i \in Instances : pc[i] # "idle" ~> pc[i] = "idle"
=============================================================================
