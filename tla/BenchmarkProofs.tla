--------------------------- MODULE BenchmarkProofs ---------------------------
(***************************************************************************)
(* Proofs about the storage benchmark TA.  The file is opened with meta    *)
(* access only, which is exclusive: while a session has a handle, no other *)
(* one has, and the file changes under its own calls only.  On this rest   *)
(* the three layers of the inductive invariant: Ownership (who holds the   *)
(* file and who may have left it behind), Progress (how far a command has  *)
(* come in the file) and Pattern (what its bytes are).                     *)
(***************************************************************************)
EXTENDS BenchmarkTa, TLAPS

Labels == {"idle", "start", "create", "fill", "close", "open", "test", "seek_back",
           "write_back", "rewind", "verify", "remove", "free", "return"}

\* Where a command has the file open, and where it may use the opened file.
Holding == {"fill", "close", "test", "seek_back", "write_back", "rewind", "verify"}
Testing == {"test", "seek_back", "write_back", "rewind", "verify"}
Outside == {"idle", "start", "return"}

Args == {NoArg} \cup UNION {Requests[i] : i \in Instances}
Data == store[File].data

\* The variables are functions of the right kind.
TypeInv ==
    /\ store \in [Objects -> FileContents \cup {NULL}]
    /\ handles \in [Instances -> [HandleIds -> FileHandles \cup {NULL}]]
    /\ DOMAIN ret = Instances
    /\ pc \in [Instances -> Labels]
    /\ arg \in [Instances -> Args]
    /\ object \in [Instances -> HandleIds \cup {NULL}]
    /\ chunk_buf \in [Instances -> Seq(Nat) \cup {NULL}]
    /\ remain \in [Instances -> Nat]
    /\ pos \in [Instances -> Nat]
    /\ DOMAIN res = Instances
    /\ opened \in [Instances -> Seq(Nat) \cup {NULL}]
    /\ left \in BOOLEAN

\* The parameters of a command and its chunk buffer.
CallInv(i) ==
    /\ pc[i] = "idle" => arg[i] = NoArg
    /\ pc[i] # "idle" => arg[i] \in Requests[i]
    /\ pc[i] \notin Outside =>
        /\ arg[i].cmd \in Commands
        /\ chunk_buf[i] \in Seq(Nat) /\ Len(chunk_buf[i]) = chunk_size(i)
    /\ pc[i] \in Outside => chunk_buf[i] = NULL

\* The handle of a command: where it is open, and that the file is then there.
HandleInv(i) ==
    /\ OpenHandles(i) = {object[i]} \ {NULL}
    /\ pc[i] \in Holding => object[i] # NULL
    /\ pc[i] \notin Holding \cup {"remove"} => object[i] = NULL
    /\ object[i] # NULL => store[File] # NULL /\ pos[i] <= Len(Data)
    /\ pc[i] = "seek_back" => ChunkLength(i) <= pos[i]

\* What the result so far and the opened file say of the place a command is at.
ResultInv(i) ==
    /\ pc[i] \in {"fill", "open"} \cup Testing => res[i] = "SUCCESS"
    /\ pc[i] = "close" => res[i] # "SUCCESS" /\ left
    /\ pc[i] \in Testing => opened[i] # NULL
    /\ opened[i] # NULL => pc[i] \in Testing \cup {"remove", "free", "return"}

Exclusive == \A i, j \in Instances : i # j /\ object[i] # NULL => object[j] = NULL

\* A file that nothing may have left behind is held, or about to be opened again.
LeftInv == File \in Present /\ ~left => \E i \in Instances : object[i] # NULL \/ pc[i] = "open"

Ownership ==
    /\ TypeInv
    /\ \A i \in Instances : CallInv(i) /\ HandleInv(i) /\ ResultInv(i)
    /\ Exclusive
    /\ LeftInv

\* The chunk that was read is the part of the file it is written back to.
Holds(i, p) == \A k \in 1 .. ChunkLength(i) : chunk_buf[i][k] = Data[p + k]

\* How far a command has come in the file.
ProgressInv(i) ==
    /\ pc[i] \in {"fill", "write_back"} => pos[i] + remain[i] = data_size(i)
    /\ pc[i] = "test" /\ arg[i].cmd # "TEST_READ" => pos[i] + remain[i] = data_size(i)
    /\ pc[i] = "test" /\ arg[i].cmd = "TEST_READ" =>
        /\ remain[i] <= data_size(i)
        /\ pos[i] = Min({data_size(i) - remain[i], Len(opened[i])})
    /\ pc[i] = "seek_back" =>
        /\ pos[i] + remain[i] = data_size(i) + ChunkLength(i)
        /\ Holds(i, pos[i] - ChunkLength(i))
    /\ pc[i] = "write_back" => pos[i] + ChunkLength(i) <= Len(Data) /\ Holds(i, pos[i])
    /\ pc[i] \in {"seek_back", "write_back"} => arg[i].cmd = "TEST_REWRITE"
    /\ opened[i] # NULL /\ object[i] # NULL /\ arg[i].cmd # "TEST_WRITE" => Data = opened[i]

\* A file has no more bytes than a size_t counts.
LengthInv == store[File] # NULL => Len(Data) < 2^SizeWidth

Progress == LengthInv /\ \A i \in Instances : ProgressInv(i)

\* The first p bytes of the file are whole chunks of the pattern.
Pattern(i, p) == p <= Len(Data) /\ \A k \in 1 .. p : Data[k] = ((k - 1) % chunk_size(i)) + 1
Whole(i, p) == \E m \in Nat : p = m * chunk_size(i)

\* The bytes that verify_file_data has gone through, and the count that may have wrapped.
VerifyInv(i) ==
    /\ pc[i] = "verify" =>
        /\ Whole(i, pos[i])
        /\ Pattern(i, pos[i])
        /\ \/ pos[i] <= data_size(i) /\ remain[i] = data_size(i) - pos[i]
           \/ pos[i] > data_size(i) /\ remain[i] = 2^SizeWidth + data_size(i) - pos[i]
    /\ pc[i] = "remove" /\ res[i] = "SUCCESS" /\ arg[i].do_verify =>
        /\ Whole(i, data_size(i))
        /\ Pattern(i, data_size(i))
    /\ pc[i] = "remove" /\ res[i] = "SUCCESS" => object[i] # NULL

\* A write test of whole chunks.
WholeWrite(i) == arg[i].cmd = "TEST_WRITE" /\ data_size(i) % chunk_size(i) = 0

WriteInv(i) ==
    /\ pc[i] = "idle" => res[i] = "SUCCESS"
    /\ WholeWrite(i) =>
        /\ res[i] # "CORRUPT_OBJECT"
        /\ pc[i] \in {"create", "fill", "open", "test"} => chunk_buf[i] = fill_buffer(chunk_size(i))
        /\ pc[i] = "test" => Whole(i, pos[i]) /\ Whole(i, remain[i]) /\ Pattern(i, pos[i])
        /\ pc[i] \in {"rewind", "verify"} => Pattern(i, data_size(i))
        /\ pc[i] = "verify" => Whole(i, remain[i]) /\ pos[i] + remain[i] = data_size(i)

PatternLayer == \A i \in Instances : VerifyInv(i) /\ WriteInv(i)

-----------------------------------------------------------------------------
(***************************************************************************)
(* Lemmas about the operators.                                             *)
(***************************************************************************)
\* The greater and the smaller of two numbers, as Overlay, Bytes and ChunkLength use
\* them.
LEMMA MaxOfTwo ==
    ASSUME NEW a \in Int, NEW b \in Int
    PROVE  Max({a, b}) = IF a >= b THEN a ELSE b
  BY DEF Max

\* The smaller of two numbers, which ReadData cuts a read to.
LEMMA MinOfTwo ==
    ASSUME NEW a \in Int, NEW b \in Int
    PROVE  Min({a, b}) = IF a <= b THEN a ELSE b
  BY DEF Min

\* Bytes written at a position inside a file (TEE_WriteObjectData): the file grows only
\* when they go beyond its end, and the bytes elsewhere stay.
LEMMA OverlayFacts ==
    ASSUME NEW s \in Seq(Nat), NEW p \in 0 .. Len(s),
           NEW buf \in Seq(Nat), NEW n \in 0 .. Len(buf)
    PROVE  /\ Overlay(s, p, buf, n) \in Seq(Nat)
           /\ Len(Overlay(s, p, buf, n)) = IF Len(s) >= p + n THEN Len(s) ELSE p + n
           /\ \A k \in 1 .. Len(Overlay(s, p, buf, n)) :
                  Overlay(s, p, buf, n)[k] = IF k \in p + 1 .. p + n THEN buf[k - p] ELSE s[k]
  <1> DEFINE L == IF Len(s) >= p + n THEN Len(s) ELSE p + n
             O == [k \in 1 .. L |-> IF k \in p + 1 .. p + n THEN buf[k - p] ELSE s[k]]
  <1>1. Overlay(s, p, buf, n) = O /\ L \in Nat
    <2>0. Len(s) \in Int /\ p + n \in Int
      OBVIOUS
    <2>1. Max({Len(s), p + n}) = L
      BY <2>0, MaxOfTwo, Zenon
    <2> QED
      BY <2>1 DEF Overlay
  <1>2. \A k \in 1 .. L : O[k] \in Nat
    <2> SUFFICES ASSUME NEW k \in 1 .. L PROVE O[k] \in Nat
      OBVIOUS
    <2>1. CASE k \in p + 1 .. p + n
      <3>1. k - p \in 1 .. Len(buf)
        BY <2>1
      <3>2. buf[k - p] \in Nat
        BY <3>1
      <3> QED
        BY <2>1, <3>2
    <2>2. CASE k \notin p + 1 .. p + n
      <3>1. k \in 1 .. Len(s)
        BY <2>2
      <3> QED
        BY <2>2, <3>1
    <2> QED
      BY <2>1, <2>2
  <1>3. O \in Seq(Nat) /\ Len(O) = L
    BY <1>1, <1>2
  <1> QED
    BY <1>1, <1>3

\* What the assumptions say of the sizes of a command.
LEMMA SizeFacts ==
    ASSUME NEW i \in Instances, arg[i] \in Requests[i]
    PROVE  /\ data_size(i) \in Nat \ {0} /\ data_size(i) < 2^SizeWidth
           /\ chunk_size(i) \in Nat \ {0} /\ chunk_size(i) < 2^SizeWidth
  BY BenchmarkAssumption DEF data_size, chunk_size, OrDefault, Sizes

\* The next chunk is no longer than what remains and than the buffer.
LEMMA ChunkFacts ==
    ASSUME NEW i \in Instances, arg[i] \in Requests[i], remain[i] \in Nat
    PROVE  /\ ChunkLength(i) \in Nat
           /\ ChunkLength(i) <= remain[i] /\ ChunkLength(i) <= chunk_size(i)
           /\ ChunkLength(i) = remain[i] \/ ChunkLength(i) = chunk_size(i)
           /\ remain[i] > 0 => ChunkLength(i) > 0
  BY SizeFacts, MinOfTwo DEF ChunkLength

\* What a read of n bytes returns.
LEMMA BytesFacts ==
    ASSUME NEW i \in Instances, NEW n \in Nat, Data \in Seq(Nat), pos[i] \in 0 .. Len(Data)
    PROVE  /\ Bytes(i, n) \in Seq(Nat)
           /\ Len(Bytes(i, n)) = IF pos[i] + n <= Len(Data) THEN n ELSE Len(Data) - pos[i]
           /\ \A k \in 1 .. Len(Bytes(i, n)) : Bytes(i, n)[k] = Data[pos[i] + k]
  <1>1. PICK d \in Seq(Nat) : d = Data
    OBVIOUS
  <1>2. PICK p \in 0 .. Len(d) : p = pos[i]
    BY <1>1
  <1>3. PICK m \in Nat : m = IF p + n <= Len(d) THEN p + n ELSE Len(d)
    OBVIOUS
  <1>4. Min({p + n, Len(d)}) = m
    <2>1. p + n \in Int /\ Len(d) \in Int
      OBVIOUS
    <2>2. Min({p + n, Len(d)}) = IF p + n <= Len(d) THEN p + n ELSE Len(d)
      BY <2>1, MinOfTwo, Zenon
    <2> QED
      BY <1>3, <2>2, Zenon
  <1>5. PICK b : b = SubSeq(d, p + 1, m)
    OBVIOUS
  <1>6. Bytes(i, n) = b
    BY <1>1, <1>2, <1>4, <1>5 DEF Bytes, Data
  <1>7. b = [k \in 1 .. (m - p) |-> d[p + k]]
    BY <1>3, <1>5
  <1>8. /\ m - p \in Nat
        /\ \A k \in 1 .. (m - p) : d[p + k] \in Nat
    <2> SUFFICES ASSUME NEW k \in 1 .. (m - p) PROVE m - p \in Nat /\ p + k \in 1 .. Len(d)
      BY <1>3
    <2> QED
      BY <1>3
  <1>9. b \in Seq(Nat) /\ Len(b) = m - p
    BY <1>7, <1>8
  <1> QED
    BY <1>1, <1>2, <1>3, <1>6, <1>7, <1>9

-----------------------------------------------------------------------------
(***************************************************************************)
(* Ownership: what a step does to the sessions that do not take it.        *)
(***************************************************************************)
\* All that is session j's stays as it is; so does the file, when j has it open.
Kept(j) ==
    /\ handles'[j] = handles[j] /\ pc'[j] = pc[j] /\ arg'[j] = arg[j]
    /\ object'[j] = object[j] /\ chunk_buf'[j] = chunk_buf[j]
    /\ remain'[j] = remain[j] /\ pos'[j] = pos[j]
    /\ res'[j] = res[j] /\ opened'[j] = opened[j]
    /\ object[j] # NULL => store'[File] = store[File] /\ (left => left')

\* The handle of a command is open on the file, with all the rights of AccessFlags.
LEMMA HeldFacts ==
    ASSUME TypeInv, NEW i \in Instances, HandleInv(i), object[i] # NULL
    PROVE  /\ object[i] \in OpenHandles(i)
           /\ handles[i][object[i]] \in FileHandles
           /\ handles[i][object[i]].obj = File
           /\ handles[i][object[i]].flags = AccessFlags
           /\ \A right \in AccessFlags : object[i] \in Granted(i, right)
           /\ store[File] \in FileContents
           /\ Data \in Seq(Nat)
           /\ pos[i] \in 0 .. Len(Data)
  <1>1. object[i] \in OpenHandles(i)
    BY DEF HandleInv
  <1>2. handles[i][object[i]] \in FileHandles
    BY <1>1 DEF TypeInv, OpenHandles
  <1>3. store[File] \in FileContents
    BY BenchmarkAssumption DEF HandleInv, TypeInv
  <1>4. Data \in Seq(Nat)
    BY <1>3 DEF Data, FileContents
  <1>5. handles[i][object[i]].obj = File /\ handles[i][object[i]].flags = AccessFlags
    BY <1>2 DEF FileHandles
  <1> QED
    BY <1>1, <1>2, <1>3, <1>4, <1>5, BenchmarkAssumption DEF HandleInv, TypeInv, Granted

\* Nobody has the file open when opening or creating it does not conflict.
LEMMA NoConflict ==
    ASSUME Ownership, NEW flags, "META" \in flags, ~AccessConflict(File, flags)
    PROVE  \A j \in Instances : object[j] = NULL
  <1> SUFFICES ASSUME NEW j \in Instances, object[j] # NULL PROVE FALSE
    OBVIOUS
  <1>1. object[j] \in OpenHandles(j) /\ handles[j][object[j]].obj = File
    BY HeldFacts DEF Ownership
  <1>2. Excludes(handles[j][object[j]].flags, flags)
    BY DEF Excludes
  <1> QED
    BY <1>1, <1>2 DEF AccessConflict

\* A write from the chunk buffer: it fails and changes nothing, or it is in the file.
LEMMA WriteEffect ==
    ASSUME TypeInv, NEW i \in Instances, HandleInv(i), object[i] # NULL,
           NEW n \in Nat, WriteFrom(i, n)
    PROVE  /\ handles' = handles
           /\ \/ /\ ret' = [ret EXCEPT ![i] = [res |-> "STORAGE_NO_SPACE", val |-> NULL]]
                 /\ store' = store /\ pos' = pos /\ remain' = remain
              \/ /\ ret' = [ret EXCEPT ![i] = [res |-> "SUCCESS", val |-> NULL]]
                 /\ store' = [store EXCEPT ![File].data = Overlay(Data, pos[i], chunk_buf[i], n)]
                 /\ pos' = [pos EXCEPT ![i] = @ + n]
                 /\ remain' = [remain EXCEPT ![i] = @ - n]
  <1>1. /\ object[i] \in Granted(i, "WRITE")
        /\ handles[i][object[i]].obj = File
    BY HeldFacts DEF AccessFlags
  <1>2. /\ handles' = handles
        /\ \/ /\ ret' = [ret EXCEPT ![i] = [res |-> "STORAGE_NO_SPACE", val |-> NULL]]
              /\ store' = store
           \/ /\ ret' = [ret EXCEPT ![i] = [res |-> "SUCCESS", val |-> NULL]]
              /\ store' = [store EXCEPT ![File].data = Overlay(Data, pos[i], chunk_buf[i], n)]
    BY <1>1 DEF WriteFrom, ChangeData, Fails, Returns, Data
  <1>3. ret'[i].res = "SUCCESS" => ret' = [ret EXCEPT ![i] = [res |-> "SUCCESS", val |-> NULL]]
    BY <1>2 DEF TypeInv
  <1> QED
    BY <1>2, <1>3 DEF WriteFrom, Advance, Consume, TypeInv

\* A read into the chunk buffer succeeds, since the handle has the right to read.
LEMMA ReadEffect ==
    ASSUME TypeInv, NEW i \in Instances, HandleInv(i), object[i] # NULL,
           NEW n \in Nat, ReadInto(i, n)
    PROVE  /\ handles' = handles /\ store' = store
           /\ ret' = [ret EXCEPT ![i] = [res |-> "SUCCESS", val |-> Data]]
           /\ pos' = [pos EXCEPT ![i] = @ + Len(Bytes(i, n))]
           /\ chunk_buf' = [chunk_buf EXCEPT ![i] = Overlay(@, 0, Bytes(i, n), Len(Bytes(i, n)))]
  <1>1. /\ object[i] \in Granted(i, "READ")
        /\ handles[i][object[i]].obj = File
    BY HeldFacts DEF AccessFlags
  <1> QED
    BY <1>1 DEF ReadInto, TEE_ReadObjectData, Returns, Data, Advance

\* A seek succeeds or leaves the position.
LEMMA SeekEffect ==
    ASSUME TypeInv, NEW i \in Instances, HandleInv(i), object[i] # NULL,
           NEW p, NEW next, SeekTo(i, p, next)
    PROVE  /\ handles' = handles /\ store' = store
           /\ \/ /\ ret' = [ret EXCEPT ![i] = [res |-> "SUCCESS", val |-> NULL]]
                 /\ pos' = [pos EXCEPT ![i] = p]
                 /\ res' = [res EXCEPT ![i] = "SUCCESS"]
                 /\ pc' = [pc EXCEPT ![i] = next]
              \/ /\ ret' = [ret EXCEPT ![i] = [res |-> "OVERFLOW", val |-> NULL]]
                 /\ pos' = pos
                 /\ res' = [res EXCEPT ![i] = "OVERFLOW"]
                 /\ pc' = [pc EXCEPT ![i] = "remove"]
  <1>1. /\ object[i] \in OpenHandles(i)
        /\ handles[i][object[i]].obj # NULL
    BY HeldFacts, BenchmarkAssumption
  <1>2. PICK r \in {"SUCCESS", "OVERFLOW"} : Fails(i, r)
    BY <1>1 DEF SeekTo, TEE_SeekObjectData
  <1>3. /\ ret' = [ret EXCEPT ![i] = [res |-> r, val |-> NULL]] /\ ret'[i].res = r
        /\ handles' = handles /\ store' = store
    BY <1>2 DEF Fails, Returns, TypeInv
  <1>4. /\ pos' = [pos EXCEPT ![i] = IF r = "SUCCESS" THEN p ELSE @]
        /\ res' = [res EXCEPT ![i] = r]
        /\ pc' = [pc EXCEPT ![i] = IF r = "SUCCESS" THEN next ELSE "remove"]
    BY <1>3 DEF SeekTo, Keep, After, Goto
  <1> QED
    BY <1>3, <1>4 DEF TypeInv

\* A call that opens or creates the file: it fails and changes nothing, or the session has
\* the only handle, at the start of the file.
OpenedAt(i, h, contents) ==
    /\ \A j \in Instances : object[j] = NULL
    /\ handles' = [handles EXCEPT ![i][h] = [obj |-> File, flags |-> AccessFlags, key |-> contents]]
    /\ store' = [store EXCEPT ![File] = contents]
    /\ object' = [object EXCEPT ![i] = h]
    /\ pos' = [pos EXCEPT ![i] = 0]
    /\ remain' = [remain EXCEPT ![i] = data_size(i)]
    /\ ret'[i].res = "SUCCESS" /\ res' = [res EXCEPT ![i] = "SUCCESS"]

NotOpened(i) ==
    /\ handles' = handles /\ store' = store /\ pos' = pos /\ remain' = remain
    /\ object' = [object EXCEPT ![i] = NULL]
    /\ ret'[i].res \in {"STORAGE_NO_SPACE", "ACCESS_CONFLICT", "OUT_OF_MEMORY", "ITEM_NOT_FOUND"}
    /\ res' = [res EXCEPT ![i] = ret'[i].res]

\* What TEE_CreatePersistentObject in prepare_test_file does (benchmark.c:92): the test
\* file is empty and open at its start, or nothing but the result changed.
LEMMA CreateEffect ==
    ASSUME Ownership, NEW i \in Instances, CreateFile(i)
    PROVE  /\ DOMAIN ret' = Instances
           /\ \/ /\ NotOpened(i)
                 /\ left' = left /\ pc' = [pc EXCEPT ![i] = "free"]
              \/ /\ \E h \in HandleIds : OpenedAt(i, h, EmptyFile)
                 /\ left' = FALSE /\ pc' = [pc EXCEPT ![i] = "fill"]
  <1>0. TypeInv /\ "META" \in CreateFlags
    BY DEF Ownership, CreateFlags, AccessFlags
  <1>1. CASE CannotCreate(i, File, CreateFlags)
    <2>1. PICK r \in {"STORAGE_NO_SPACE", "ACCESS_CONFLICT"} : Fails(i, r)
      BY <1>1 DEF CannotCreate
    <2>2. /\ ret' = [ret EXCEPT ![i] = [res |-> r, val |-> NULL]]
          /\ handles' = handles /\ store' = store
      BY <2>1 DEF Fails, Returns
    <2>3. ret'[i].res = r /\ ret'[i].val = NULL /\ DOMAIN ret' = Instances
      BY <1>0, <2>2 DEF TypeInv
    <2> QED
      BY <2>2, <2>3 DEF CreateFile, NotOpened, Opens, Keep, After, Goto
  <1>2. CASE ~CannotCreate(i, File, CreateFlags)
    <2>1. /\ ~Refuses(File, CreateFlags)
          /\ NewHandle(i, File, CreateFlags, EmptyFile)
          /\ store' = [store EXCEPT ![File] = EmptyFile]
      BY <1>2 DEF CreateFile, TEE_CreatePersistentObject
    <2>2. PICK h \in HandleIds :
              /\ handles' = [handles EXCEPT ![i][h] =
                                [obj |-> File, flags |-> CreateFlags, key |-> EmptyFile]]
              /\ ret' = [ret EXCEPT ![i] = [res |-> "SUCCESS", val |-> h]]
      BY <2>1 DEF NewHandle, Returns
    <2>3. ret'[i].res = "SUCCESS" /\ ret'[i].val = h /\ DOMAIN ret' = Instances
      BY <1>0, <2>2 DEF TypeInv
    <2>4. \A j \in Instances : object[j] = NULL
      BY <1>0, <2>1, NoConflict DEF Refuses
    <2>5. OpenedAt(i, h, EmptyFile)
      BY <2>1, <2>2, <2>3, <2>4 DEF OpenedAt, CreateFile, Opens, Keep, CreateFlags
    <2> QED
      BY <2>3, <2>5 DEF CreateFile, After, Goto
  <1> QED
    BY <1>1, <1>2

\* What TEE_OpenPersistentObject does when the prepared file is opened for the test
\* (benchmark.c:364): the file as it is, open at its start, or only a result.
LEMMA OpenEffect ==
    ASSUME Ownership, NEW i \in Instances, OpenFile(i)
    PROVE  /\ DOMAIN ret' = Instances
           /\ \/ /\ NotOpened(i)
                 /\ left' = TRUE /\ opened' = opened /\ pc' = [pc EXCEPT ![i] = "remove"]
              \/ /\ \E h \in HandleIds : OpenedAt(i, h, store[File])
                 /\ store' = store /\ store[File] \in FileContents
                 /\ left' = left /\ opened' = [opened EXCEPT ![i] = Data]
                 /\ pc' = [pc EXCEPT ![i] = "test"]
  <1>0. TypeInv /\ "META" \in OpenFlags
    BY DEF Ownership, OpenFlags, AccessFlags
  <1>1. CASE \E r \in {"OUT_OF_MEMORY", "ITEM_NOT_FOUND", "ACCESS_CONFLICT"} : Fails(i, r)
    <2>1. PICK r \in {"OUT_OF_MEMORY", "ITEM_NOT_FOUND", "ACCESS_CONFLICT"} : Fails(i, r)
      BY <1>1
    <2>2. /\ ret' = [ret EXCEPT ![i] = [res |-> r, val |-> NULL]]
          /\ handles' = handles /\ store' = store
      BY <2>1 DEF Fails, Returns
    <2>3. ret'[i].res = r /\ ret'[i].val = NULL /\ DOMAIN ret' = Instances
      BY <1>0, <2>2 DEF TypeInv
    <2> QED
      BY <2>2, <2>3 DEF OpenFile, NotOpened, Opens, Keep, After, Goto
  <1>2. CASE ~\E r \in {"OUT_OF_MEMORY", "ITEM_NOT_FOUND", "ACCESS_CONFLICT"} : Fails(i, r)
    <2>1. /\ File \in Present
          /\ ~AccessConflict(File, OpenFlags)
          /\ NewHandle(i, File, OpenFlags, store[File])
          /\ store' = store
      BY <1>2 DEF OpenFile, TEE_OpenPersistentObject
    <2>2. PICK h \in HandleIds :
              /\ handles' = [handles EXCEPT ![i][h] =
                                [obj |-> File, flags |-> OpenFlags, key |-> store[File]]]
              /\ ret' = [ret EXCEPT ![i] = [res |-> "SUCCESS", val |-> h]]
      BY <2>1 DEF NewHandle, Returns
    <2>3. ret'[i].res = "SUCCESS" /\ ret'[i].val = h /\ DOMAIN ret' = Instances
      BY <1>0, <2>2 DEF TypeInv
    <2>4. \A j \in Instances : object[j] = NULL
      BY <1>0, <2>1, NoConflict
    <2>5. store[File] \in FileContents /\ store = [store EXCEPT ![File] = store[File]]
      BY <1>0, <2>1 DEF Present, TypeInv
    <2>6. OpenedAt(i, h, store[File])
      BY <2>1, <2>2, <2>3, <2>4, <2>5 DEF OpenedAt, OpenFile, Opens, Keep, OpenFlags
    <2> QED
      BY <2>1, <2>3, <2>5, <2>6 DEF OpenFile, After, Goto, Data
  <1> QED
    BY <1>1, <1>2

\* A close of the file of prepare_test_file.
LEMMA CloseEffect ==
    ASSUME Ownership, NEW i \in Instances, CloseFile(i)
    PROVE  /\ DOMAIN ret' = Instances /\ store' = store
           /\ object[i] # NULL
           /\ handles' = [handles EXCEPT ![i][object[i]] = NULL]
           /\ object' = [object EXCEPT ![i] = NULL]
           /\ pc' = [pc EXCEPT ![i] = IF res[i] = "SUCCESS" THEN "open" ELSE "free"]
  <1>1. TypeInv /\ HandleInv(i) /\ object[i] # NULL
    BY DEF Ownership, CloseFile, HandleInv, Holding
  <1>2. object[i] \in OpenHandles(i)
    BY <1>1, HeldFacts
  <1>3. /\ handles' = [handles EXCEPT ![i][object[i]] = NULL]
        /\ ret' = [ret EXCEPT ![i] = [res |-> "SUCCESS", val |-> NULL]]
        /\ store' = store
    BY <1>2 DEF CloseFile, TEE_CloseObject, CloseHandle, Returns
  <1>4. ret'[i].res = "SUCCESS" /\ DOMAIN ret' = Instances
    BY <1>1, <1>3 DEF TypeInv
  <1> QED
    BY <1>1, <1>3, <1>4 DEF CloseFile, After, Goto

\* The removal of the file at the end of a command, with the handle if there is one.
LEMMA RemoveEffect ==
    ASSUME Ownership, NEW i \in Instances, RemoveFile(i)
    PROVE  /\ DOMAIN ret' = Instances
           /\ object' = [object EXCEPT ![i] = NULL]
           /\ pc' = [pc EXCEPT ![i] = "free"]
           /\ \/ object[i] = NULL /\ handles' = handles /\ store' = store /\ left' = left
              \/ /\ object[i] # NULL
                 /\ handles' = [handles EXCEPT ![i][object[i]] = NULL]
                 /\ \/ store' = [store EXCEPT ![File] = NULL] /\ left' = FALSE
                    \/ store' = store /\ left' = TRUE
  <1>0. TypeInv /\ HandleInv(i)
    BY DEF Ownership
  <1>1. CASE object[i] = NULL
    <2>1. /\ ret' = [ret EXCEPT ![i] = [res |-> "SUCCESS", val |-> NULL]]
          /\ handles' = handles /\ store' = store
      BY <1>1 DEF RemoveFile, RemoveCall, Fails, Returns
    <2>2. ret'[i].res = "SUCCESS" /\ DOMAIN ret' = Instances
      BY <1>0, <2>1 DEF TypeInv
    <2>3. left' = left
      BY <1>1 DEF RemoveFile
    <2>4. /\ object' = [object EXCEPT ![i] = NULL]
          /\ pc' = [pc EXCEPT ![i] = "free"]
      BY <2>2 DEF RemoveFile, After, Goto
    <2> QED
      BY <1>1, <2>1, <2>2, <2>3, <2>4
  <1>2. CASE object[i] # NULL
    <2>1. /\ object[i] \in OpenHandles(i) /\ "META" \in handles[i][object[i]].flags
          /\ handles[i][object[i]].obj = File
      BY <1>0, <1>2, HeldFacts DEF AccessFlags
    <2>2. /\ handles' = [handles EXCEPT ![i][object[i]] = NULL]
          /\ \/ /\ store' = [store EXCEPT ![File] = NULL]
                /\ ret' = [ret EXCEPT ![i] = [res |-> "SUCCESS", val |-> NULL]]
             \/ /\ store' = store
                /\ ret' = [ret EXCEPT ![i] = [res |-> "STORAGE_NOT_AVAILABLE", val |-> NULL]]
      BY <1>2, <2>1 DEF RemoveFile, RemoveCall, TEE_CloseAndDeletePersistentObject1, Removes,
                        RemovesNot, CloseHandle, Returns
    <2>3. ret'[i].res \in {"SUCCESS", "STORAGE_NOT_AVAILABLE"} /\ DOMAIN ret' = Instances
      BY <1>0, <2>2 DEF TypeInv
    <2>4. CASE ret'[i].res = "SUCCESS"
      <3>1. store' = [store EXCEPT ![File] = NULL]
        BY <1>0, <2>2, <2>4 DEF TypeInv
      <3> QED
        BY <1>2, <2>2, <2>3, <2>4, <3>1 DEF RemoveFile, After, Goto
    <2>5. CASE ret'[i].res = "STORAGE_NOT_AVAILABLE"
      <3>1. store' = store
        BY <1>0, <2>2, <2>5 DEF TypeInv
      <3> QED
        BY <1>2, <2>2, <2>3, <2>5, <3>1 DEF RemoveFile, After, Goto
    <2> QED
      BY <2>3, <2>4, <2>5
  <1> QED
    BY <1>1, <1>2

-----------------------------------------------------------------------------
(***************************************************************************)
(* Ownership: what a step does to the session that takes it.               *)
(***************************************************************************)
OwnInv(i) == CallInv(i) /\ HandleInv(i) /\ ResultInv(i)

\* What each step of session i has to show: its own part of the invariant, and that
\* it takes a free file only and leaves none behind unnoticed.
OwnStep(i) ==
    /\ TypeInv'
    /\ OwnInv(i)'
    /\ object'[i] # NULL => object[i] # NULL \/ \A j \in Instances : object[j] = NULL
    /\ \/ object'[i] # NULL \/ pc'[i] = "open" \/ left' \/ store'[File] = NULL
       \/ /\ object[i] = NULL /\ pc[i] # "open"
          /\ store'[File] = store[File] /\ left' = left

\* The start of a command.
LEMMA InvokeOwn ==
    ASSUME Ownership, NEW i \in Instances, Invoke(i)
    PROVE  OwnStep(i)
  <1> USE DEF Ownership
  <1>1. TypeInv'
    BY DEF TypeInv, Invoke, teeVars, localVars, Goto, Labels, Args
  <1>2. CallInv(i)'
    BY BenchmarkAssumption DEF TypeInv, CallInv, chunk_size, Outside, Invoke, teeVars, localVars, Goto, Labels, Args
  <1>3. HandleInv(i)'
    BY DEF TypeInv, HandleInv, OpenHandles, Data, Holding, ChunkLength, chunk_size, Invoke, teeVars, localVars, Goto, Labels, Args
  <1>4. ResultInv(i)'
    BY DEF TypeInv, ResultInv, Testing, Invoke, teeVars, localVars, Goto, Labels, Args
  <1>5. /\ object'[i] # NULL => object[i] # NULL \/ \A j \in Instances : object[j] = NULL
        /\ \/ object'[i] # NULL \/ pc'[i] = "open" \/ left' \/ store'[File] = NULL
           \/ /\ object[i] = NULL /\ pc[i] # "open"
              /\ store'[File] = store[File] /\ left' = left
    BY DEF TypeInv, HandleInv, Holding, Invoke, teeVars, localVars, Goto, Labels, Args
  <1> QED
    BY <1>1, <1>2, <1>3, <1>4, <1>5 DEF OwnStep, OwnInv

\* A command with wrong parameters.
LEMMA HandlerOwn ==
    ASSUME Ownership, NEW i \in Instances, ta_storage_benchmark_cmd_handler(i)
    PROVE  OwnStep(i)
  <1> USE DEF Ownership
  <1>1. TypeInv'
    BY DEF TypeInv, ta_storage_benchmark_cmd_handler, teeVars, localVars, Goto, Labels
  <1>2. CallInv(i)'
    BY DEF TypeInv, CallInv, chunk_size, Outside, ta_storage_benchmark_cmd_handler, teeVars, localVars, Goto, Labels
  <1>3. HandleInv(i)'
    BY DEF TypeInv, HandleInv, OpenHandles, Data, Holding, ChunkLength, chunk_size, ta_storage_benchmark_cmd_handler, teeVars, localVars, Goto, Labels
  <1>4. ResultInv(i)'
    BY DEF TypeInv, ResultInv, Testing, ta_storage_benchmark_cmd_handler, teeVars, localVars, Goto, Labels
  <1>5. /\ object'[i] # NULL => object[i] # NULL \/ \A j \in Instances : object[j] = NULL
        /\ \/ object'[i] # NULL \/ pc'[i] = "open" \/ left' \/ store'[File] = NULL
           \/ /\ object[i] = NULL /\ pc[i] # "open"
              /\ store'[File] = store[File] /\ left' = left
    BY DEF TypeInv, HandleInv, Holding, ta_storage_benchmark_cmd_handler, teeVars, localVars, Goto, Labels
  <1> QED
    BY <1>1, <1>2, <1>3, <1>4, <1>5 DEF OwnStep, OwnInv

\* The chunk buffer, or none.
LEMMA AllocateOwn ==
    ASSUME Ownership, NEW i \in Instances, AllocateChunk(i)
    PROVE  OwnStep(i)
  <1> USE DEF Ownership
  <1>0. /\ arg[i] \in Requests[i]
        /\ fill_buffer(chunk_size(i)) \in Seq(Nat)
        /\ Len(fill_buffer(chunk_size(i))) = chunk_size(i)
        /\ \/ /\ ret' = [ret EXCEPT ![i] = Success] /\ ret'[i].res = "SUCCESS"
              /\ pc' = [pc EXCEPT ![i] = "create"]
           \/ /\ ret' = [ret EXCEPT ![i] = [res |-> "OUT_OF_MEMORY", val |-> NULL]]
              /\ ret'[i].res = "OUT_OF_MEMORY"
              /\ pc' = [pc EXCEPT ![i] = "return"]
    <2>1. arg[i] \in Requests[i]
      BY DEF AllocateChunk, CallInv
    <2>2. chunk_size(i) \in Nat
      BY <2>1, SizeFacts
    <2> QED
      BY <2>1, <2>2 DEF AllocateChunk, LocalCall, Returns, Success, Goto, fill_buffer, TypeInv
  <1>a. /\ DOMAIN ret' = Instances /\ DOMAIN res' = Instances
        /\ chunk_buf' \in [Instances -> Seq(Nat) \cup {NULL}]
    <2>1. PICK b \in Seq(Nat) : b = fill_buffer(chunk_size(i))
      BY <1>0
    <2>2. chunk_buf' = [chunk_buf EXCEPT ![i] = b] \/ chunk_buf' = chunk_buf
      BY <2>1, Zenon DEF AllocateChunk
    <2>3. chunk_buf' \in [Instances -> Seq(Nat) \cup {NULL}]
      BY <2>2 DEF TypeInv
    <2>4. DOMAIN ret' = Instances
      BY <1>0 DEF TypeInv
    <2>5. DOMAIN res' = Instances
      BY DEF AllocateChunk, Keep, TypeInv
    <2> QED
      BY <2>3, <2>4, <2>5
  <1>b. pc' \in [Instances -> Labels]
    <2>1. pc \in [Instances -> Labels] /\ {"create", "return"} \subseteq Labels
      BY DEF TypeInv, Labels
    <2> QED
      BY <1>0, <2>1
  <1>c. UNCHANGED <<store, handles, enums, arg, object, remain, pos, opened, left>>
    BY DEF AllocateChunk
  <1>1. TypeInv'
    <2>1. TypeInv
      OBVIOUS
    <2> QED
      BY <1>a, <1>b, <1>c, <2>1, SMT DEF TypeInv
  <1>2. CallInv(i)'
    BY <1>0, SizeFacts DEF TypeInv, CallInv, chunk_size, Outside, AllocateChunk, teeVars, localVars, Goto, Labels, Keep
  <1>3. HandleInv(i)'
    BY <1>0 DEF TypeInv, HandleInv, OpenHandles, Data, Holding, ChunkLength, chunk_size, AllocateChunk, teeVars, localVars, Goto, Labels, Keep
  <1>4. ResultInv(i)'
    BY <1>0 DEF TypeInv, ResultInv, Testing, AllocateChunk, teeVars, localVars, Goto, Labels, Keep
  <1>5. /\ object'[i] # NULL => object[i] # NULL \/ \A j \in Instances : object[j] = NULL
        /\ \/ object'[i] # NULL \/ pc'[i] = "open" \/ left' \/ store'[File] = NULL
           \/ /\ object[i] = NULL /\ pc[i] # "open"
              /\ store'[File] = store[File] /\ left' = left
    BY <1>0 DEF TypeInv, HandleInv, Holding, AllocateChunk, teeVars, localVars, Goto, Labels, Keep
  <1> QED
    BY <1>1, <1>2, <1>3, <1>4, <1>5 DEF OwnStep, OwnInv

\* A call that opened the file: the types, and that the handle is the open one.
LEMMA OpenedFacts ==
    ASSUME Ownership, NEW i \in Instances, arg[i] \in Requests[i], NEW h \in HandleIds,
           NEW contents \in FileContents, OpenedAt(i, h, contents)
    PROVE  /\ store' \in [Objects -> FileContents \cup {NULL}]
           /\ handles' \in [Instances -> [HandleIds -> FileHandles \cup {NULL}]]
           /\ object' \in [Instances -> HandleIds \cup {NULL}]
           /\ remain' \in [Instances -> Nat] /\ remain'[i] = data_size(i)
           /\ pos' \in [Instances -> Nat] /\ pos'[i] = 0
           /\ DOMAIN res' = Instances /\ res'[i] = "SUCCESS"
           /\ object'[i] = h /\ h # NULL
           /\ OpenHandles(i)' = {h}
           /\ store'[File] = contents /\ contents # NULL
           /\ Data' \in Seq(Nat) /\ 0 <= Len(Data')
  <1>1. data_size(i) \in Nat
    BY SizeFacts
  <1>2. PICK r \in FileHandles : r = [obj |-> File, flags |-> AccessFlags, key |-> contents]
    BY DEF FileHandles
  <1>3. r # NULL /\ contents # NULL /\ h # NULL /\ File \in Objects
    BY BenchmarkAssumption, StorageAssumption
  <1>4. handles' = [handles EXCEPT ![i][h] = r]
    BY <1>2 DEF OpenedAt
  <1>5. handles' \in [Instances -> [HandleIds -> FileHandles \cup {NULL}]]
    BY <1>4 DEF Ownership, TypeInv
  <1>6. \A g \in HandleIds : handles'[i][g] = IF g = h THEN r ELSE handles[i][g]
    BY <1>4 DEF Ownership, TypeInv
  <1>7. \A g \in HandleIds : handles[i][g] = NULL
    BY DEF Ownership, HandleInv, OpenHandles, OpenedAt
  <1>8. OpenHandles(i)' = {h}
    BY <1>3, <1>6, <1>7 DEF OpenHandles
  <1>9. store'[File] = contents /\ store' \in [Objects -> FileContents \cup {NULL}]
    BY <1>3 DEF OpenedAt, Ownership, TypeInv
  <1>10. Data' \in Seq(Nat)
    BY <1>9 DEF Data, FileContents
  <1>11. /\ object' \in [Instances -> HandleIds \cup {NULL}] /\ object'[i] = h
         /\ remain' \in [Instances -> Nat] /\ remain'[i] = data_size(i)
         /\ pos' \in [Instances -> Nat] /\ pos'[i] = 0
         /\ DOMAIN res' = Instances /\ res'[i] = "SUCCESS"
    BY <1>1 DEF OpenedAt, Ownership, TypeInv
  <1> QED
    BY <1>3, <1>5, <1>8, <1>9, <1>10, <1>11

\* The creation of the file.
LEMMA CreateOwn ==
    ASSUME Ownership, NEW i \in Instances, CreateFile(i)
    PROVE  OwnStep(i)
  <1> USE DEF Ownership
  <1>0. arg[i] \in Requests[i] /\ DOMAIN ret' = Instances /\ EmptyFile \in FileContents
    <2>1. arg[i] \in Requests[i]
      BY DEF CallInv, CreateFile
    <2>2. DOMAIN ret' = Instances
      BY CreateEffect
    <2>3. EmptyFile \in FileContents
      BY DEF EmptyFile, FileContents
    <2> QED
      BY <2>1, <2>2, <2>3
  <1>1. CASE NotOpened(i) /\ left' = left /\ pc' = [pc EXCEPT ![i] = "free"]
    <2>1. TypeInv'
      BY <1>0, <1>1 DEF TypeInv, Labels, CreateFile, NotOpened
    <2>2. CallInv(i)'
      BY <1>0, <1>1 DEF TypeInv, CallInv, chunk_size, Outside, CreateFile, NotOpened
    <2>3. HandleInv(i)'
      <3>1. object[i] = NULL /\ object'[i] = NULL /\ pc'[i] = "free" /\ handles' = handles
        BY <1>1 DEF TypeInv, HandleInv, Holding, CreateFile, NotOpened
      <3>2. OpenHandles(i)' = OpenHandles(i)
        BY <3>1 DEF OpenHandles
      <3> QED
        BY <3>1, <3>2 DEF HandleInv, Holding
    <2>4. ResultInv(i)'
      BY <1>0, <1>1 DEF TypeInv, ResultInv, Testing, CreateFile, NotOpened
    <2>5. /\ object'[i] # NULL => object[i] # NULL \/ \A j \in Instances : object[j] = NULL
          /\ \/ object'[i] # NULL \/ pc'[i] = "open" \/ left' \/ store'[File] = NULL
             \/ /\ object[i] = NULL /\ pc[i] # "open"
                /\ store'[File] = store[File] /\ left' = left
      BY <1>0, <1>1 DEF TypeInv, HandleInv, Holding, CreateFile, NotOpened
    <2> QED
      BY <2>1, <2>2, <2>3, <2>4, <2>5 DEF OwnStep, OwnInv

  <1>2. CASE (\E h \in HandleIds : OpenedAt(i, h, EmptyFile)) /\ left' = FALSE /\ pc' = [pc EXCEPT ![i] = "fill"]
    <2>a. PICK h \in HandleIds : OpenedAt(i, h, EmptyFile)
      BY <1>2
    <2>b. /\ store' \in [Objects -> FileContents \cup {NULL}]
          /\ handles' \in [Instances -> [HandleIds -> FileHandles \cup {NULL}]]
          /\ object' \in [Instances -> HandleIds \cup {NULL}]
          /\ remain' \in [Instances -> Nat]
          /\ pos' \in [Instances -> Nat] /\ pos'[i] = 0
          /\ DOMAIN res' = Instances /\ res'[i] = "SUCCESS"
          /\ object'[i] = h /\ h # NULL
          /\ OpenHandles(i)' = {h}
          /\ store'[File] # NULL
          /\ Data' \in Seq(Nat) /\ 0 <= Len(Data')
          /\ \A j \in Instances : object[j] = NULL
      BY <1>0, <1>2, <2>a, OpenedFacts DEF OpenedAt
    <2>1. TypeInv'
      BY <1>0, <1>2, <2>b DEF TypeInv, Labels, CreateFile
    <2>2. CallInv(i)'
      BY <1>0, <1>2, <2>b DEF TypeInv, CallInv, chunk_size, Outside, CreateFile
    <2>3. HandleInv(i)'
      BY <1>0, <1>2, <2>b DEF TypeInv, HandleInv, Holding, CreateFile
    <2>4. ResultInv(i)'
      BY <1>0, <1>2, <2>b DEF TypeInv, ResultInv, Testing, CreateFile
    <2>5. /\ object'[i] # NULL => object[i] # NULL \/ \A j \in Instances : object[j] = NULL
          /\ \/ object'[i] # NULL \/ pc'[i] = "open" \/ left' \/ store'[File] = NULL
             \/ /\ object[i] = NULL /\ pc[i] # "open"
                /\ store'[File] = store[File] /\ left' = left
      BY <1>0, <1>2, <2>b DEF TypeInv, HandleInv, Holding, CreateFile
    <2> QED
      BY <2>1, <2>2, <2>3, <2>4, <2>5 DEF OwnStep, OwnInv

  <1> QED
    BY <1>1, <1>2, CreateEffect

\* The file opened again for the test.
LEMMA OpenOwn ==
    ASSUME Ownership, NEW i \in Instances, OpenFile(i)
    PROVE  OwnStep(i)
  <1> USE DEF Ownership
  <1>0. arg[i] \in Requests[i] /\ DOMAIN ret' = Instances /\ EmptyFile \in FileContents
    <2>1. arg[i] \in Requests[i]
      BY DEF CallInv, OpenFile
    <2>2. DOMAIN ret' = Instances
      BY OpenEffect
    <2>3. EmptyFile \in FileContents
      BY DEF EmptyFile, FileContents
    <2> QED
      BY <2>1, <2>2, <2>3
  <1>1. CASE NotOpened(i) /\ left' = TRUE /\ opened' = opened /\ pc' = [pc EXCEPT ![i] = "remove"]
    <2>1. TypeInv'
      BY <1>0, <1>1 DEF TypeInv, Labels, OpenFile, NotOpened
    <2>2. CallInv(i)'
      BY <1>0, <1>1 DEF TypeInv, CallInv, chunk_size, Outside, OpenFile, NotOpened
    <2>3. HandleInv(i)'
      <3>1. object[i] = NULL /\ object'[i] = NULL /\ pc'[i] = "remove" /\ handles' = handles
        BY <1>1 DEF TypeInv, HandleInv, Holding, OpenFile, NotOpened
      <3>2. OpenHandles(i)' = OpenHandles(i)
        BY <3>1 DEF OpenHandles
      <3> QED
        BY <3>1, <3>2 DEF HandleInv, Holding
    <2>4. ResultInv(i)'
      BY <1>0, <1>1 DEF TypeInv, ResultInv, Testing, OpenFile, NotOpened
    <2>5. /\ object'[i] # NULL => object[i] # NULL \/ \A j \in Instances : object[j] = NULL
          /\ \/ object'[i] # NULL \/ pc'[i] = "open" \/ left' \/ store'[File] = NULL
             \/ /\ object[i] = NULL /\ pc[i] # "open"
                /\ store'[File] = store[File] /\ left' = left
      BY <1>0, <1>1 DEF TypeInv, HandleInv, Holding, OpenFile, NotOpened
    <2> QED
      BY <2>1, <2>2, <2>3, <2>4, <2>5 DEF OwnStep, OwnInv

  <1>2. CASE (\E h \in HandleIds : OpenedAt(i, h, store[File])) /\ store' = store /\ store[File] \in FileContents
         /\ left' = left /\ opened' = [opened EXCEPT ![i] = Data] /\ pc' = [pc EXCEPT ![i] = "test"]
    <2>a. PICK h \in HandleIds : OpenedAt(i, h, store[File])
      BY <1>2
    <2>b. /\ store' \in [Objects -> FileContents \cup {NULL}]
          /\ handles' \in [Instances -> [HandleIds -> FileHandles \cup {NULL}]]
          /\ object' \in [Instances -> HandleIds \cup {NULL}]
          /\ remain' \in [Instances -> Nat]
          /\ pos' \in [Instances -> Nat] /\ pos'[i] = 0
          /\ DOMAIN res' = Instances /\ res'[i] = "SUCCESS"
          /\ object'[i] = h /\ h # NULL
          /\ OpenHandles(i)' = {h}
          /\ store'[File] # NULL
          /\ Data' \in Seq(Nat) /\ 0 <= Len(Data')
          /\ \A j \in Instances : object[j] = NULL
      BY <1>0, <1>2, <2>a, OpenedFacts DEF OpenedAt
    <2>c. /\ opened' \in [Instances -> Seq(Nat) \cup {NULL}]
          /\ opened'[i] # NULL
      <3>1. Data \in Seq(Nat)
        BY <1>2 DEF Data, FileContents
      <3>2. PICK d \in Seq(Nat) : d = Data
        BY <3>1
      <3>3. opened' = [opened EXCEPT ![i] = d] /\ d # NULL
        BY <1>2, <3>2, BenchmarkAssumption
      <3> QED
        BY <3>3 DEF TypeInv
    <2>1. TypeInv'
      BY <1>0, <1>2, <2>b, <2>c DEF TypeInv, Labels, OpenFile
    <2>2. CallInv(i)'
      BY <1>0, <1>2, <2>b, <2>c DEF TypeInv, CallInv, chunk_size, Outside, OpenFile
    <2>3. HandleInv(i)'
      BY <1>0, <1>2, <2>b, <2>c DEF TypeInv, HandleInv, Holding, OpenFile
    <2>4. ResultInv(i)'
      BY <1>0, <1>2, <2>b, <2>c DEF TypeInv, ResultInv, Testing, OpenFile
    <2>5. /\ object'[i] # NULL => object[i] # NULL \/ \A j \in Instances : object[j] = NULL
          /\ \/ object'[i] # NULL \/ pc'[i] = "open" \/ left' \/ store'[File] = NULL
             \/ /\ object[i] = NULL /\ pc[i] # "open"
                /\ store'[File] = store[File] /\ left' = left
      BY <1>0, <1>2, <2>b, <2>c DEF TypeInv, HandleInv, Holding, OpenFile
    <2> QED
      BY <2>1, <2>2, <2>3, <2>4, <2>5 DEF OwnStep, OwnInv

  <1> QED
    BY <1>1, <1>2, OpenEffect

\* A write of the next chunk: the file stays a file, and the position inside it.
LEMMA WriteFacts ==
    ASSUME Ownership, NEW i \in Instances, object[i] # NULL, pc[i] \notin Outside,
           WriteFrom(i, ChunkLength(i))
    PROVE  /\ handles' = handles /\ DOMAIN ret' = Instances
           /\ store' \in [Objects -> FileContents \cup {NULL}] /\ store'[File] # NULL
           /\ Data' \in Seq(Nat)
           /\ pos' \in [Instances -> Nat] /\ pos'[i] <= Len(Data')
           /\ remain' \in [Instances -> Nat]
           /\ \A j \in Instances \ {i} : pos'[j] = pos[j] /\ remain'[j] = remain[j]
           /\ \/ /\ ret'[i].res = "STORAGE_NO_SPACE"
                 /\ store' = store /\ pos' = pos /\ remain' = remain
              \/ /\ ret'[i].res = "SUCCESS"
                 /\ Data' = Overlay(Data, pos[i], chunk_buf[i], ChunkLength(i))
                 /\ pos'[i] = pos[i] + ChunkLength(i)
                 /\ remain'[i] = remain[i] - ChunkLength(i)
  <1>0. TypeInv /\ HandleInv(i) /\ CallInv(i)
    BY DEF Ownership
  <1>1. /\ store[File] \in FileContents /\ Data \in Seq(Nat) /\ pos[i] \in 0 .. Len(Data)
    BY <1>0, HeldFacts
  <1>2. /\ arg[i] \in Requests[i] /\ remain[i] \in Nat /\ pos[i] \in Nat
        /\ chunk_buf[i] \in Seq(Nat) /\ Len(chunk_buf[i]) = chunk_size(i)
    BY <1>0 DEF CallInv, Outside, TypeInv
  <1>3. /\ ChunkLength(i) \in Nat /\ ChunkLength(i) <= remain[i]
        /\ ChunkLength(i) <= Len(chunk_buf[i]) /\ Len(chunk_buf[i]) \in Nat
    BY <1>2, ChunkFacts
  <1>4. ChunkLength(i) \in 0 .. Len(chunk_buf[i])
    BY <1>3
  <1>5. PICK n \in 0 .. Len(chunk_buf[i]) : n = ChunkLength(i)
    BY <1>4
  <1>6. PICK o : o = Overlay(Data, pos[i], chunk_buf[i], n)
    OBVIOUS
  <1>7. o \in Seq(Nat) /\ pos[i] + n <= Len(o)
    BY <1>1, <1>2, <1>6, OverlayFacts
  <1>8. CASE /\ ret' = [ret EXCEPT ![i] = [res |-> "STORAGE_NO_SPACE", val |-> NULL]]
             /\ store' = store /\ pos' = pos /\ remain' = remain
    BY <1>0, <1>1, <1>8, <1>3, WriteEffect, BenchmarkAssumption DEF TypeInv, Data, HandleInv
  <1>9. CASE /\ ret' = [ret EXCEPT ![i] = [res |-> "SUCCESS", val |-> NULL]]
             /\ store' = [store EXCEPT ![File].data = o]
             /\ pos' = [pos EXCEPT ![i] = @ + n]
             /\ remain' = [remain EXCEPT ![i] = @ - n]
    <2>1. PICK f : f = [store[File] EXCEPT !.data = o]
      OBVIOUS
    <2>2. f \in FileContents /\ f.data = o /\ f # NULL
      BY <1>1, <1>7, <2>1, BenchmarkAssumption DEF FileContents
    <2>3. store' = [store EXCEPT ![File] = f]
      BY <1>0, <1>9, <2>1
    <2>4. store'[File] = f /\ store' \in [Objects -> FileContents \cup {NULL}]
      BY <1>0, <2>2, <2>3, BenchmarkAssumption DEF TypeInv
    <2>5. Data' = o
      BY <2>2, <2>4 DEF Data
    <2>6. /\ pos'[i] = pos[i] + n /\ pos' \in [Instances -> Nat]
          /\ remain'[i] = remain[i] - n /\ remain' \in [Instances -> Nat]
          /\ \A j \in Instances \ {i} : pos'[j] = pos[j] /\ remain'[j] = remain[j]
      BY <1>0, <1>3, <1>5, <1>9 DEF TypeInv
    <2>7. ret'[i].res = "SUCCESS" /\ DOMAIN ret' = Instances
      BY <1>0, <1>9 DEF TypeInv
    <2>8. handles' = handles
      BY <1>0, <1>3, WriteEffect
    <2> QED
      BY <1>5, <1>6, <1>7, <2>2, <2>4, <2>5, <2>6, <2>7, <2>8
  <1> QED
    BY <1>0, <1>3, <1>5, <1>6, <1>8, <1>9, WriteEffect

\* A read of n bytes, no more than the buffer takes: the buffer keeps its length.
LEMMA ReadFacts ==
    ASSUME Ownership, NEW i \in Instances, object[i] # NULL, pc[i] \notin Outside,
           NEW n \in Nat, n <= chunk_size(i), ReadInto(i, n)
    PROVE  /\ handles' = handles /\ store' = store /\ DOMAIN ret' = Instances
           /\ ret'[i].res = "SUCCESS"
           /\ pos' \in [Instances -> Nat] /\ pos'[i] <= Len(Data)
           /\ Bytes(i, n) \in Seq(Nat)
           /\ pos'[i] = pos[i] + Len(Bytes(i, n))
           /\ chunk_buf' \in [Instances -> Seq(Nat) \cup {NULL}]
           /\ chunk_buf'[i] \in Seq(Nat) /\ Len(chunk_buf'[i]) = chunk_size(i)
           /\ \A k \in 1 .. Len(Bytes(i, n)) : chunk_buf'[i][k] = Data[pos[i] + k]
           /\ \A j \in Instances \ {i} : pos'[j] = pos[j] /\ chunk_buf'[j] = chunk_buf[j]
  <1>0. TypeInv /\ HandleInv(i) /\ CallInv(i)
    BY DEF Ownership
  <1>1. /\ Data \in Seq(Nat) /\ pos[i] \in 0 .. Len(Data)
    BY <1>0, HeldFacts
  <1>2. /\ arg[i] \in Requests[i] /\ chunk_size(i) \in Nat
        /\ chunk_buf[i] \in Seq(Nat) /\ Len(chunk_buf[i]) = chunk_size(i)
    BY <1>0, SizeFacts DEF CallInv, Outside
  <1>3. PICK b : b = Bytes(i, n)
    OBVIOUS
  <1>4. /\ b \in Seq(Nat) /\ Len(b) \in Nat /\ Len(b) <= n /\ pos[i] + Len(b) <= Len(Data)
        /\ \A k \in 1 .. Len(b) : b[k] = Data[pos[i] + k]
    <2>1. /\ b \in Seq(Nat)
          /\ Len(b) = IF pos[i] + n <= Len(Data) THEN n ELSE Len(Data) - pos[i]
          /\ \A k \in 1 .. Len(b) : b[k] = Data[pos[i] + k]
      BY <1>1, <1>3, BytesFacts
    <2>2. PICK L \in Nat : L = Len(Data)
      BY <1>1
    <2>3. PICK q \in 0 .. L : q = pos[i]
      BY <1>1, <2>2
    <2>4. Len(b) = IF q + n <= L THEN n ELSE L - q
      BY <2>1, <2>2, <2>3
    <2>5. Len(b) \in Nat /\ Len(b) <= n /\ q + Len(b) <= L
      BY <2>4
    <2> QED
      BY <2>1, <2>2, <2>3, <2>5
  <1>5. PICK o : o = Overlay(chunk_buf[i], 0, b, Len(b))
    OBVIOUS
  <1>6. /\ o \in Seq(Nat) /\ Len(o) = chunk_size(i)
        /\ \A k \in 1 .. Len(b) : o[k] = b[k]
    <2>1. PICK c \in Seq(Nat) : c = chunk_buf[i]
      BY <1>2
    <2>2. 0 \in 0 .. Len(c) /\ Len(b) \in 0 .. Len(b)
      BY <1>4
    <2>3. /\ o \in Seq(Nat)
          /\ Len(o) = IF Len(c) >= 0 + Len(b) THEN Len(c) ELSE 0 + Len(b)
          /\ \A k \in 1 .. Len(o) : o[k] = IF k \in 0 + 1 .. 0 + Len(b) THEN b[k - 0] ELSE c[k]
      BY <1>4, <1>5, <2>1, <2>2, OverlayFacts
    <2>4. PICK m \in Nat : m = Len(b) /\ m <= n
      BY <1>4
    <2>5. PICK z \in Nat : z = chunk_size(i)
      BY <1>2
    <2>6. Len(o) = z /\ m <= z
      BY <1>2, <2>1, <2>3, <2>4, <2>5
    <2>7. \A k \in 1 .. m : k \in 1 .. Len(o) /\ k \in 0 + 1 .. 0 + m /\ k - 0 = k
      BY <2>6
    <2>8. \A k \in 1 .. m : o[k] = b[k]
      BY <2>3, <2>4, <2>7
    <2> QED
      BY <2>3, <2>4, <2>5, <2>6, <2>8
  <1>7. /\ handles' = handles /\ store' = store
        /\ ret' = [ret EXCEPT ![i] = [res |-> "SUCCESS", val |-> Data]]
        /\ pos' = [pos EXCEPT ![i] = @ + Len(b)]
        /\ chunk_buf' = [chunk_buf EXCEPT ![i] = o]
    BY <1>0, <1>3, <1>5, ReadEffect
  <1>8. ret'[i].res = "SUCCESS" /\ DOMAIN ret' = Instances
    BY <1>0, <1>7 DEF TypeInv
  <1>9. /\ pos'[i] = pos[i] + Len(b) /\ pos' \in [Instances -> Nat]
        /\ \A j \in Instances \ {i} : pos'[j] = pos[j]
    BY <1>0, <1>4, <1>7 DEF TypeInv
  <1>10. /\ chunk_buf'[i] = o /\ chunk_buf' \in [Instances -> Seq(Nat) \cup {NULL}]
         /\ \A j \in Instances \ {i} : chunk_buf'[j] = chunk_buf[j]
    BY <1>0, <1>6, <1>7 DEF TypeInv
  <1> QED
    BY <1>3, <1>4, <1>6, <1>7, <1>8, <1>9, <1>10

\* A chunk of the file is written by prepare_test_file.
LEMMA FillOwn ==
    ASSUME Ownership, NEW i \in Instances, FillFile(i)
    PROVE  OwnStep(i)
  <1> USE DEF Ownership
  <1>0. /\ object[i] # NULL /\ pc[i] \notin Outside
        /\ handles' = handles /\ DOMAIN ret' = Instances
        /\ store' \in [Objects -> FileContents \cup {NULL}] /\ store'[File] # NULL
        /\ pos' \in [Instances -> Nat] /\ pos'[i] <= Len(Data')
        /\ remain' \in [Instances -> Nat]
        /\ ret'[i].res \in {"SUCCESS", "STORAGE_NO_SPACE"}
    <2>1. object[i] # NULL /\ pc[i] \notin Outside
      BY DEF FillFile, InTest, HandleInv, Holding, Outside
    <2> QED
      BY <2>1, WriteFacts DEF FillFile
  <1>1. TypeInv'
    BY <1>0 DEF TypeInv, FillFile, Keep, After, Goto, Labels, FillExit
  <1>2. CallInv(i)'
    BY <1>0 DEF TypeInv, CallInv, chunk_size, Outside, FillFile, Keep, After, Goto, Labels, FillExit
  <1>3. HandleInv(i)'
    BY <1>0 DEF TypeInv, HandleInv, OpenHandles, Data, Holding, ChunkLength, chunk_size, FillFile, Keep, After, Goto, Labels, FillExit
  <1>4. ResultInv(i)'
    BY <1>0 DEF TypeInv, ResultInv, Testing, FillFile, Keep, After, Goto, Labels, FillExit
  <1>5. /\ object'[i] # NULL => object[i] # NULL \/ \A j \in Instances : object[j] = NULL
        /\ \/ object'[i] # NULL \/ pc'[i] = "open" \/ left' \/ store'[File] = NULL
           \/ /\ object[i] = NULL /\ pc[i] # "open"
              /\ store'[File] = store[File] /\ left' = left
    BY <1>0 DEF TypeInv, HandleInv, Holding, FillFile, Keep, After, Goto, Labels, FillExit
  <1> QED
    BY <1>1, <1>2, <1>3, <1>4, <1>5 DEF OwnStep, OwnInv

\* A chunk of the write test.
LEMMA WriteOwn ==
    ASSUME Ownership, NEW i \in Instances, test_write(i)
    PROVE  OwnStep(i)
  <1> USE DEF Ownership
  <1>0. /\ object[i] # NULL /\ pc[i] \notin Outside
        /\ handles' = handles /\ DOMAIN ret' = Instances
        /\ store' \in [Objects -> FileContents \cup {NULL}] /\ store'[File] # NULL
        /\ pos' \in [Instances -> Nat] /\ pos'[i] <= Len(Data')
        /\ remain' \in [Instances -> Nat]
        /\ ret'[i].res \in {"SUCCESS", "STORAGE_NO_SPACE"}
    <2>1. object[i] # NULL /\ pc[i] \notin Outside
      BY DEF test_write, InTest, HandleInv, Holding, Outside
    <2> QED
      BY <2>1, WriteFacts DEF test_write
  <1>1. TypeInv'
    BY <1>0 DEF TypeInv, test_write, Keep, After, Goto, Labels, InTest
  <1>2. CallInv(i)'
    BY <1>0 DEF TypeInv, CallInv, chunk_size, Outside, test_write, Keep, After, Goto, Labels, InTest
  <1>3. HandleInv(i)'
    BY <1>0 DEF TypeInv, HandleInv, OpenHandles, Data, Holding, ChunkLength, chunk_size, test_write, Keep, After, Goto, Labels, InTest
  <1>4. ResultInv(i)'
    BY <1>0 DEF TypeInv, ResultInv, Testing, test_write, Keep, After, Goto, Labels, InTest
  <1>5. /\ object'[i] # NULL => object[i] # NULL \/ \A j \in Instances : object[j] = NULL
        /\ \/ object'[i] # NULL \/ pc'[i] = "open" \/ left' \/ store'[File] = NULL
           \/ /\ object[i] = NULL /\ pc[i] # "open"
              /\ store'[File] = store[File] /\ left' = left
    BY <1>0 DEF TypeInv, HandleInv, Holding, test_write, Keep, After, Goto, Labels, InTest
  <1> QED
    BY <1>1, <1>2, <1>3, <1>4, <1>5 DEF OwnStep, OwnInv

\* A chunk is written back.
LEMMA RewriteWriteOwn ==
    ASSUME Ownership, NEW i \in Instances, RewriteWrite(i)
    PROVE  OwnStep(i)
  <1> USE DEF Ownership
  <1>0. /\ object[i] # NULL /\ pc[i] \notin Outside
        /\ handles' = handles /\ DOMAIN ret' = Instances
        /\ store' \in [Objects -> FileContents \cup {NULL}] /\ store'[File] # NULL
        /\ pos' \in [Instances -> Nat] /\ pos'[i] <= Len(Data')
        /\ remain' \in [Instances -> Nat]
        /\ ret'[i].res \in {"SUCCESS", "STORAGE_NO_SPACE"}
    <2>1. object[i] # NULL /\ pc[i] \notin Outside
      BY DEF RewriteWrite, InTest, HandleInv, Holding, Outside
    <2> QED
      BY <2>1, WriteFacts DEF RewriteWrite
  <1>1. TypeInv'
    BY <1>0 DEF TypeInv, RewriteWrite, Keep, After, Goto, Labels, InTest
  <1>2. CallInv(i)'
    BY <1>0 DEF TypeInv, CallInv, chunk_size, Outside, RewriteWrite, Keep, After, Goto, Labels, InTest
  <1>3. HandleInv(i)'
    BY <1>0 DEF TypeInv, HandleInv, OpenHandles, Data, Holding, ChunkLength, chunk_size, RewriteWrite, Keep, After, Goto, Labels, InTest
  <1>4. ResultInv(i)'
    BY <1>0 DEF TypeInv, ResultInv, Testing, RewriteWrite, Keep, After, Goto, Labels, InTest
  <1>5. /\ object'[i] # NULL => object[i] # NULL \/ \A j \in Instances : object[j] = NULL
        /\ \/ object'[i] # NULL \/ pc'[i] = "open" \/ left' \/ store'[File] = NULL
           \/ /\ object[i] = NULL /\ pc[i] # "open"
              /\ store'[File] = store[File] /\ left' = left
    BY <1>0 DEF TypeInv, HandleInv, Holding, RewriteWrite, Keep, After, Goto, Labels, InTest
  <1> QED
    BY <1>1, <1>2, <1>3, <1>4, <1>5 DEF OwnStep, OwnInv

\* A chunk of the read test.
LEMMA ReadOwn ==
    ASSUME Ownership, NEW i \in Instances, test_read(i)
    PROVE  OwnStep(i)
  <1> USE DEF Ownership
  <1>0. /\ object[i] # NULL /\ pc[i] \notin Outside /\ arg[i] \in Requests[i]
        /\ handles' = handles /\ store' = store /\ DOMAIN ret' = Instances
        /\ ret'[i].res \in {"SUCCESS", "STORAGE_NOT_AVAILABLE"}
        /\ pos' \in [Instances -> Nat] /\ pos'[i] <= Len(Data)
        /\ chunk_buf' \in [Instances -> Seq(Nat) \cup {NULL}]
        /\ chunk_buf'[i] \in Seq(Nat) /\ Len(chunk_buf'[i]) = chunk_size(i)
        /\ remain' \in [Instances -> Nat]
    <2>1. object[i] # NULL /\ pc[i] \notin Outside
      BY DEF test_read, InTest, HandleInv, Holding, Outside
    <2>2. arg[i] \in Requests[i] /\ remain[i] \in Nat /\ chunk_buf[i] \in Seq(Nat) /\ Len(chunk_buf[i]) = chunk_size(i)
      BY <2>1 DEF CallInv, Outside, TypeInv
    <2>3. ChunkLength(i) \in Nat /\ ChunkLength(i) <= chunk_size(i) /\ ChunkLength(i) <= remain[i]
      BY <2>2, ChunkFacts
    <2>4. CASE ReadFails(i) /\ UNCHANGED <<chunk_buf, pos, remain>>
      <3>1. /\ ret' = [ret EXCEPT ![i] = [res |-> "STORAGE_NOT_AVAILABLE", val |-> NULL]]
            /\ handles' = handles /\ store' = store
        BY <2>4 DEF ReadFails, Fails, Returns
      <3> QED
        BY <2>1, <2>2, <2>4, <3>1 DEF TypeInv, HandleInv
    <2>5. CASE ReadInto(i, ChunkLength(i)) /\ Consume(i, ChunkLength(i))
      <3>1. ChunkLength(i) \in Nat /\ ChunkLength(i) <= chunk_size(i)
        BY <2>2, <2>3, SizeFacts
      <3>2. remain' \in [Instances -> Nat]
        BY <2>2, <2>3, <2>5 DEF Consume, TypeInv
      <3> QED
        BY <2>1, <2>2, <2>5, <3>1, <3>2, ReadFacts
    <2> QED
      BY <2>4, <2>5 DEF test_read
  <1>1. TypeInv'
    BY <1>0 DEF TypeInv, test_read, Keep, After, Goto, Labels, InTest
  <1>2. CallInv(i)'
    BY <1>0 DEF TypeInv, CallInv, chunk_size, Outside, test_read, Keep, After, Goto, Labels, InTest
  <1>3. HandleInv(i)'
    BY <1>0 DEF TypeInv, HandleInv, OpenHandles, Data, Holding, ChunkLength, chunk_size, test_read, Keep, After, Goto, Labels, InTest
  <1>4. ResultInv(i)'
    BY <1>0 DEF TypeInv, ResultInv, Testing, test_read, Keep, After, Goto, Labels, InTest
  <1>5. /\ object'[i] # NULL => object[i] # NULL \/ \A j \in Instances : object[j] = NULL
        /\ \/ object'[i] # NULL \/ pc'[i] = "open" \/ left' \/ store'[File] = NULL
           \/ /\ object[i] = NULL /\ pc[i] # "open"
              /\ store'[File] = store[File] /\ left' = left
    BY <1>0 DEF TypeInv, HandleInv, Holding, test_read, Keep, After, Goto, Labels, InTest
  <1> QED
    BY <1>1, <1>2, <1>3, <1>4, <1>5 DEF OwnStep, OwnInv

\* A chunk is read to be written back.
LEMMA RewriteReadOwn ==
    ASSUME Ownership, NEW i \in Instances, RewriteRead(i)
    PROVE  OwnStep(i)
  <1> USE DEF Ownership
  <1>0. /\ object[i] # NULL /\ pc[i] \notin Outside /\ arg[i] \in Requests[i]
        /\ handles' = handles /\ store' = store /\ DOMAIN ret' = Instances
        /\ ret'[i].res \in {"SUCCESS", "STORAGE_NOT_AVAILABLE"}
        /\ pos' \in [Instances -> Nat] /\ pos'[i] <= Len(Data)
        /\ chunk_buf' \in [Instances -> Seq(Nat) \cup {NULL}]
        /\ chunk_buf'[i] \in Seq(Nat) /\ Len(chunk_buf'[i]) = chunk_size(i)
        /\ remain' \in [Instances -> Nat]
    <2>1. object[i] # NULL /\ pc[i] \notin Outside
      BY DEF RewriteRead, InTest, HandleInv, Holding, Outside
    <2>2. arg[i] \in Requests[i] /\ remain[i] \in Nat /\ chunk_buf[i] \in Seq(Nat) /\ Len(chunk_buf[i]) = chunk_size(i)
      BY <2>1 DEF CallInv, Outside, TypeInv
    <2>3. ChunkLength(i) \in Nat /\ ChunkLength(i) <= chunk_size(i) /\ ChunkLength(i) <= remain[i]
      BY <2>2, ChunkFacts
    <2>4. CASE ReadFails(i) /\ UNCHANGED <<chunk_buf, pos, remain>>
      <3>1. /\ ret' = [ret EXCEPT ![i] = [res |-> "STORAGE_NOT_AVAILABLE", val |-> NULL]]
            /\ handles' = handles /\ store' = store
        BY <2>4 DEF ReadFails, Fails, Returns
      <3> QED
        BY <2>1, <2>2, <2>4, <3>1 DEF TypeInv, HandleInv
    <2>5. CASE ReadInto(i, ChunkLength(i)) /\ UNCHANGED remain
      <3>1. ChunkLength(i) \in Nat /\ ChunkLength(i) <= chunk_size(i)
        BY <2>2, <2>3, SizeFacts
      <3>2. remain' \in [Instances -> Nat]
        BY <2>5 DEF TypeInv
      <3> QED
        BY <2>1, <2>2, <2>5, <3>1, <3>2, ReadFacts
    <2> QED
      BY <2>4, <2>5 DEF RewriteRead
  <1>a. pc'[i] = "seek_back" => ChunkLength(i) <= pos'[i]
    <2>1. SUFFICES ASSUME pc'[i] = "seek_back" PROVE ChunkLength(i) <= pos'[i]
      OBVIOUS
    <2>2. ReadInto(i, ChunkLength(i)) /\ ~(Len(Bytes(i, ChunkLength(i))) < ChunkLength(i))
      BY <2>1 DEF RewriteRead, Goto, TypeInv
    <2>3. /\ ChunkLength(i) \in Nat /\ ChunkLength(i) <= chunk_size(i)
      BY <1>0, ChunkFacts DEF TypeInv
    <2>4. /\ Bytes(i, ChunkLength(i)) \in Seq(Nat)
          /\ pos'[i] = pos[i] + Len(Bytes(i, ChunkLength(i)))
      BY <1>0, <2>2, <2>3, ReadFacts
    <2> QED
      BY <2>2, <2>3, <2>4 DEF TypeInv
  <1>1. TypeInv'
    BY <1>0 DEF TypeInv, RewriteRead, Keep, After, Goto, Labels, InTest
  <1>2. CallInv(i)'
    BY <1>0 DEF TypeInv, CallInv, chunk_size, Outside, RewriteRead, Keep, After, Goto, Labels, InTest
  <1>3. HandleInv(i)'
    BY <1>0, <1>a DEF TypeInv, HandleInv, OpenHandles, Data, Holding, ChunkLength, chunk_size, RewriteRead, Keep, After, Goto, Labels, InTest
  <1>4. ResultInv(i)'
    BY <1>0 DEF TypeInv, ResultInv, Testing, RewriteRead, Keep, After, Goto, Labels, InTest
  <1>5. /\ object'[i] # NULL => object[i] # NULL \/ \A j \in Instances : object[j] = NULL
        /\ \/ object'[i] # NULL \/ pc'[i] = "open" \/ left' \/ store'[File] = NULL
           \/ /\ object[i] = NULL /\ pc[i] # "open"
              /\ store'[File] = store[File] /\ left' = left
    BY <1>0 DEF TypeInv, HandleInv, Holding, RewriteRead, Keep, After, Goto, Labels, InTest
  <1> QED
    BY <1>1, <1>2, <1>3, <1>4, <1>5 DEF OwnStep, OwnInv

\* A chunk is verified.
LEMMA VerifyOwn ==
    ASSUME Ownership, NEW i \in Instances, VerifyChunk(i)
    PROVE  OwnStep(i)
  <1> USE DEF Ownership
  <1>0. /\ object[i] # NULL /\ pc[i] \notin Outside /\ arg[i] \in Requests[i]
        /\ handles' = handles /\ store' = store /\ DOMAIN ret' = Instances
        /\ ret'[i].res \in {"SUCCESS", "STORAGE_NOT_AVAILABLE"}
        /\ pos' \in [Instances -> Nat] /\ pos'[i] <= Len(Data)
        /\ chunk_buf' \in [Instances -> Seq(Nat) \cup {NULL}]
        /\ chunk_buf'[i] \in Seq(Nat) /\ Len(chunk_buf'[i]) = chunk_size(i)
        /\ remain' \in [Instances -> Nat]
    <2>1. object[i] # NULL /\ pc[i] \notin Outside
      BY DEF VerifyChunk, InTest, HandleInv, Holding, Outside
    <2>2. arg[i] \in Requests[i] /\ remain[i] \in Nat /\ chunk_buf[i] \in Seq(Nat) /\ Len(chunk_buf[i]) = chunk_size(i)
      BY <2>1 DEF CallInv, Outside, TypeInv
    <2>3. ChunkLength(i) \in Nat /\ ChunkLength(i) <= chunk_size(i) /\ ChunkLength(i) <= remain[i]
      BY <2>2, ChunkFacts
    <2>4. CASE ReadFails(i) /\ UNCHANGED <<chunk_buf, pos, remain>>
      <3>1. /\ ret' = [ret EXCEPT ![i] = [res |-> "STORAGE_NOT_AVAILABLE", val |-> NULL]]
            /\ handles' = handles /\ store' = store
        BY <2>4 DEF ReadFails, Fails, Returns
      <3> QED
        BY <2>1, <2>2, <2>4, <3>1 DEF TypeInv, HandleInv
    <2>5. CASE ReadInto(i, chunk_size(i)) /\ (remain' = [remain EXCEPT ![i] = BytesLeft(i)] \/ UNCHANGED remain)
      <3>1. chunk_size(i) \in Nat /\ chunk_size(i) <= chunk_size(i)
        BY <2>2, <2>3, SizeFacts
      <3>2. remain' \in [Instances -> Nat]
        <4>1. BytesLeft(i) \in Nat
          BY <2>2, SizeFacts, BenchmarkAssumption DEF BytesLeft
        <4> QED
          BY <2>5, <4>1 DEF TypeInv
      <3> QED
        BY <2>1, <2>2, <2>5, <3>1, <3>2, ReadFacts
    <2> QED
      BY <2>4, <2>5 DEF VerifyChunk
  <1>1. TypeInv'
    BY <1>0 DEF TypeInv, VerifyChunk, Keep, After, Goto, Labels, BytesLeft
  <1>2. CallInv(i)'
    BY <1>0 DEF TypeInv, CallInv, chunk_size, Outside, VerifyChunk, Keep, After, Goto, Labels, BytesLeft
  <1>3. HandleInv(i)'
    BY <1>0 DEF TypeInv, HandleInv, OpenHandles, Data, Holding, ChunkLength, chunk_size, VerifyChunk, Keep, After, Goto, Labels, BytesLeft
  <1>4. ResultInv(i)'
    BY <1>0 DEF TypeInv, ResultInv, Testing, VerifyChunk, Keep, After, Goto, Labels, BytesLeft
  <1>5. /\ object'[i] # NULL => object[i] # NULL \/ \A j \in Instances : object[j] = NULL
        /\ \/ object'[i] # NULL \/ pc'[i] = "open" \/ left' \/ store'[File] = NULL
           \/ /\ object[i] = NULL /\ pc[i] # "open"
              /\ store'[File] = store[File] /\ left' = left
    BY <1>0 DEF TypeInv, HandleInv, Holding, VerifyChunk, Keep, After, Goto, Labels, BytesLeft
  <1> QED
    BY <1>1, <1>2, <1>3, <1>4, <1>5 DEF OwnStep, OwnInv

\* The seek back to where the chunk was read.
LEMMA RewriteSeekOwn ==
    ASSUME Ownership, NEW i \in Instances, RewriteSeek(i)
    PROVE  OwnStep(i)
  <1> USE DEF Ownership
  <1>0. /\ object[i] # NULL
        /\ handles' = handles /\ store' = store /\ DOMAIN ret' = Instances
        /\ pos' \in [Instances -> Nat] /\ pos'[i] <= Len(Data)
        /\ \/ res' = [res EXCEPT ![i] = "SUCCESS"] /\ pc' = [pc EXCEPT ![i] = "write_back"]
           \/ res' = [res EXCEPT ![i] = "OVERFLOW"] /\ pc' = [pc EXCEPT ![i] = "remove"]
    <2>1. object[i] # NULL /\ TypeInv /\ HandleInv(i)
      BY DEF RewriteSeek, InTest, HandleInv, Holding
    <2>2. pos[i] \in 0 .. Len(Data) /\ Len(Data) \in Nat
      BY <2>1, HeldFacts
    <2>3. SeekBack(i) \in 0 .. Len(Data)
      <3>1. arg[i] \in Requests[i] /\ remain[i] \in Nat /\ ChunkLength(i) <= pos[i]
        BY DEF RewriteSeek, InTest, CallInv, HandleInv, TypeInv
      <3> QED
        BY <2>2, <3>1, ChunkFacts DEF SeekBack
    <2>4. /\ handles' = handles /\ store' = store /\ DOMAIN ret' = Instances
          /\ \/ /\ pos' = [pos EXCEPT ![i] = SeekBack(i)]
                /\ res' = [res EXCEPT ![i] = "SUCCESS"] /\ pc' = [pc EXCEPT ![i] = "write_back"]
             \/ /\ pos' = pos
                /\ res' = [res EXCEPT ![i] = "OVERFLOW"] /\ pc' = [pc EXCEPT ![i] = "remove"]
      BY <2>1, SeekEffect DEF RewriteSeek, TypeInv
    <2>5. pos' \in [Instances -> Nat] /\ pos'[i] <= Len(Data)
      BY <2>2, <2>3, <2>4 DEF TypeInv
    <2> QED
      BY <2>1, <2>4, <2>5
  <1>1. TypeInv'
    BY <1>0 DEF TypeInv, RewriteSeek, InTest, Labels
  <1>2. CallInv(i)'
    BY <1>0 DEF TypeInv, CallInv, chunk_size, Outside, RewriteSeek, InTest, Labels
  <1>3. HandleInv(i)'
    BY <1>0 DEF TypeInv, HandleInv, OpenHandles, Data, Holding, ChunkLength, chunk_size, RewriteSeek, InTest, Labels
  <1>4. ResultInv(i)'
    BY <1>0 DEF TypeInv, ResultInv, Testing, RewriteSeek, InTest, Labels
  <1>5. /\ object'[i] # NULL => object[i] # NULL \/ \A j \in Instances : object[j] = NULL
        /\ \/ object'[i] # NULL \/ pc'[i] = "open" \/ left' \/ store'[File] = NULL
           \/ /\ object[i] = NULL /\ pc[i] # "open"
              /\ store'[File] = store[File] /\ left' = left
    BY <1>0 DEF TypeInv, HandleInv, Holding, RewriteSeek, InTest, Labels
  <1> QED
    BY <1>1, <1>2, <1>3, <1>4, <1>5 DEF OwnStep, OwnInv

\* The seek to the start of the file, for the verification.
LEMMA RewindOwn ==
    ASSUME Ownership, NEW i \in Instances, Rewind(i)
    PROVE  OwnStep(i)
  <1> USE DEF Ownership
  <1>0. /\ object[i] # NULL
        /\ handles' = handles /\ store' = store /\ DOMAIN ret' = Instances
        /\ pos' \in [Instances -> Nat] /\ pos'[i] <= Len(Data)
        /\ \/ res' = [res EXCEPT ![i] = "SUCCESS"] /\ pc' = [pc EXCEPT ![i] = "verify"]
           \/ res' = [res EXCEPT ![i] = "OVERFLOW"] /\ pc' = [pc EXCEPT ![i] = "remove"]
    <2>1. object[i] # NULL /\ TypeInv /\ HandleInv(i)
      BY DEF Rewind, InTest, HandleInv, Holding
    <2>2. pos[i] \in 0 .. Len(Data) /\ Len(Data) \in Nat
      BY <2>1, HeldFacts
    <2>3. RewindPosition(i) \in 0 .. Len(Data)
      BY <2>2 DEF RewindPosition
    <2>4. /\ handles' = handles /\ store' = store /\ DOMAIN ret' = Instances
          /\ \/ /\ pos' = [pos EXCEPT ![i] = RewindPosition(i)]
                /\ res' = [res EXCEPT ![i] = "SUCCESS"] /\ pc' = [pc EXCEPT ![i] = "verify"]
             \/ /\ pos' = pos
                /\ res' = [res EXCEPT ![i] = "OVERFLOW"] /\ pc' = [pc EXCEPT ![i] = "remove"]
      BY <2>1, SeekEffect DEF Rewind, TypeInv
    <2>5. pos' \in [Instances -> Nat] /\ pos'[i] <= Len(Data)
      BY <2>2, <2>3, <2>4 DEF TypeInv
    <2> QED
      BY <2>1, <2>4, <2>5
  <1>a. /\ arg[i] \in Requests[i] /\ data_size(i) \in Nat
        /\ remain' \in [Instances -> Nat]
        /\ chunk_buf' \in [Instances -> Seq(Nat) \cup {NULL}]
        /\ chunk_buf'[i] \in Seq(Nat) /\ Len(chunk_buf'[i]) = chunk_size(i)
    <2>1. arg[i] \in Requests[i]
      BY DEF Rewind, CallInv
    <2>2. data_size(i) \in Nat /\ chunk_size(i) \in Nat
      BY <2>1, SizeFacts
    <2>3. ZeroBuffer(chunk_size(i)) \in Seq(Nat) /\ Len(ZeroBuffer(chunk_size(i))) = chunk_size(i)
      BY <2>2 DEF ZeroBuffer
    <2>4. PICK z \in Seq(Nat) : z = ZeroBuffer(chunk_size(i)) /\ Len(z) = chunk_size(i)
      BY <2>3
    <2>5. chunk_buf' = [chunk_buf EXCEPT ![i] = z]
      BY <2>4 DEF Rewind
    <2>6. chunk_buf'[i] = z /\ chunk_buf' \in [Instances -> Seq(Nat) \cup {NULL}]
      BY <2>5 DEF TypeInv
    <2>7. remain' \in [Instances -> Nat]
      BY <2>2 DEF Rewind, TypeInv
    <2> QED
      BY <2>1, <2>2, <2>4, <2>6, <2>7
  <1>1. TypeInv'
    BY <1>0, <1>a DEF TypeInv, Rewind, Labels
  <1>2. CallInv(i)'
    BY <1>0, <1>a DEF TypeInv, CallInv, chunk_size, Outside, Rewind, Labels
  <1>3. HandleInv(i)'
    BY <1>0, <1>a DEF TypeInv, HandleInv, OpenHandles, Data, Holding, ChunkLength, chunk_size, Rewind, Labels
  <1>4. ResultInv(i)'
    BY <1>0 DEF TypeInv, ResultInv, Testing, Rewind, Labels
  <1>5. /\ object'[i] # NULL => object[i] # NULL \/ \A j \in Instances : object[j] = NULL
        /\ \/ object'[i] # NULL \/ pc'[i] = "open" \/ left' \/ store'[File] = NULL
           \/ /\ object[i] = NULL /\ pc[i] # "open"
              /\ store'[File] = store[File] /\ left' = left
    BY <1>0 DEF TypeInv, HandleInv, Holding, Rewind, Labels
  <1> QED
    BY <1>1, <1>2, <1>3, <1>4, <1>5 DEF OwnStep, OwnInv

\* The end of a test.
LEMMA TestDoneOwn ==
    ASSUME Ownership, NEW i \in Instances, TestDone(i)
    PROVE  OwnStep(i)
  <1> USE DEF Ownership
  <1>1. TypeInv'
    BY DEF TypeInv, TestDone, teeVars, localVars, Goto, Labels
  <1>2. CallInv(i)'
    BY DEF TypeInv, CallInv, chunk_size, Outside, TestDone, teeVars, localVars, Goto, Labels
  <1>3. HandleInv(i)'
    BY DEF TypeInv, HandleInv, OpenHandles, Data, Holding, ChunkLength, chunk_size, TestDone, teeVars, localVars, Goto, Labels
  <1>4. ResultInv(i)'
    BY DEF TypeInv, ResultInv, Testing, TestDone, teeVars, localVars, Goto, Labels
  <1>5. /\ object'[i] # NULL => object[i] # NULL \/ \A j \in Instances : object[j] = NULL
        /\ \/ object'[i] # NULL \/ pc'[i] = "open" \/ left' \/ store'[File] = NULL
           \/ /\ object[i] = NULL /\ pc[i] # "open"
              /\ store'[File] = store[File] /\ left' = left
    BY DEF TypeInv, HandleInv, Holding, TestDone, teeVars, localVars, Goto, Labels
  <1> QED
    BY <1>1, <1>2, <1>3, <1>4, <1>5 DEF OwnStep, OwnInv

\* The end of the verification.
LEMMA VerifyDoneOwn ==
    ASSUME Ownership, NEW i \in Instances, VerifyDone(i)
    PROVE  OwnStep(i)
  <1> USE DEF Ownership
  <1>1. TypeInv'
    BY DEF TypeInv, VerifyDone, teeVars, localVars, Goto, Labels
  <1>2. CallInv(i)'
    BY DEF TypeInv, CallInv, chunk_size, Outside, VerifyDone, teeVars, localVars, Goto, Labels
  <1>3. HandleInv(i)'
    BY DEF TypeInv, HandleInv, OpenHandles, Data, Holding, ChunkLength, chunk_size, VerifyDone, teeVars, localVars, Goto, Labels
  <1>4. ResultInv(i)'
    BY DEF TypeInv, ResultInv, Testing, VerifyDone, teeVars, localVars, Goto, Labels
  <1>5. /\ object'[i] # NULL => object[i] # NULL \/ \A j \in Instances : object[j] = NULL
        /\ \/ object'[i] # NULL \/ pc'[i] = "open" \/ left' \/ store'[File] = NULL
           \/ /\ object[i] = NULL /\ pc[i] # "open"
              /\ store'[File] = store[File] /\ left' = left
    BY DEF TypeInv, HandleInv, Holding, VerifyDone, teeVars, localVars, Goto, Labels
  <1> QED
    BY <1>1, <1>2, <1>3, <1>4, <1>5 DEF OwnStep, OwnInv

\* The file of prepare_test_file is closed.
LEMMA CloseOwn ==
    ASSUME Ownership, NEW i \in Instances, CloseFile(i)
    PROVE  OwnStep(i)
  <1> USE DEF Ownership
  <1>0. /\ DOMAIN ret' = Instances
        /\ object' = [object EXCEPT ![i] = NULL]
        /\ OpenHandles(i)' = {}
        /\ handles' \in [Instances -> [HandleIds -> FileHandles \cup {NULL}]]
        /\ store' = store
        /\ pc' = [pc EXCEPT ![i] = IF res[i] = "SUCCESS" THEN "open" ELSE "free"]
    <2>1. CASE handles' = handles /\ object[i] = NULL
      <3>1. OpenHandles(i)' = {}
        BY <2>1 DEF OpenHandles, HandleInv
      <3>2. handles' \in [Instances -> [HandleIds -> FileHandles \cup {NULL}]]
        BY <2>1 DEF TypeInv
      <3> QED
        BY <2>1, <3>1, <3>2, CloseEffect
    <2>2. CASE handles' = [handles EXCEPT ![i][object[i]] = NULL] /\ object[i] # NULL
      <3>1. handles' \in [Instances -> [HandleIds -> FileHandles \cup {NULL}]]
        BY <2>2 DEF TypeInv
      <3>2. object[i] \in HandleIds /\ OpenHandles(i) = {object[i]}
        BY <2>2 DEF TypeInv, HandleInv
      <3>3. \A g \in HandleIds : handles'[i][g] = IF g = object[i] THEN NULL ELSE handles[i][g]
        BY <2>2, <3>2 DEF TypeInv
      <3>4. OpenHandles(i)' = {}
        BY <3>2, <3>3 DEF OpenHandles
      <3> QED
        BY <2>2, <3>1, <3>4, CloseEffect
    <2> QED
      BY <2>1, <2>2, CloseEffect
  <1>1. TypeInv'
    BY <1>0 DEF TypeInv, CloseFile, Labels, ResultInv
  <1>2. CallInv(i)'
    BY <1>0, CloseEffect DEF TypeInv, CallInv, chunk_size, Outside, CloseFile, Labels, ResultInv
  <1>3. HandleInv(i)'
    BY <1>0 DEF TypeInv, HandleInv, OpenHandles, Data, Holding, ChunkLength, chunk_size, CloseFile, Labels, ResultInv
  <1>4. ResultInv(i)'
    BY <1>0 DEF TypeInv, ResultInv, Testing, CloseFile, Labels, ResultInv
  <1>5. /\ object'[i] # NULL => object[i] # NULL \/ \A j \in Instances : object[j] = NULL
        /\ \/ object'[i] # NULL \/ pc'[i] = "open" \/ left' \/ store'[File] = NULL
           \/ /\ object[i] = NULL /\ pc[i] # "open"
              /\ store'[File] = store[File] /\ left' = left
    BY <1>0, <1>4 DEF TypeInv, HandleInv, Holding, CloseFile, Labels, ResultInv
  <1> QED
    BY <1>1, <1>2, <1>3, <1>4, <1>5 DEF OwnStep, OwnInv

\* The file is removed at the end of a command.
LEMMA RemoveOwn ==
    ASSUME Ownership, NEW i \in Instances, RemoveFile(i)
    PROVE  OwnStep(i)
  <1> USE DEF Ownership
  <1>0. /\ DOMAIN ret' = Instances
        /\ object' = [object EXCEPT ![i] = NULL]
        /\ OpenHandles(i)' = {}
        /\ handles' \in [Instances -> [HandleIds -> FileHandles \cup {NULL}]]
        /\ pc' = [pc EXCEPT ![i] = "free"]
        /\ store' \in [Objects -> FileContents \cup {NULL}]
        /\ left' \in BOOLEAN
        /\ \/ object[i] = NULL /\ store' = store /\ left' = left
           \/ left' = TRUE
           \/ store'[File] = NULL
    <2>0. /\ store' \in [Objects -> FileContents \cup {NULL}]
          /\ left' \in BOOLEAN
          /\ \/ object[i] = NULL /\ store' = store /\ left' = left
             \/ left' = TRUE
             \/ store'[File] = NULL
      BY RemoveEffect, BenchmarkAssumption DEF TypeInv
    <2>1. CASE handles' = handles /\ object[i] = NULL
      <3>1. OpenHandles(i)' = {}
        BY <2>1 DEF OpenHandles, HandleInv
      <3>2. handles' \in [Instances -> [HandleIds -> FileHandles \cup {NULL}]]
        BY <2>1 DEF TypeInv
      <3> QED
        BY <2>0, <2>1, <3>1, <3>2, RemoveEffect
    <2>2. CASE handles' = [handles EXCEPT ![i][object[i]] = NULL] /\ object[i] # NULL
      <3>1. handles' \in [Instances -> [HandleIds -> FileHandles \cup {NULL}]]
        BY <2>2 DEF TypeInv
      <3>2. object[i] \in HandleIds /\ OpenHandles(i) = {object[i]}
        BY <2>2 DEF TypeInv, HandleInv
      <3>3. \A g \in HandleIds : handles'[i][g] = IF g = object[i] THEN NULL ELSE handles[i][g]
        BY <2>2, <3>2 DEF TypeInv
      <3>4. OpenHandles(i)' = {}
        BY <3>2, <3>3 DEF OpenHandles
      <3> QED
        BY <2>0, <2>2, <3>1, <3>4, RemoveEffect
    <2> QED
      BY <2>0, <2>1, <2>2, RemoveEffect
  <1>1. TypeInv'
    BY <1>0 DEF TypeInv, RemoveFile, Labels
  <1>2. CallInv(i)'
    BY <1>0 DEF TypeInv, CallInv, chunk_size, Outside, RemoveFile, Labels
  <1>3. HandleInv(i)'
    BY <1>0 DEF TypeInv, HandleInv, OpenHandles, Data, Holding, ChunkLength, chunk_size, RemoveFile, Labels
  <1>4. ResultInv(i)'
    BY <1>0 DEF TypeInv, ResultInv, Testing, RemoveFile, Labels
  <1>5. /\ object'[i] # NULL => object[i] # NULL \/ \A j \in Instances : object[j] = NULL
        /\ \/ object'[i] # NULL \/ pc'[i] = "open" \/ left' \/ store'[File] = NULL
           \/ /\ object[i] = NULL /\ pc[i] # "open"
              /\ store'[File] = store[File] /\ left' = left
    BY <1>0 DEF TypeInv, HandleInv, Holding, RemoveFile, Labels
  <1> QED
    BY <1>1, <1>2, <1>3, <1>4, <1>5 DEF OwnStep, OwnInv

\* The chunk buffer is freed.
LEMMA FreeOwn ==
    ASSUME Ownership, NEW i \in Instances, FreeChunk(i)
    PROVE  OwnStep(i)
  <1> USE DEF Ownership
  <1>1. TypeInv'
    BY DEF TypeInv, FreeChunk, teeVars, Goto, Labels, Args
  <1>2. CallInv(i)'
    BY DEF TypeInv, CallInv, chunk_size, Outside, FreeChunk, teeVars, Goto, Labels, Args
  <1>3. HandleInv(i)'
    BY DEF TypeInv, HandleInv, OpenHandles, Data, Holding, ChunkLength, chunk_size, FreeChunk, teeVars, Goto, Labels, Args
  <1>4. ResultInv(i)'
    BY DEF TypeInv, ResultInv, Testing, FreeChunk, teeVars, Goto, Labels, Args
  <1>5. /\ object'[i] # NULL => object[i] # NULL \/ \A j \in Instances : object[j] = NULL
        /\ \/ object'[i] # NULL \/ pc'[i] = "open" \/ left' \/ store'[File] = NULL
           \/ /\ object[i] = NULL /\ pc[i] # "open"
              /\ store'[File] = store[File] /\ left' = left
    BY DEF TypeInv, HandleInv, Holding, FreeChunk, teeVars, Goto, Labels, Args
  <1> QED
    BY <1>1, <1>2, <1>3, <1>4, <1>5 DEF OwnStep, OwnInv

\* The command returns.
LEMMA ReturnOwn ==
    ASSUME Ownership, NEW i \in Instances, Return(i)
    PROVE  OwnStep(i)
  <1> USE DEF Ownership
  <1>1. TypeInv'
    BY DEF TypeInv, Return, teeVars, Goto, Labels, Args
  <1>2. CallInv(i)'
    BY DEF TypeInv, CallInv, chunk_size, Outside, Return, teeVars, Goto, Labels, Args
  <1>3. HandleInv(i)'
    BY DEF TypeInv, HandleInv, OpenHandles, Data, Holding, ChunkLength, chunk_size, Return, teeVars, Goto, Labels, Args
  <1>4. ResultInv(i)'
    BY DEF TypeInv, ResultInv, Testing, Return, teeVars, Goto, Labels, Args
  <1>5. /\ object'[i] # NULL => object[i] # NULL \/ \A j \in Instances : object[j] = NULL
        /\ \/ object'[i] # NULL \/ pc'[i] = "open" \/ left' \/ store'[File] = NULL
           \/ /\ object[i] = NULL /\ pc[i] # "open"
              /\ store'[File] = store[File] /\ left' = left
    BY DEF TypeInv, HandleInv, Holding, Return, teeVars, Goto, Labels, Args
  <1> QED
    BY <1>1, <1>2, <1>3, <1>4, <1>5 DEF OwnStep, OwnInv

\* No step of one session touches what another one has: its handle, its variables and,
\* while it has the file open, the file.
LEMMA OthersKept ==
    ASSUME Ownership, NEW i \in Instances, Invoke(i) \/ TaStep(i), NEW j \in Instances \ {i}
    PROVE  Kept(j)
  <1> USE DEF Ownership, TypeInv, Kept
  <1>0. object[i] # NULL => object[j] = NULL
    BY DEF Exclusive
  <1>1. CASE Invoke(i)
    BY <1>1 DEF Invoke, teeVars, localVars, Goto
  <1>2. CASE ta_storage_benchmark_cmd_handler(i)
    BY <1>2 DEF ta_storage_benchmark_cmd_handler, teeVars, Goto
  <1>3. CASE AllocateChunk(i)
    BY <1>3 DEF AllocateChunk, LocalCall, Returns, Keep, After, Goto
  <1>4. CASE CreateFile(i)
    <2>1. pc'[j] = pc[j] /\ arg'[j] = arg[j] /\ chunk_buf'[j] = chunk_buf[j] /\ opened'[j] = opened[j]
      BY <1>4, CreateEffect DEF CreateFile
    <2>2. CASE NotOpened(i)
      <3>1. left => left'
        BY <1>4, <2>2 DEF CreateFile, NotOpened
      <3> QED
        BY <2>1, <2>2, <3>1 DEF NotOpened
    <2>3. CASE \E h \in HandleIds : OpenedAt(i, h, EmptyFile)
      <3>1. PICK h \in HandleIds : OpenedAt(i, h, EmptyFile)
        BY <2>3
      <3> QED
        BY <2>1, <3>1 DEF OpenedAt
    <2> QED
      BY <1>4, <2>2, <2>3, CreateEffect
  <1>5. CASE FillFile(i)
    <2>1. object[i] # NULL /\ pc[i] \notin Outside
      BY <1>5 DEF FillFile, HandleInv, Holding, Outside, InTest
    <2>2. /\ handles' = handles
          /\ pos'[j] = pos[j] /\ remain'[j] = remain[j]
      BY <1>5, <2>1, WriteFacts DEF FillFile
    <2>3. left => left'
      BY <1>5 DEF FillFile
    <2> QED
      BY <1>0, <1>5, <2>1, <2>2, <2>3 DEF FillFile, Keep, After, Goto
  <1>6. CASE CloseFile(i)
    BY <1>0, <1>6, CloseEffect DEF CloseFile
  <1>7. CASE OpenFile(i)
    <2>1. pc'[j] = pc[j] /\ arg'[j] = arg[j] /\ chunk_buf'[j] = chunk_buf[j] /\ opened'[j] = opened[j]
      <3> HIDE DEF Ownership, TypeInv
      <3>1. /\ pc' = [pc EXCEPT ![i] = "remove"] \/ pc' = [pc EXCEPT ![i] = "test"]
            /\ opened' = opened \/ opened' = [opened EXCEPT ![i] = Data]
        BY <1>7, OpenEffect
      <3>2. arg' = arg /\ chunk_buf' = chunk_buf
        BY <1>7 DEF OpenFile
      <3>3. DOMAIN pc = Instances /\ DOMAIN opened = Instances
        BY DEF Ownership, TypeInv
      <3> QED
        BY <3>1, <3>2, <3>3
    <2>2. CASE NotOpened(i)
      <3>1. left => left'
        BY <1>7, <2>2 DEF OpenFile, NotOpened
      <3> QED
        BY <2>1, <2>2, <3>1 DEF NotOpened
    <2>3. CASE \E h \in HandleIds : OpenedAt(i, h, store[File])
      <3>1. PICK h \in HandleIds : OpenedAt(i, h, store[File])
        BY <2>3
      <3> QED
        BY <2>1, <3>1 DEF OpenedAt
    <2> QED
      BY <1>7, <2>2, <2>3, OpenEffect
  <1>8. CASE test_write(i)
    <2>1. object[i] # NULL /\ pc[i] \notin Outside
      BY <1>8 DEF test_write, HandleInv, Holding, Outside, InTest
    <2>2. /\ handles' = handles
          /\ pos'[j] = pos[j] /\ remain'[j] = remain[j]
      BY <1>8, <2>1, WriteFacts DEF test_write
    <2>3. left => left'
      BY <1>8 DEF test_write
    <2> QED
      BY <1>0, <1>8, <2>1, <2>2, <2>3 DEF test_write, Keep, After, Goto, InTest
  <1>9. CASE test_read(i)
    <2>1. object[i] # NULL /\ pc[i] \notin Outside /\ arg[i] \in Requests[i]
      BY <1>9 DEF test_read, HandleInv, CallInv, Holding, Outside, InTest
    <2>2. ChunkLength(i) \in Nat /\ ChunkLength(i) <= chunk_size(i)
      BY <2>1, SizeFacts, ChunkFacts
    <2>3. CASE ReadFails(i) /\ UNCHANGED <<chunk_buf, pos, remain>>
      BY <1>9, <2>3 DEF test_read, Keep, After, Goto, InTest, Consume, ReadFails, Fails
    <2>4. CASE ReadInto(i, ChunkLength(i))
      <3>1. /\ handles' = handles /\ store' = store
            /\ pos'[j] = pos[j] /\ chunk_buf'[j] = chunk_buf[j]
        BY <2>1, <2>2, <2>4, ReadFacts
      <3>2. remain'[j] = remain[j]
        BY <1>9 DEF test_read, Consume
      <3> QED
        BY <1>9, <3>1, <3>2 DEF test_read, Keep, After, Goto, InTest, Consume
    <2> QED
      BY <1>9, <2>3, <2>4 DEF test_read
  <1>10. CASE RewriteRead(i)
    <2>1. object[i] # NULL /\ pc[i] \notin Outside /\ arg[i] \in Requests[i]
      BY <1>10 DEF RewriteRead, HandleInv, CallInv, Holding, Outside, InTest
    <2>2. ChunkLength(i) \in Nat /\ ChunkLength(i) <= chunk_size(i)
      BY <2>1, SizeFacts, ChunkFacts
    <2>3. CASE ReadFails(i) /\ UNCHANGED <<chunk_buf, pos, remain>>
      BY <1>10, <2>3 DEF RewriteRead, Keep, After, Goto, InTest, ReadFails, Fails
    <2>4. CASE ReadInto(i, ChunkLength(i))
      <3>1. /\ handles' = handles /\ store' = store
            /\ pos'[j] = pos[j] /\ chunk_buf'[j] = chunk_buf[j]
        BY <2>1, <2>2, <2>4, ReadFacts
      <3>2. remain'[j] = remain[j]
        BY <1>10 DEF RewriteRead, Consume
      <3> QED
        BY <1>10, <3>1, <3>2 DEF RewriteRead, Keep, After, Goto, InTest
    <2> QED
      BY <1>10, <2>3, <2>4 DEF RewriteRead
  <1>11. CASE RewriteSeek(i)
    <2>1. object[i] # NULL
      BY <1>11 DEF RewriteSeek, HandleInv, Holding, InTest
    <2>2. PICK q : SeekTo(i, q, "write_back")
      BY <1>11 DEF RewriteSeek
    <2>3. /\ handles' = handles /\ store' = store
          /\ pos'[j] = pos[j] /\ res'[j] = res[j] /\ pc'[j] = pc[j]
      <3> HIDE DEF Ownership, TypeInv
      <3>1. TypeInv /\ HandleInv(i)
        BY DEF Ownership
      <3>2. PICK r, l : /\ handles' = handles /\ store' = store
                        /\ pos' = [pos EXCEPT ![i] = q] \/ pos' = pos
                        /\ res' = [res EXCEPT ![i] = r] /\ pc' = [pc EXCEPT ![i] = l]
        BY <2>1, <2>2, <3>1, SeekEffect
      <3> QED
        BY <3>1, <3>2 DEF TypeInv
    <2> QED
      BY <1>11, <2>3 DEF RewriteSeek
  <1>12. CASE RewriteWrite(i)
    <2>1. object[i] # NULL /\ pc[i] \notin Outside
      BY <1>12 DEF RewriteWrite, HandleInv, Holding, Outside, InTest
    <2>2. /\ handles' = handles
          /\ pos'[j] = pos[j] /\ remain'[j] = remain[j]
      BY <1>12, <2>1, WriteFacts DEF RewriteWrite
    <2>3. left => left'
      BY <1>12 DEF RewriteWrite
    <2> QED
      BY <1>0, <1>12, <2>1, <2>2, <2>3 DEF RewriteWrite, Keep, After, Goto, InTest
  <1>13. CASE TestDone(i)
    BY <1>13 DEF TestDone, teeVars, localVars, Goto
  <1>14. CASE Rewind(i)
    <2>1. object[i] # NULL
      BY <1>14 DEF Rewind, HandleInv, Holding, InTest
    <2>2. PICK q : SeekTo(i, q, "verify")
      BY <1>14 DEF Rewind
    <2>3. /\ handles' = handles /\ store' = store
          /\ pos'[j] = pos[j] /\ res'[j] = res[j] /\ pc'[j] = pc[j]
      <3> HIDE DEF Ownership, TypeInv
      <3>1. TypeInv /\ HandleInv(i)
        BY DEF Ownership
      <3>2. PICK r, l : /\ handles' = handles /\ store' = store
                        /\ pos' = [pos EXCEPT ![i] = q] \/ pos' = pos
                        /\ res' = [res EXCEPT ![i] = r] /\ pc' = [pc EXCEPT ![i] = l]
        BY <2>1, <2>2, <3>1, SeekEffect
      <3> QED
        BY <3>1, <3>2 DEF TypeInv
    <2> QED
      BY <1>14, <2>3 DEF Rewind
  <1>15. CASE VerifyChunk(i)
    <2>1. object[i] # NULL /\ pc[i] \notin Outside /\ arg[i] \in Requests[i]
      BY <1>15 DEF VerifyChunk, HandleInv, CallInv, Holding, Outside, InTest
    <2>2. chunk_size(i) \in Nat /\ chunk_size(i) <= chunk_size(i)
      BY <2>1, SizeFacts, ChunkFacts
    <2>3. CASE ReadFails(i) /\ UNCHANGED <<chunk_buf, pos, remain>>
      BY <1>15, <2>3 DEF VerifyChunk, Keep, After, Goto, ReadFails, Fails
    <2>4. CASE ReadInto(i, chunk_size(i))
      <3>1. /\ handles' = handles /\ store' = store
            /\ pos'[j] = pos[j] /\ chunk_buf'[j] = chunk_buf[j]
        BY <2>1, <2>2, <2>4, ReadFacts
      <3>2. remain'[j] = remain[j]
        BY <1>15 DEF VerifyChunk, Consume
      <3> QED
        BY <1>15, <3>1, <3>2 DEF VerifyChunk, Keep, After, Goto
    <2> QED
      BY <1>15, <2>3, <2>4 DEF VerifyChunk
  <1>16. CASE VerifyDone(i)
    BY <1>16 DEF VerifyDone, teeVars, localVars, Goto
  <1>17. CASE RemoveFile(i)
    <2>1. /\ object' = [object EXCEPT ![i] = NULL] /\ pc' = [pc EXCEPT ![i] = "free"]
          /\ \/ handles' = handles /\ store' = store /\ left' = left
             \/ /\ object[i] # NULL
                /\ handles' = [handles EXCEPT ![i][object[i]] = NULL]
                /\ \/ store' = [store EXCEPT ![File] = NULL] /\ left' = FALSE
                   \/ store' = store /\ left' = TRUE
      <3> HIDE DEF Ownership, TypeInv, Kept
      <3> QED
        BY <1>17, RemoveEffect
    <2>2. UNCHANGED <<arg, chunk_buf, remain, pos, res, opened>>
      BY <1>17 DEF RemoveFile
    <2> QED
      BY <1>0, <2>1, <2>2
  <1>18. CASE FreeChunk(i)
    BY <1>18 DEF FreeChunk, teeVars, Goto
  <1>19. CASE Return(i)
    BY <1>19 DEF Return, Goto
  <1> QED
    BY <1>1, <1>2, <1>3, <1>4, <1>5, <1>6, <1>7, <1>8, <1>9, <1>10, <1>11, <1>12, <1>13, <1>14, <1>15, <1>16, <1>17, <1>18, <1>19
       DEF TaStep, test_rewrite, verify_file_data

\* The session that takes a step keeps its part of the invariant.
LEMMA OwnSteps ==
    ASSUME Ownership, NEW i \in Instances, Invoke(i) \/ TaStep(i)
    PROVE  OwnStep(i)
  BY InvokeOwn, HandlerOwn, AllocateOwn, CreateOwn, FillOwn, CloseOwn, OpenOwn,
     WriteOwn, ReadOwn, RewriteReadOwn, RewriteSeekOwn, RewriteWriteOwn, TestDoneOwn,
     RewindOwn, VerifyOwn, VerifyDoneOwn, RemoveOwn, FreeOwn, ReturnOwn
     DEF TaStep, test_rewrite, verify_file_data

\* A session that nothing touched keeps its part of the invariant.
LEMMA KeptInv ==
    ASSUME Ownership, TypeInv', NEW j \in Instances, Kept(j)
    PROVE  OwnInv(j)'
  <1> USE DEF Ownership, Kept
  <1>1. CallInv(j)'
    BY DEF CallInv, chunk_size
  <1>2. HandleInv(j)'
    <2>1. OpenHandles(j)' = OpenHandles(j)
      BY DEF OpenHandles
    <2>2. object[j] # NULL => Data' = Data
      BY DEF Data
    <2>3. ChunkLength(j)' = ChunkLength(j)
      BY DEF ChunkLength, chunk_size
    <2> QED
      BY <2>1, <2>2, <2>3 DEF HandleInv
  <1>3. ResultInv(j)'
    BY DEF ResultInv, HandleInv, Holding
  <1> QED
    BY <1>1, <1>2, <1>3 DEF OwnInv

\* Every step of a session keeps Ownership.
LEMMA OwnershipStep ==
    ASSUME Ownership, NEW i \in Instances, Invoke(i) \/ TaStep(i)
    PROVE  Ownership'
  <1>1. OwnStep(i) /\ \A j \in Instances \ {i} : Kept(j)
    BY OwnSteps, OthersKept
  <1>2. TypeInv' /\ \A j \in Instances : OwnInv(j)'
    BY <1>1, KeptInv DEF OwnStep
  <1>3. \A j \in Instances \ {i} : object'[j] = object[j]
    BY <1>1 DEF Kept
  <1>4. Exclusive'
    BY <1>1, <1>3 DEF OwnStep, Exclusive, Ownership
  <1>5. LeftInv'
    <2>1. SUFFICES ASSUME store'[File] # NULL, ~left'
                   PROVE  \E j \in Instances : object'[j] # NULL \/ pc'[j] = "open"
      BY DEF LeftInv, Present
    <2>2. CASE object'[i] # NULL \/ pc'[i] = "open"
      BY <2>2
    <2>3. CASE /\ object[i] = NULL /\ pc[i] # "open"
               /\ store'[File] = store[File] /\ left' = left
      <3>1. store[File] # NULL /\ ~left
        BY <2>1, <2>3
      <3>2. PICK j \in Instances : object[j] # NULL \/ pc[j] = "open"
        BY <3>1, BenchmarkAssumption DEF Ownership, LeftInv, Present
      <3>3. j # i
        BY <2>3, <3>2
      <3>4. object'[j] = object[j] /\ pc'[j] = pc[j]
        BY <1>1, <3>3 DEF Kept
      <3> QED
        BY <3>2, <3>4
    <2> QED
      BY <1>1, <2>1, <2>2, <2>3 DEF OwnStep
  <1> QED
    BY <1>2, <1>4, <1>5 DEF Ownership, OwnInv

\* After a restart no session has anything, and the file may be left behind.
LEMMA OwnershipRestart ==
    ASSUME Ownership, Restart
    PROVE  Ownership'
  <1> USE DEF Restart
  <1>1. TypeInv'
    BY DEF Ownership, TypeInv, Labels, Args
  <1>2. \A i \in Instances : OwnInv(i)'
    BY DEF OwnInv, CallInv, HandleInv, ResultInv, Outside, Holding, Testing, OpenHandles
  <1>3. Exclusive' /\ LeftInv'
    BY DEF Exclusive, LeftInv
  <1> QED
    BY <1>1, <1>2, <1>3 DEF Ownership, OwnInv

\* Ownership holds whatever sessions and restarts do, for every set of sessions, every
\* request and every size of a size_t.
THEOREM BenchmarkOwnership == Spec => []Ownership
  <1>1. Init => Ownership
    <2> SUFFICES ASSUME Init PROVE Ownership
      OBVIOUS
    <2> USE DEF Init, InstanceInit, StorageInit
    <2>1. TypeInv
      BY DEF TypeInv, Labels, Args
    <2>2. \A i \in Instances : OwnInv(i)
      BY DEF OwnInv, CallInv, HandleInv, ResultInv, Outside, Holding, Testing, OpenHandles
    <2>3. Exclusive /\ LeftInv
      BY DEF Exclusive, LeftInv, Present
    <2> QED
      BY <2>1, <2>2, <2>3 DEF Ownership, OwnInv
  <1>2. Ownership /\ [Next]_vars => Ownership'
    <2> SUFFICES ASSUME Ownership, [Next]_vars PROVE Ownership'
      OBVIOUS
    <2>1. CASE Next
      BY <2>1, OwnershipStep, OwnershipRestart DEF Next
    <2>2. CASE UNCHANGED vars
      BY <2>2 DEF vars, teeVars, callVars, localVars, Ownership, TypeInv, CallInv, HandleInv,
                  ResultInv, Exclusive, LeftInv, OpenHandles, Present, Data, ChunkLength,
                  chunk_size, OrDefault
    <2> QED
      BY <2>1, <2>2
  <1> QED
    BY <1>1, <1>2, PTL DEF Spec

\* NothingLeftBehind: a command returns with its handle closed and its buffer freed, and
\* a file outlives the commands only when a call of the storage failed or the device was
\* restarted (the exits of prepare_test_file and ta_storage_benchmark_chunk_access_test).
THEOREM BenchmarkNothingLeft == Spec => []NothingLeftBehind
  <1>1. Ownership => NothingLeftBehind
    <2> SUFFICES ASSUME Ownership PROVE NothingLeftBehind
      OBVIOUS
    <2>1. ASSUME NEW i \in Instances
          PROVE  /\ OpenHandles(i) = {object[i]} \ {NULL}
                 /\ object[i] # NULL => pos[i] \in 0 .. Len(store[File].data)
                 /\ pc[i] \in {"idle", "return"} => object[i] = NULL /\ chunk_buf[i] = NULL
      <3>1. object[i] # NULL => pos[i] \in 0 .. Len(store[File].data)
        BY HeldFacts DEF Ownership, Data
      <3> QED
        BY <3>1 DEF Ownership, HandleInv, CallInv, Outside, Holding
    <2>2. ASSUME File \in Present, \A i \in Instances : pc[i] = "idle"
          PROVE  left
      BY <2>2 DEF Ownership, LeftInv, HandleInv, Holding
    <2> QED
      BY <2>1, <2>2 DEF NothingLeftBehind
  <1> QED
    BY <1>1, BenchmarkOwnership, PTL

\* LeftoverOverwritten: creation is refused only while another session has the file open,
\* since the flags of prepare_test_file replace a file that is there.
THEOREM BenchmarkLeftover == Spec => LeftoverOverwritten
  <1>1. Ownership /\ [Next]_vars =>
            [\A i \in Instances :
                (pc[i] = "create" /\ pc'[i] = "free" /\ ret'[i].res = "ACCESS_CONFLICT") =>
                    \E j \in Instances \ {i} : OpenHandles(j) # {}]_vars
    <2> SUFFICES ASSUME Ownership, Next, NEW i \in Instances,
                        pc[i] = "create", pc'[i] = "free", ret'[i].res = "ACCESS_CONFLICT"
                 PROVE  \E j \in Instances \ {i} : OpenHandles(j) # {}
      OBVIOUS
    <2>1. ~Restart
      BY DEF Restart
    <2>2. PICK k \in Instances : Invoke(k) \/ TaStep(k)
      BY <2>1 DEF Next
    <2>3. k = i
      BY <2>2, OthersKept DEF Kept
    <2>4. CreateFile(i)
      BY <2>2, <2>3 DEF Invoke, TaStep, ta_storage_benchmark_cmd_handler, AllocateChunk, FillFile,
         CloseFile, OpenFile, test_write, test_read, test_rewrite, RewriteRead, RewriteSeek,
         RewriteWrite, TestDone, verify_file_data, Rewind, VerifyChunk, VerifyDone, RemoveFile,
         FreeChunk, Return, InTest
    <2>5. OpenHandles(i) = {}
      BY DEF Ownership, HandleInv, Holding
    <2>6. Refuses(File, CreateFlags)
      <3>1. \/ CannotCreate(i, File, CreateFlags)
            \/ NewHandle(i, File, CreateFlags, EmptyFile)
        BY <2>4 DEF CreateFile, TEE_CreatePersistentObject
      <3>2. ~NewHandle(i, File, CreateFlags, EmptyFile)
        BY DEF NewHandle, Returns, Ownership, TypeInv
      <3>3. ~Fails(i, "STORAGE_NO_SPACE")
        BY DEF Fails, Returns, Ownership, TypeInv
      <3> QED
        BY <3>1, <3>2, <3>3 DEF CannotCreate
    <2>7. AccessConflict(File, CreateFlags)
      BY <2>6 DEF Refuses, CreateFlags, AccessFlags
    <2> QED
      BY <2>5, <2>7 DEF AccessConflict
  <1> QED
    BY <1>1, BenchmarkOwnership, PTL DEF Spec, LeftoverOverwritten

-----------------------------------------------------------------------------
(***************************************************************************)
(* Progress: how far a command has come, and what it has in its buffer.       *)
(***************************************************************************)
Moving == {"fill", "test", "seek_back", "write_back"}

\* A session that nothing touched is where it was.
LEMMA ProgressKept ==
    ASSUME Ownership, NEW j \in Instances, ProgressInv(j), Kept(j)
    PROVE  ProgressInv(j)'
  <1>1. pc[j] \in {"seek_back", "write_back"} => object[j] # NULL
    BY DEF Ownership, HandleInv, Holding
  <1>2. object[j] # NULL => Data' = Data
    BY DEF Kept, Data
  <1>3. /\ data_size(j)' = data_size(j) /\ ChunkLength(j)' = ChunkLength(j)
        /\ pc'[j] = pc[j] /\ pos'[j] = pos[j] /\ remain'[j] = remain[j] /\ arg'[j] = arg[j]
        /\ opened'[j] = opened[j] /\ object'[j] = object[j] /\ chunk_buf'[j] = chunk_buf[j]
    BY DEF Kept, ChunkLength, chunk_size, data_size
  <1> QED
    BY <1>1, <1>2, <1>3 DEF ProgressInv, Holds

\* So is one whose command is not, or no longer, going through the file.
LEMMA ProgressQuiet ==
    ASSUME NEW i \in Instances, ProgressInv(i), pc'[i] \notin Moving,
           \/ opened'[i] = NULL \/ object'[i] = NULL
           \/ /\ opened'[i] = opened[i] /\ object[i] # NULL
              /\ arg'[i] = arg[i] /\ Data' = Data
    PROVE  ProgressInv(i)'
  BY DEF ProgressInv, Moving

\* The steps that do not go on in the file.
LEMMA ProgressAround ==
    ASSUME Ownership, NEW i \in Instances, ProgressInv(i),
           \/ Invoke(i) \/ ta_storage_benchmark_cmd_handler(i) \/ AllocateChunk(i)
           \/ CloseFile(i) \/ TestDone(i) \/ Rewind(i) \/ VerifyChunk(i) \/ VerifyDone(i)
           \/ RemoveFile(i) \/ FreeChunk(i) \/ Return(i)
    PROVE  ProgressInv(i)' /\ (store' = store \/ store'[File] = NULL)
  <1> USE DEF Ownership
  <1>1. CASE Invoke(i) \/ ta_storage_benchmark_cmd_handler(i) \/ AllocateChunk(i)
    <2>1. /\ store' = store /\ opened'[i] = NULL
          /\ pc'[i] \in {"start", "return", "create"}
      BY <1>1 DEF Invoke, ta_storage_benchmark_cmd_handler, AllocateChunk, LocalCall, Goto, teeVars,
                  localVars, TypeInv, ResultInv, Testing
    <2> QED
      BY <2>1, ProgressQuiet DEF Moving
  <1>2. CASE CloseFile(i)
    <2>1. /\ store' = store /\ object'[i] = NULL
          /\ pc'[i] \in {"open", "free"}
      BY <1>2, CloseEffect DEF TypeInv
    <2> QED
      BY <2>1, ProgressQuiet DEF Moving
  <1>3. CASE RemoveFile(i)
    <2>1. /\ store' = store \/ store'[File] = NULL
          /\ object'[i] = NULL
          /\ pc'[i] = "free"
      <3>1. object'[i] = NULL /\ pc'[i] = "free"
        <4>1. object' = [object EXCEPT ![i] = NULL] /\ pc' = [pc EXCEPT ![i] = "free"]
          <5> HIDE DEF Ownership
          <5> QED
            BY <1>3, RemoveEffect, Zenon
        <4>2. DOMAIN object = Instances /\ DOMAIN pc = Instances
          BY DEF TypeInv
        <4> QED
          BY <4>1, <4>2
      <3>2. store' = store \/ store' = [store EXCEPT ![File] = NULL]
        BY <1>3, RemoveEffect
      <3>3. store' = store \/ store'[File] = NULL
        BY <3>2, BenchmarkAssumption DEF TypeInv
      <3> QED
        BY <3>1, <3>3
    <2> QED
      BY <2>1, ProgressQuiet DEF Moving
  <1>4. CASE FreeChunk(i) \/ Return(i)
    <2>1. /\ store' = store /\ object'[i] = NULL
          /\ pc'[i] \in {"return", "idle"}
      BY <1>4 DEF FreeChunk, Return, Goto, teeVars, HandleInv, Holding, TypeInv
    <2> QED
      BY <2>1, ProgressQuiet DEF Moving
  <1>5. CASE TestDone(i) \/ VerifyDone(i) \/ Rewind(i) \/ VerifyChunk(i)
    <2>1. object[i] # NULL /\ pc[i] \notin Outside /\ arg[i] \in Requests[i]
      BY <1>5 DEF TestDone, VerifyDone, Rewind, VerifyChunk, HandleInv, Holding, Outside, CallInv
    <2>2. /\ opened' = opened /\ arg' = arg
          /\ pc'[i] \in {"rewind", "verify", "remove"}
      <3>1. CASE TestDone(i) \/ VerifyDone(i)
        BY <3>1 DEF TestDone, VerifyDone, Goto, localVars, TypeInv
      <3>2. CASE Rewind(i)
        <4>1. SeekTo(i, RewindPosition(i), "verify")
          BY <3>2 DEF Rewind
        <4>2. TypeInv /\ HandleInv(i)
          OBVIOUS
        <4>3. pc'[i] \in {"verify", "remove"}
          BY <2>1, <4>1, <4>2, SeekEffect DEF TypeInv
        <4> QED
          BY <3>2, <4>3 DEF Rewind
      <3>3. CASE VerifyChunk(i)
        <4>1. ret'[i].res \in {"SUCCESS", "STORAGE_NOT_AVAILABLE"}
          <5>1. chunk_size(i) \in Nat /\ chunk_size(i) <= chunk_size(i)
            BY <2>1, SizeFacts
          <5> QED
            BY <2>1, <3>3, <5>1, ReadFacts DEF VerifyChunk, ReadFails, Fails, Returns, TypeInv
        <4> QED
          BY <3>3, <4>1 DEF VerifyChunk, After, Goto, TypeInv
      <3> QED
        BY <1>5, <3>1, <3>2, <3>3
    <2>3. store' = store
      <3>1. CASE TestDone(i) \/ VerifyDone(i)
        BY <3>1 DEF TestDone, VerifyDone, teeVars
      <3>2. CASE Rewind(i)
        <4>1. PICK q : SeekTo(i, q, "verify")
          BY <3>2 DEF Rewind
        <4> QED
          BY <2>1, <4>1, SeekEffect
      <3>3. CASE VerifyChunk(i)
        <4>1. chunk_size(i) \in Nat /\ chunk_size(i) <= chunk_size(i)
          BY <2>1, SizeFacts
        <4> QED
          BY <2>1, <3>3, <4>1, ReadFacts DEF VerifyChunk, ReadFails, Fails
      <3> QED
        BY <1>5, <3>1, <3>2, <3>3
    <2>4. Data' = Data
      BY <2>3 DEF Data
    <2> QED
      BY <2>1, <2>2, <2>3, <2>4, ProgressQuiet DEF Moving
  <1> QED
    BY <1>1, <1>2, <1>3, <1>4, <1>5

\* What is in the file after a write that succeeded.
LEMMA Written ==
    ASSUME Ownership, NEW i \in Instances, object[i] # NULL, pc[i] \notin Outside,
           WriteFrom(i, ChunkLength(i)), ret'[i].res = "SUCCESS"
    PROVE  /\ Data \in Seq(Nat) /\ Data' \in Seq(Nat)
           /\ Len(Data') = IF Len(Data) >= pos[i] + ChunkLength(i) THEN Len(Data)
                           ELSE pos[i] + ChunkLength(i)
           /\ \A k \in 1 .. Len(Data') :
                  Data'[k] = IF k \in pos[i] + 1 .. pos[i] + ChunkLength(i)
                             THEN chunk_buf[i][k - pos[i]] ELSE Data[k]
           /\ pos'[i] = pos[i] + ChunkLength(i)
           /\ remain'[i] = remain[i] - ChunkLength(i)
  <1>0. TypeInv /\ HandleInv(i) /\ CallInv(i)
    BY DEF Ownership
  <1>1. PICK d \in Seq(Nat) : d = Data
    BY <1>0, HeldFacts
  <1>2. PICK q \in 0 .. Len(d) : q = pos[i]
    BY <1>0, <1>1, HeldFacts
  <1>3. PICK c \in Seq(Nat) : c = chunk_buf[i] /\ Len(c) = chunk_size(i)
    BY <1>0 DEF CallInv
  <1>4. PICK n \in 0 .. Len(c) : n = ChunkLength(i)
    <2>1. arg[i] \in Requests[i] /\ remain[i] \in Nat
      BY <1>0 DEF CallInv, Outside, TypeInv
    <2>2. ChunkLength(i) \in Nat /\ ChunkLength(i) <= chunk_size(i)
      BY <2>1, ChunkFacts
    <2>3. chunk_size(i) \in Nat
      BY <2>1, SizeFacts
    <2> QED
      BY <1>3, <2>2, <2>3
  <1>5. /\ Data' = Overlay(d, q, c, n) /\ Data' \in Seq(Nat)
        /\ pos'[i] = pos[i] + ChunkLength(i)
        /\ remain'[i] = remain[i] - ChunkLength(i)
    BY <1>1, <1>2, <1>3, <1>4, WriteFacts
  <1>6. PICK e : e = Data'
    OBVIOUS
  <1>7. /\ Len(e) = IF Len(d) >= q + n THEN Len(d) ELSE q + n
        /\ \A k \in 1 .. Len(e) : e[k] = IF k \in q + 1 .. q + n THEN c[k - q] ELSE d[k]
    BY <1>5, <1>6, OverlayFacts
  <1> QED
    BY <1>1, <1>2, <1>3, <1>4, <1>5, <1>6, <1>7

\* A command never makes the file longer than its data_size.
LEMMA WriteLength ==
    ASSUME Ownership, LengthInv, NEW i \in Instances, object[i] # NULL, pc[i] \notin Outside,
           WriteFrom(i, ChunkLength(i)), pos[i] + remain[i] = data_size(i)
    PROVE  LengthInv'
  <1>0. TypeInv /\ HandleInv(i) /\ CallInv(i) /\ store[File] # NULL
    BY DEF Ownership, HandleInv
  <1>1. arg[i] \in Requests[i] /\ remain[i] \in Nat /\ pos[i] \in Nat
    BY <1>0 DEF CallInv, Outside, TypeInv
  <1>2. /\ ChunkLength(i) \in Nat /\ ChunkLength(i) <= remain[i]
        /\ data_size(i) \in Nat /\ data_size(i) < 2^SizeWidth
    BY <1>1, ChunkFacts, SizeFacts
  <1>3. CASE store' = store
    BY <1>3 DEF LengthInv, Data
  <1>4. CASE ret'[i].res = "SUCCESS"
    <2>1. PICK L \in Nat : L = Len(Data) /\ L < 2^SizeWidth
      BY <1>0, HeldFacts DEF LengthInv
    <2>2. Len(Data') = IF L >= pos[i] + ChunkLength(i) THEN L ELSE pos[i] + ChunkLength(i)
      BY <1>4, <2>1, Written
    <2> QED
      BY <1>1, <1>2, <2>1, <2>2, BenchmarkAssumption DEF LengthInv
  <1> QED
    BY <1>3, <1>4, WriteFacts

\* Creating the file and filling it.
LEMMA ProgressFill ==
    ASSUME Ownership, LengthInv, NEW i \in Instances, ProgressInv(i), CreateFile(i) \/ FillFile(i)
    PROVE  ProgressInv(i)' /\ LengthInv'
  <1> USE DEF Ownership
  <1>0. /\ arg[i] \in Requests[i] /\ arg' = arg /\ opened' = opened /\ opened[i] = NULL
        /\ data_size(i)' = data_size(i) /\ data_size(i) \in Nat /\ data_size(i) < 2^SizeWidth
    <2>1. arg[i] \in Requests[i] /\ arg' = arg /\ opened' = opened /\ opened[i] = NULL
      BY DEF CreateFile, FillFile, CallInv, ResultInv, Testing
    <2> QED
      BY <2>1, SizeFacts DEF data_size
  <1>1. CASE CreateFile(i)
    <2>1. CASE NotOpened(i) /\ pc' = [pc EXCEPT ![i] = "free"]
      BY <1>0, <2>1, ProgressQuiet DEF NotOpened, TypeInv, Moving, LengthInv, Data
    <2>2. CASE (\E h \in HandleIds : OpenedAt(i, h, EmptyFile)) /\ pc' = [pc EXCEPT ![i] = "fill"]
      <3>1. PICK h \in HandleIds : OpenedAt(i, h, EmptyFile)
        BY <2>2
      <3>2. EmptyFile \in FileContents /\ EmptyFile.data = << >>
        BY DEF EmptyFile, FileContents
      <3>3. /\ pos'[i] = 0 /\ remain'[i] = data_size(i) /\ store'[File] = EmptyFile
        BY <1>0, <3>1, <3>2, OpenedFacts
      <3>4. Len(Data') = 0
        BY <3>2, <3>3 DEF Data
      <3>5. LengthInv'
        BY <1>0, <3>4, BenchmarkAssumption DEF LengthInv
      <3>6. pc'[i] = "fill"
        BY <2>2 DEF TypeInv
      <3> QED
        BY <1>0, <3>3, <3>5, <3>6 DEF ProgressInv
    <2> QED
      BY <1>1, <2>1, <2>2, CreateEffect
  <1>2. CASE FillFile(i)
    <2>1. object[i] # NULL /\ pc[i] \notin Outside /\ pc[i] = "fill" /\ pos[i] + remain[i] = data_size(i)
      BY <1>2 DEF FillFile, HandleInv, Holding, Outside, ProgressInv
    <2>2. WriteFrom(i, ChunkLength(i))
      BY <1>2 DEF FillFile
    <2>3. /\ remain[i] \in Nat /\ pos[i] \in Nat /\ ChunkLength(i) \in Nat
          /\ ChunkLength(i) <= remain[i] /\ ChunkLength(i) <= chunk_size(i)
      BY <1>0, ChunkFacts DEF TypeInv
    <2>4. pos'[i] + remain'[i] = data_size(i)
      BY <2>1, <2>2, <2>3, WriteFacts, SMTT(60)
    <2>5. LengthInv'
      BY <1>0, <2>1, <2>2, WriteLength
    <2>6. pc'[i] \in {"fill", "close"}
      <3>1. ret'[i].res \in {"SUCCESS", "STORAGE_NO_SPACE"}
        BY <2>1, <2>2, WriteFacts
      <3> QED
        BY <1>2, <3>1 DEF FillFile, After, Goto, TypeInv, FillExit
    <2> QED
      BY <1>0, <2>4, <2>5, <2>6 DEF ProgressInv
  <1> QED
    BY <1>1, <1>2

\* Opening the file for the test.
LEMMA ProgressOpen ==
    ASSUME Ownership, LengthInv, NEW i \in Instances, ProgressInv(i), OpenFile(i)
    PROVE  ProgressInv(i)' /\ LengthInv'
  <1> USE DEF Ownership
  <1>0. /\ arg[i] \in Requests[i] /\ arg' = arg /\ opened[i] = NULL
        /\ data_size(i)' = data_size(i) /\ data_size(i) \in Nat
    <2>1. arg[i] \in Requests[i] /\ arg' = arg /\ opened[i] = NULL
      BY DEF OpenFile, CallInv, ResultInv, Testing
    <2> QED
      BY <2>1, SizeFacts DEF data_size
  <1>1. CASE NotOpened(i) /\ opened' = opened /\ pc' = [pc EXCEPT ![i] = "remove"]
    BY <1>0, <1>1, ProgressQuiet DEF NotOpened, TypeInv, Moving, LengthInv, Data
  <1>2. CASE /\ \E h \in HandleIds : OpenedAt(i, h, store[File])
             /\ store' = store /\ store[File] \in FileContents
             /\ opened' = [opened EXCEPT ![i] = Data]
             /\ pc' = [pc EXCEPT ![i] = "test"]
    <2>1. PICK h \in HandleIds : OpenedAt(i, h, store[File])
      BY <1>2
    <2>2. /\ pos'[i] = 0 /\ remain'[i] = data_size(i)
      BY <1>0, <1>2, <2>1, OpenedFacts
    <2>3. PICK d \in Seq(Nat) : d = Data
      BY <1>2 DEF Data, FileContents
    <2>4. opened'[i] = d /\ Data' = d /\ pc'[i] = "test" /\ LengthInv'
      BY <1>2, <2>3 DEF TypeInv, Data, LengthInv
    <2>5. Min({data_size(i) - remain'[i], Len(d)}) = 0
      <3>1. data_size(i) - remain'[i] = 0 /\ Len(d) \in Nat
        BY <1>0, <2>2
      <3>2. Min({0, Len(d)}) = 0
        BY <3>1, MinOfTwo
      <3> QED
        BY <3>1, <3>2
    <2> QED
      BY <1>0, <2>2, <2>4, <2>5 DEF ProgressInv
  <1> QED
    BY <1>1, <1>2, OpenEffect

\* The write test.
LEMMA ProgressWrite ==
    ASSUME Ownership, LengthInv, NEW i \in Instances, ProgressInv(i), test_write(i)
    PROVE  ProgressInv(i)' /\ LengthInv'
  <1> USE DEF Ownership
  <1>1. /\ object[i] # NULL /\ pc[i] \notin Outside /\ pc[i] = "test"
        /\ arg[i].cmd = "TEST_WRITE" /\ arg' = arg
        /\ arg[i] \in Requests[i] /\ pos[i] + remain[i] = data_size(i)
        /\ WriteFrom(i, ChunkLength(i))
    BY DEF test_write, InTest, HandleInv, Holding, Outside, CallInv, ProgressInv
  <1>2. LengthInv'
    BY <1>1, WriteLength
  <1>3. data_size(i)' = data_size(i) /\ data_size(i) \in Nat
    BY <1>1, SizeFacts DEF data_size
  <1>4. /\ remain[i] \in Nat /\ pos[i] \in Nat /\ ChunkLength(i) \in Nat
    BY <1>1, ChunkFacts DEF TypeInv
  <1>5. pos'[i] + remain'[i] = data_size(i)
    BY <1>1, <1>3, <1>4, WriteFacts
  <1>6. ret'[i].res \in {"SUCCESS", "STORAGE_NO_SPACE"}
    BY <1>1, WriteFacts
  <1>7. pc'[i] \in {"test", "remove"}
    BY <1>6 DEF test_write, After, Goto, TypeInv
  <1> QED
    BY <1>1, <1>2, <1>3, <1>5, <1>7 DEF ProgressInv

\* The read test, which goes on at the end of the file when the file is too short.
LEMMA ProgressRead ==
    ASSUME Ownership, LengthInv, NEW i \in Instances, ProgressInv(i), test_read(i)
    PROVE  ProgressInv(i)' /\ LengthInv'
  <1> USE DEF Ownership
  <1>1. /\ object[i] # NULL /\ pc[i] \notin Outside /\ pc[i] = "test"
        /\ arg[i].cmd = "TEST_READ" /\ arg' = arg /\ opened' = opened
        /\ arg[i] \in Requests[i] /\ remain[i] <= data_size(i)
        /\ pos[i] = Min({data_size(i) - remain[i], Len(opened[i])})
        /\ opened[i] # NULL /\ Data = opened[i]
    BY DEF test_read, InTest, HandleInv, Holding, Outside, CallInv, ProgressInv, ResultInv, Testing
  <1>2. data_size(i)' = data_size(i) /\ data_size(i) \in Nat
    BY <1>1, SizeFacts DEF data_size
  <1>3. PICK n \in Nat : n = ChunkLength(i) /\ n <= remain[i] /\ n <= chunk_size(i)
    BY <1>1, ChunkFacts DEF TypeInv
  <1>4. PICK d \in Seq(Nat) : d = Data
    BY <1>1, HeldFacts
  <1>5. PICK p \in 0 .. Len(d) : p = pos[i]
    BY <1>1, <1>4, HeldFacts
  <1>6. PICK r \in Nat, z \in Nat : r = remain[i] /\ z = data_size(i)
    BY <1>2 DEF TypeInv
  <1>7. p = IF z - r <= Len(d) THEN z - r ELSE Len(d)
    <2>1. z - r \in Int /\ Len(d) \in Int
      OBVIOUS
    <2>2. Min({z - r, Len(d)}) = IF z - r <= Len(d) THEN z - r ELSE Len(d)
      BY <2>1, MinOfTwo, Zenon
    <2>3. p = Min({z - r, Len(d)})
      BY <1>1, <1>4, <1>5, <1>6
    <2> QED
      BY <2>2, <2>3, Zenon
  <1>8. CASE ReadFails(i) /\ UNCHANGED <<chunk_buf, remain, pos>>
    <2>1. /\ store' = store /\ ret' = [ret EXCEPT ![i] = [res |-> "STORAGE_NOT_AVAILABLE", val |-> NULL]]
      BY <1>8 DEF ReadFails, Fails, Returns
    <2>2. pc'[i] = "remove"
      BY <2>1 DEF test_read, After, Goto, TypeInv
    <2>3. Data' = Data /\ LengthInv'
      BY <2>1 DEF Data, LengthInv
    <2> QED
      BY <1>1, <2>2, <2>3, ProgressQuiet DEF Moving
  <1>9. CASE ReadInto(i, n) /\ Consume(i, n)
    <2>1. /\ store' = store /\ ret'[i].res = "SUCCESS"
          /\ pos'[i] = p + Len(Bytes(i, n))
      BY <1>1, <1>3, <1>5, <1>9, ReadFacts
    <2>2. pc'[i] = "test"
      BY <2>1 DEF test_read, After, Goto, TypeInv
    <2>3. Data' = Data /\ LengthInv'
      BY <2>1 DEF Data, LengthInv
    <2>4. Len(Bytes(i, n)) = IF p + n <= Len(d) THEN n ELSE Len(d) - p
      BY <1>4, <1>5, BytesFacts
    <2>5. remain'[i] = r - n
      BY <1>6, <1>9 DEF Consume, TypeInv
    <2>6. PICK q \in Nat : q = pos'[i]
      BY <1>5, <2>1, <2>4
    <2>7. q = IF z - (r - n) <= Len(d) THEN z - (r - n) ELSE Len(d)
      <3>1. q = p + (IF p + n <= Len(d) THEN n ELSE Len(d) - p) /\ n <= r /\ r <= z
        BY <1>1, <1>3, <1>6, <2>1, <2>4, <2>6
      <3>2. PICK L \in Nat : L = Len(d)
        BY <1>4
      <3>3. /\ p = IF z - r <= L THEN z - r ELSE L
            /\ q = p + (IF p + n <= L THEN n ELSE L - p)
            /\ p \in 0 .. L /\ n \in Nat /\ r \in Nat /\ z \in Nat
        BY <1>7, <3>1, <3>2, Zenon
      <3>4. CASE z - r <= L
        BY <3>1, <3>2, <3>3, <3>4
      <3>5. CASE ~(z - r <= L)
        BY <3>1, <3>2, <3>3, <3>5
      <3> QED
        BY <3>4, <3>5
    <2>8. q = Min({z - (r - n), Len(d)})
      <3>1. z - (r - n) \in Int /\ Len(d) \in Int
        OBVIOUS
      <3>2. Min({z - (r - n), Len(d)}) = IF z - (r - n) <= Len(d) THEN z - (r - n) ELSE Len(d)
        BY <3>1, MinOfTwo, Zenon
      <3> QED
        BY <2>7, <3>2, Zenon
    <2>9. remain'[i] <= z
      BY <1>1, <1>3, <1>6, <2>5
    <2> QED
      BY <1>1, <1>2, <1>4, <1>6, <2>2, <2>3, <2>5, <2>6, <2>8, <2>9 DEF ProgressInv
  <1> QED
    BY <1>3, <1>8, <1>9 DEF test_read

\* Sequences of the same bytes are the same.
LEMMA SameSequence ==
    ASSUME NEW s \in Seq(Nat), NEW t \in Seq(Nat), Len(s) = Len(t),
           \A k \in 1 .. Len(t) : s[k] = t[k]
    PROVE  s = t
  <1>1. s = [k \in 1 .. Len(s) |-> s[k]] /\ t = [k \in 1 .. Len(t) |-> t[k]]
    OBVIOUS
  <1> QED
    BY <1>1

\* The rewrite test: a chunk is read, ...
LEMMA ProgressRewriteRead ==
    ASSUME Ownership, LengthInv, NEW i \in Instances, ProgressInv(i), RewriteRead(i)
    PROVE  ProgressInv(i)' /\ LengthInv'
  <1> USE DEF Ownership
  <1>1. /\ object[i] # NULL /\ pc[i] \notin Outside /\ pc[i] = "test"
        /\ arg[i].cmd = "TEST_REWRITE" /\ arg' = arg /\ opened' = opened /\ remain' = remain
        /\ arg[i] \in Requests[i] /\ pos[i] + remain[i] = data_size(i)
        /\ opened[i] # NULL /\ Data = opened[i]
    BY DEF RewriteRead, InTest, HandleInv, Holding, Outside, CallInv, ProgressInv, ResultInv, Testing
  <1>2. /\ data_size(i)' = data_size(i) /\ data_size(i) \in Nat
        /\ ChunkLength(i)' = ChunkLength(i) /\ remain[i] \in Nat
    BY <1>1, SizeFacts DEF data_size, ChunkLength, chunk_size, TypeInv
  <1>3. PICK n \in Nat : n = ChunkLength(i) /\ n <= remain[i] /\ n <= chunk_size(i)
    BY <1>1, <1>2, ChunkFacts
  <1>4. PICK d \in Seq(Nat) : d = Data
    BY <1>1, HeldFacts
  <1>5. PICK p \in 0 .. Len(d) : p = pos[i]
    BY <1>1, <1>4, HeldFacts
  <1>6. store' = store /\ pc'[i] \in {"remove", "seek_back"}
    <2>1. CASE ReadFails(i) /\ Goto(i, "remove")
      BY <2>1 DEF ReadFails, Fails, Goto, TypeInv
    <2>2. CASE ReadInto(i, n)
      <3>1. store' = store /\ ret'[i].res = "SUCCESS"
        BY <1>1, <1>3, <2>2, ReadFacts
      <3> QED
        BY <3>1 DEF RewriteRead, After, Goto, TypeInv
    <2> QED
      BY <1>3, <2>1, <2>2 DEF RewriteRead
  <1>7. Data' = Data /\ LengthInv'
    BY <1>6 DEF Data, LengthInv
  <1>8. CASE pc'[i] = "remove"
    BY <1>1, <1>7, <1>8, ProgressQuiet DEF Moving
  <1>9. CASE pc'[i] = "seek_back"
    <2>1. ReadInto(i, n) /\ ~(Len(Bytes(i, n)) < n)
      BY <1>3, <1>9 DEF RewriteRead, Goto, TypeInv
    <2>2. Len(Bytes(i, n)) = IF p + n <= Len(d) THEN n ELSE Len(d) - p
      BY <1>4, <1>5, BytesFacts
    <2>3. Len(Bytes(i, n)) = n /\ p + n <= Len(d)
      BY <1>5, <2>1, <2>2
    <2>4. /\ pos'[i] = p + n
          /\ \A k \in 1 .. n : chunk_buf'[i][k] = d[p + k]
      BY <1>1, <1>3, <1>4, <1>5, <2>1, <2>3, ReadFacts
    <2>5. pos'[i] - n = p
      BY <1>5, <2>4
    <2>6. Holds(i, pos[i] - ChunkLength(i))'
      BY <1>2, <1>3, <1>4, <1>7, <2>4, <2>5 DEF Holds
    <2>7. pos'[i] + remain'[i] = data_size(i) + n
      BY <1>1, <1>2, <1>5, <2>4
    <2> QED
      BY <1>1, <1>2, <1>3, <1>7, <1>9, <2>6, <2>7 DEF ProgressInv
  <1> QED
    BY <1>6, <1>8, <1>9

\* ... the position goes back, ...
LEMMA ProgressRewriteSeek ==
    ASSUME Ownership, LengthInv, NEW i \in Instances, ProgressInv(i), RewriteSeek(i)
    PROVE  ProgressInv(i)' /\ LengthInv'
  <1> USE DEF Ownership
  <1>1. /\ object[i] # NULL /\ pc[i] = "seek_back"
        /\ arg[i].cmd = "TEST_REWRITE" /\ arg' = arg /\ opened' = opened /\ remain' = remain
        /\ chunk_buf' = chunk_buf
        /\ arg[i] \in Requests[i] /\ pos[i] + remain[i] = data_size(i) + ChunkLength(i)
        /\ Holds(i, pos[i] - ChunkLength(i)) /\ opened[i] # NULL /\ Data = opened[i]
    BY DEF RewriteSeek, InTest, HandleInv, Holding, CallInv, ProgressInv, ResultInv, Testing
  <1>2. /\ data_size(i)' = data_size(i) /\ data_size(i) \in Nat
        /\ ChunkLength(i)' = ChunkLength(i) /\ remain[i] \in Nat
    BY <1>1, SizeFacts DEF data_size, ChunkLength, chunk_size, TypeInv
  <1>3. PICK n \in Nat : n = ChunkLength(i)
    BY <1>1, <1>2, ChunkFacts
  <1>4. PICK d \in Seq(Nat) : d = Data
    BY <1>1, HeldFacts
  <1>5. PICK p \in 0 .. Len(d) : p = pos[i]
    BY <1>1, <1>4, HeldFacts
  <1>6. TypeInv /\ HandleInv(i) /\ SeekTo(i, SeekBack(i), "write_back")
    BY DEF RewriteSeek
  <1>7. /\ store' = store
        /\ \/ pos' = [pos EXCEPT ![i] = SeekBack(i)] /\ pc' = [pc EXCEPT ![i] = "write_back"]
           \/ pc' = [pc EXCEPT ![i] = "remove"]
    BY <1>1, <1>6, SeekEffect
  <1>8. Data' = Data /\ LengthInv'
    BY <1>7 DEF Data, LengthInv
  <1>9. CASE pc' = [pc EXCEPT ![i] = "remove"]
    BY <1>1, <1>8, <1>9, ProgressQuiet DEF Moving, TypeInv
  <1>10. CASE pos' = [pos EXCEPT ![i] = SeekBack(i)] /\ pc' = [pc EXCEPT ![i] = "write_back"]
    <2>1. pos'[i] = p - n /\ pc'[i] = "write_back"
      BY <1>3, <1>5, <1>10 DEF TypeInv, SeekBack
    <2>2. pos'[i] + n <= Len(d) /\ pos'[i] + remain'[i] = data_size(i)
      <3>1. PICK r \in Nat, z \in Nat : r = remain[i] /\ z = data_size(i)
        BY <1>2
      <3>2. p + r = z + n
        BY <1>1, <1>3, <1>5, <3>1
      <3>3. (p - n) + n <= Len(d) /\ (p - n) + r = z
        BY <3>2
      <3> QED
        BY <1>1, <2>1, <3>1, <3>3
    <2>3. Holds(i, pos[i])'
      BY <1>1, <1>2, <1>3, <1>5, <1>8, <2>1 DEF Holds
    <2> QED
      BY <1>1, <1>2, <1>3, <1>4, <1>8, <2>1, <2>2, <2>3 DEF ProgressInv
  <1> QED
    BY <1>7, <1>9, <1>10

\* ... and the chunk is written back: the file is as it was.
LEMMA ProgressRewriteWrite ==
    ASSUME Ownership, LengthInv, NEW i \in Instances, ProgressInv(i), RewriteWrite(i)
    PROVE  ProgressInv(i)' /\ LengthInv'
  <1> USE DEF Ownership
  <1>1. /\ object[i] # NULL /\ pc[i] \notin Outside /\ pc[i] = "write_back"
        /\ arg[i].cmd = "TEST_REWRITE" /\ arg' = arg /\ opened' = opened
        /\ arg[i] \in Requests[i] /\ pos[i] + remain[i] = data_size(i)
        /\ pos[i] + ChunkLength(i) <= Len(Data) /\ Holds(i, pos[i])
        /\ opened[i] # NULL /\ Data = opened[i]
        /\ WriteFrom(i, ChunkLength(i))
    BY DEF RewriteWrite, InTest, HandleInv, Holding, Outside, CallInv, ProgressInv, ResultInv, Testing
  <1>2. data_size(i)' = data_size(i) /\ data_size(i) \in Nat /\ remain[i] \in Nat
    BY <1>1, SizeFacts DEF data_size, TypeInv
  <1>3. PICK n \in Nat : n = ChunkLength(i) /\ n <= remain[i]
    BY <1>1, <1>2, ChunkFacts
  <1>4. PICK d \in Seq(Nat) : d = Data
    BY <1>1, HeldFacts
  <1>5. PICK p \in 0 .. Len(d) : p = pos[i]
    BY <1>1, <1>4, HeldFacts
  <1>6. /\ ret'[i].res \in {"SUCCESS", "STORAGE_NO_SPACE"}
        /\ pos'[i] + remain'[i] = data_size(i)
    <2>1. \/ ret'[i].res = "STORAGE_NO_SPACE" /\ pos' = pos /\ remain' = remain
          \/ /\ ret'[i].res = "SUCCESS"
             /\ pos'[i] = pos[i] + ChunkLength(i) /\ remain'[i] = remain[i] - ChunkLength(i)
      BY <1>1, WriteFacts
    <2>2. pos[i] \in Nat
      BY DEF TypeInv
    <2> QED
      BY <1>1, <1>2, <1>3, <2>1, <2>2
  <1>7. pc'[i] \in {"test", "remove"}
    BY <1>6 DEF RewriteWrite, After, Goto, TypeInv
  <1>8. Data' = d
    <2>1. CASE store' = store
      BY <1>4, <2>1 DEF Data
    <2>2. CASE ret'[i].res = "SUCCESS"
      <3>1. PICK e \in Seq(Nat) : e = Data'
        BY <1>1, <2>2, Written
      <3>2. /\ Len(e) = IF Len(d) >= p + n THEN Len(d) ELSE p + n
            /\ \A k \in 1 .. Len(e) :
                   e[k] = IF k \in p + 1 .. p + n THEN chunk_buf[i][k - p] ELSE d[k]
        BY <1>1, <1>3, <1>4, <1>5, <2>2, <3>1, Written
      <3>3. Len(e) = Len(d) /\ p + n <= Len(d)
        BY <1>1, <1>3, <1>4, <1>5, <3>2
      <3>4. ASSUME NEW k \in 1 .. Len(d) PROVE e[k] = d[k]
        <4>1. CASE k \in p + 1 .. p + n
          <5>1. k - p \in 1 .. n /\ p + (k - p) = k
            BY <4>1
          <5>2. chunk_buf[i][k - p] = d[p + (k - p)]
            BY <1>1, <1>3, <1>4, <1>5, <5>1 DEF Holds
          <5> QED
            BY <3>2, <3>3, <4>1, <5>1, <5>2
        <4>2. CASE k \notin p + 1 .. p + n
          BY <3>2, <3>3, <4>2
        <4> QED
          BY <4>1, <4>2
      <3> QED
        BY <3>1, <3>3, <3>4, SameSequence
    <2> QED
      BY <1>1, <2>1, <2>2, WriteFacts
  <1>9. LengthInv'
    BY <1>1, WriteLength
  <1> QED
    BY <1>1, <1>2, <1>4, <1>6, <1>7, <1>8, <1>9 DEF ProgressInv

\* Progress holds with Ownership.
THEOREM BenchmarkProgress == Spec => []Progress
  <1>1. Init => Progress
    BY BenchmarkAssumption DEF Init, InstanceInit, StorageInit, Progress, LengthInv, ProgressInv
  <1>2. Ownership /\ Progress /\ [Next]_vars => Progress'
    <2> SUFFICES ASSUME Ownership, Progress, [Next]_vars PROVE Progress'
      OBVIOUS
    <2>1. CASE UNCHANGED vars
      <3>1. \A j \in Instances : Kept(j)
        BY <2>1 DEF vars, teeVars, callVars, localVars, Kept
      <3>2. LengthInv'
        BY <2>1 DEF vars, teeVars, LengthInv, Data, Progress
      <3> QED
        BY <3>1, <3>2, ProgressKept DEF Progress
    <2>2. CASE Restart
      BY <2>2 DEF Restart, Progress, LengthInv, ProgressInv, Data
    <2>3. ASSUME NEW i \in Instances, Invoke(i) \/ TaStep(i) PROVE Progress'
      <3>1. ProgressInv(i) /\ LengthInv
        BY DEF Progress
      <3>2. ProgressInv(i)' /\ (LengthInv' \/ store' = store \/ store'[File] = NULL)
        BY <2>3, <3>1, ProgressAround, ProgressFill, ProgressOpen, ProgressWrite, ProgressRead,
           ProgressRewriteRead, ProgressRewriteSeek, ProgressRewriteWrite
           DEF TaStep, test_rewrite, verify_file_data
      <3>3. LengthInv'
        BY <3>1, <3>2 DEF LengthInv, Data
      <3>4. \A j \in Instances \ {i} : ProgressInv(j)'
        BY <2>3, OthersKept, ProgressKept DEF Progress
      <3> QED
        BY <3>2, <3>3, <3>4 DEF Progress
    <2> QED
      BY <2>1, <2>2, <2>3 DEF Next
  <1> QED
    BY <1>1, <1>2, BenchmarkOwnership, PTL DEF Spec

\* RewriteKeepsFile: the rewrite test leaves every byte of the file as it was opened, also
\* when a call fails between the read and the write, and with a short last chunk
\* (benchmark.c:213-251).
THEOREM BenchmarkRewriteKeeps == Spec => []RewriteKeepsFile
  <1>1. Progress => RewriteKeepsFile
    BY DEF Progress, ProgressInv, RewriteKeepsFile, Data
  <1> QED
    BY <1>1, BenchmarkProgress, PTL

-----------------------------------------------------------------------------
(***************************************************************************)
(* Pattern: what the bytes of the file are.                                *)
(***************************************************************************)
\* Positions in chunks of c bytes.
LEMMA ChunkOffset ==
    ASSUME NEW c \in Nat \ {0}, NEW m \in Nat, NEW j \in 0 .. c - 1
    PROVE  (m * c + j) % c = j
  OBVIOUS

\* A number of bytes is whole chunks when chunks of c bytes leave no rest.
LEMMA WholeMultiple ==
    ASSUME NEW c \in Nat \ {0}, NEW a \in Nat
    PROVE  a % c = 0 <=> \E m \in Nat : a = m * c
  <1>1. ASSUME a % c = 0 PROVE \E m \in Nat : a = m * c
    <2>1. a = c * (a \div c) + (a % c) /\ a \div c \in Int
      OBVIOUS
    <2>2. PICK q \in Int : q = a \div c
      BY <2>1
    <2>3. a = q * c
      BY <1>1, <2>1, <2>2
    <2>4. q >= 0
      BY <2>3
    <2> QED
      BY <2>3, <2>4
  <1>2. ASSUME NEW m \in Nat, a = m * c PROVE a % c = 0
    <2>1. (m * c + 0) % c = 0
      BY ChunkOffset
    <2> QED
      BY <1>2, <2>1
  <1> QED
    BY <1>1, <1>2

\* What is left of whole chunks is nothing, or a whole chunk and whole chunks.
LEMMA WholeLess ==
    ASSUME NEW c \in Nat \ {0}, NEW r \in Nat, \E m \in Nat : r = m * c, r > 0
    PROVE  r >= c /\ \E n \in Nat : r - c = n * c
  <1>1. PICK m \in Nat : r = m * c
    OBVIOUS
  <1>2. m >= 1
    BY <1>1
  <1>3. PICK n \in Nat : m = n + 1
    BY <1>2
  <1>4. r = n * c + c /\ n * c \in Nat
    BY <1>1, <1>3
  <1> QED
    BY <1>4

\* One more chunk behind whole chunks is whole chunks again.
LEMMA WholeMore ==
    ASSUME NEW c \in Nat \ {0}, NEW r \in Nat, \E m \in Nat : r = m * c
    PROVE  \E n \in Nat : r + c = n * c
  <1>1. PICK m \in Nat : r = m * c
    OBVIOUS
  <1>2. r + c = (m + 1) * c
    BY <1>1
  <1> QED
    BY <1>2

\* A chunk of the pattern behind whole chunks of the pattern.
LEMMA PatternGrows ==
    ASSUME NEW c \in Nat \ {0}, NEW p \in Nat, \E m \in Nat : p = m * c,
           NEW d \in Seq(Nat), p + c <= Len(d),
           \A k \in 1 .. p : d[k] = ((k - 1) % c) + 1,
           \A k \in 1 .. c : d[p + k] = k
    PROVE  \A k \in 1 .. p + c : d[k] = ((k - 1) % c) + 1
  <1>1. PICK m \in Nat : p = m * c
    OBVIOUS
  <1> SUFFICES ASSUME NEW k \in 1 .. p + c, k \notin 1 .. p PROVE d[k] = ((k - 1) % c) + 1
    OBVIOUS
  <1>2. PICK j \in 1 .. c : k = p + j
    <2>1. k - p \in 1 .. c /\ k = p + (k - p)
      OBVIOUS
    <2> QED
      BY <2>1
  <1>3. j - 1 \in 0 .. c - 1 /\ k - 1 = p + (j - 1)
    BY <1>2
  <1>4. (k - 1) % c = j - 1
    BY <1>1, <1>3, ChunkOffset
  <1>5. d[k] = j
    BY <1>2
  <1> QED
    BY <1>2, <1>4, <1>5

\* A session that nothing touched has its pattern.
LEMMA PatternKept ==
    ASSUME Ownership, NEW j \in Instances, VerifyInv(j), WriteInv(j), Kept(j)
    PROVE  VerifyInv(j)' /\ WriteInv(j)'
  <1>1. pc[j] \in {"test", "rewind", "verify"} => object[j] # NULL
    BY DEF Ownership, HandleInv, Holding
  <1>2. object[j] # NULL => Data' = Data
    BY DEF Kept, Data
  <1>3. /\ data_size(j)' = data_size(j) /\ chunk_size(j)' = chunk_size(j)
        /\ pc'[j] = pc[j] /\ pos'[j] = pos[j] /\ remain'[j] = remain[j] /\ arg'[j] = arg[j]
        /\ object'[j] = object[j] /\ chunk_buf'[j] = chunk_buf[j] /\ res'[j] = res[j]
    BY DEF Kept, chunk_size, data_size
  <1>6. VerifyInv(j)'
    BY <1>1, <1>2, <1>3 DEF VerifyInv, Whole, Pattern
  <1>7. WriteInv(j)'
    BY <1>1, <1>2, <1>3 DEF WriteInv, WholeWrite, Whole, Pattern
  <1> QED
    BY <1>6, <1>7

\* Steps that neither verify nor belong to a write test of whole chunks.
LEMMA PatternQuiet ==
    ASSUME NEW i \in Instances, pc'[i] # "verify",
           pc'[i] = "remove" => res'[i] # "SUCCESS",
           pc'[i] = "idle" => res'[i] = "SUCCESS",
           WholeWrite(i)' => /\ res'[i] # "CORRUPT_OBJECT"
                             /\ pc'[i] \notin {"create", "fill", "open", "test", "rewind"}
    PROVE  VerifyInv(i)' /\ WriteInv(i)'
  BY DEF VerifyInv, WriteInv

\* The steps before the file is open for the test.
LEMMA PatternBefore ==
    ASSUME Ownership, NEW i \in Instances, VerifyInv(i), WriteInv(i),
           \/ Invoke(i) \/ ta_storage_benchmark_cmd_handler(i) \/ AllocateChunk(i)
           \/ CreateFile(i) \/ FillFile(i) \/ CloseFile(i)
    PROVE  VerifyInv(i)' /\ WriteInv(i)'
  <1> USE DEF Ownership
  <1>1. CASE Invoke(i)
    <2>1. pc'[i] = "start" /\ res'[i] = "SUCCESS"
      BY <1>1 DEF Invoke, Goto, TypeInv, localVars, WriteInv
    <2> QED
      BY <2>1, PatternQuiet
  <1>2. CASE ta_storage_benchmark_cmd_handler(i)
    <2>1. pc'[i] = "return" /\ res'[i] = "BAD_PARAMETERS"
      BY <1>2 DEF ta_storage_benchmark_cmd_handler, Goto, TypeInv
    <2> QED
      BY <2>1, PatternQuiet
  <1>3. CASE AllocateChunk(i)
    <2>1. \/ pc'[i] = "return" /\ res'[i] = "OUT_OF_MEMORY"
          \/ pc'[i] = "create" /\ res'[i] = "SUCCESS" /\ ret'[i].res = "SUCCESS"
      BY <1>3 DEF AllocateChunk, LocalCall, Returns, Success, Goto, Keep, TypeInv
    <2>2. CASE pc'[i] = "return"
      BY <2>1, <2>2, PatternQuiet
    <2>3. CASE pc'[i] = "create"
      <3>1. chunk_buf'[i] = fill_buffer(chunk_size(i)) /\ arg' = arg
        BY <1>3, <2>1, <2>3 DEF AllocateChunk, TypeInv
      <3>2. chunk_size(i)' = chunk_size(i)
        BY <3>1 DEF chunk_size
      <3> QED
        BY <2>1, <2>3, <3>1, <3>2 DEF VerifyInv, WriteInv
    <2> QED
      BY <2>1, <2>2, <2>3
  <1>4. CASE CreateFile(i) \/ FillFile(i) \/ CloseFile(i)
    <2>1. /\ arg' = arg /\ chunk_buf' = chunk_buf
          /\ pc'[i] \in {"fill", "open", "free", "close"}
          /\ WholeWrite(i) => res'[i] # "CORRUPT_OBJECT"
      <3>1. CASE CreateFile(i)
        <4>1. \/ NotOpened(i) /\ pc'[i] = "free"
              \/ (\E h \in HandleIds : OpenedAt(i, h, EmptyFile)) /\ pc'[i] = "fill"
          BY <3>1, CreateEffect DEF TypeInv
        <4>2. res'[i] # "CORRUPT_OBJECT"
          BY <4>1 DEF NotOpened, OpenedAt, TypeInv
        <4> QED
          BY <3>1, <4>1, <4>2 DEF CreateFile
      <3>2. CASE FillFile(i)
        <4>1. object[i] # NULL /\ pc[i] \notin Outside /\ WriteFrom(i, ChunkLength(i))
          BY <3>2 DEF FillFile, HandleInv, Holding, Outside
        <4>2. ret'[i].res \in {"SUCCESS", "STORAGE_NO_SPACE"}
          BY <4>1, WriteFacts
        <4> QED
          BY <3>2, <4>2 DEF FillFile, Keep, After, Goto, FillExit, TypeInv
      <3>3. CASE CloseFile(i)
        <4>1. \/ pc'[i] = "open" /\ res[i] = "SUCCESS"
              \/ pc'[i] = "free" /\ pc[i] = "close"
          BY <3>3, CloseEffect DEF CloseFile, TypeInv, ResultInv, Testing
        <4>2. res' = res /\ arg' = arg /\ chunk_buf' = chunk_buf
          BY <3>3 DEF CloseFile
        <4>3. WholeWrite(i) => res[i] # "CORRUPT_OBJECT"
          BY DEF WriteInv
        <4> QED
          BY <4>1, <4>2, <4>3
      <3> QED
        BY <1>4, <3>1, <3>2, <3>3
    <2>2. chunk_size(i)' = chunk_size(i) /\ data_size(i)' = data_size(i)
      BY <2>1 DEF chunk_size, data_size
    <2>3. pc[i] \in {"create", "fill", "close"} /\ (pc[i] = "close" => pc'[i] # "open" /\ pc'[i] # "fill")
      BY <1>4, CloseEffect DEF CreateFile, FillFile, CloseFile, ResultInv, TypeInv
    <2> QED
      BY <2>1, <2>2, <2>3 DEF VerifyInv, WriteInv, WholeWrite
  <1> QED
    BY <1>1, <1>2, <1>3, <1>4

\* The file is opened for the test: nothing is known of its bytes.
LEMMA PatternOpen ==
    ASSUME Ownership, NEW i \in Instances, VerifyInv(i), WriteInv(i), OpenFile(i)
    PROVE  VerifyInv(i)' /\ WriteInv(i)'
  <1> USE DEF Ownership
  <1>0. /\ arg[i] \in Requests[i] /\ arg' = arg /\ chunk_buf' = chunk_buf /\ pc[i] = "open"
    BY DEF OpenFile, CallInv
  <1>1. CASE NotOpened(i) /\ pc' = [pc EXCEPT ![i] = "remove"]
    <2>1. pc'[i] = "remove" /\ res'[i] \notin {"SUCCESS", "CORRUPT_OBJECT"}
      BY <1>1 DEF NotOpened, TypeInv
    <2> QED
      BY <2>1, PatternQuiet
  <1>2. CASE /\ \E h \in HandleIds : OpenedAt(i, h, store[File])
             /\ store[File] \in FileContents
             /\ pc' = [pc EXCEPT ![i] = "test"]
    <2>1. PICK h \in HandleIds : OpenedAt(i, h, store[File])
      BY <1>2
    <2>2. /\ pos'[i] = 0 /\ remain'[i] = data_size(i) /\ res'[i] = "SUCCESS"
          /\ 0 <= Len(Data') /\ pc'[i] = "test"
      BY <1>0, <1>2, <2>1, OpenedFacts DEF TypeInv
    <2>3. /\ data_size(i)' = data_size(i) /\ chunk_size(i)' = chunk_size(i)
          /\ WholeWrite(i)' = WholeWrite(i)
      BY <1>0 DEF data_size, chunk_size, WholeWrite
    <2>4. PICK c \in Nat \ {0}, z \in Nat : c = chunk_size(i) /\ z = data_size(i)
      BY <1>0, SizeFacts
    <2>5. WholeWrite(i) => \E m \in Nat : z = m * c
      BY <2>4, WholeMultiple DEF WholeWrite
    <2>6. 0 = 0 * c /\ 0 \in Nat
      BY <2>4
    <2>7. WriteInv(i)'
      <3> SUFFICES ASSUME WholeWrite(i)
                   PROVE  /\ chunk_buf'[i] = fill_buffer(chunk_size(i)')
                          /\ Whole(i, pos[i])' /\ Whole(i, remain[i])' /\ Pattern(i, pos[i])'
        BY <2>2, <2>3 DEF WriteInv
      <3>1. chunk_buf'[i] = fill_buffer(chunk_size(i)')
        BY <1>0, <2>3 DEF WriteInv
      <3>2. Whole(i, pos[i])' /\ Whole(i, remain[i])'
        BY <2>2, <2>3, <2>4, <2>5, <2>6 DEF Whole
      <3>3. Pattern(i, pos[i])'
        BY <2>2 DEF Pattern
      <3> QED
        BY <3>1, <3>2, <3>3
    <2> QED
      BY <2>2, <2>7 DEF VerifyInv
  <1> QED
    BY <1>1, <1>2, OpenEffect

\* A chunk of the write test: whole chunks of the pattern, one more.
LEMMA PatternWrite ==
    ASSUME Ownership, NEW i \in Instances, VerifyInv(i), WriteInv(i), test_write(i)
    PROVE  VerifyInv(i)' /\ WriteInv(i)'
  <1> USE DEF Ownership
  <1>0. /\ object[i] # NULL /\ pc[i] \notin Outside /\ pc[i] = "test" /\ remain[i] > 0
        /\ arg' = arg /\ chunk_buf' = chunk_buf /\ arg[i] \in Requests[i]
        /\ WriteFrom(i, ChunkLength(i)) /\ remain[i] \in Nat /\ pos[i] \in Nat
    BY DEF test_write, InTest, HandleInv, Holding, Outside, CallInv, TypeInv
  <1>1. CASE ret'[i].res = "STORAGE_NO_SPACE"
    <2>1. pc'[i] = "remove" /\ res'[i] = "STORAGE_NO_SPACE"
      BY <1>1 DEF test_write, Keep, After, Goto, TypeInv
    <2> QED
      BY <2>1, PatternQuiet
  <1>2. CASE ret'[i].res = "SUCCESS"
    <2>1. pc'[i] = "test" /\ res'[i] = "SUCCESS"
      BY <1>2 DEF test_write, Keep, After, Goto, TypeInv
    <2>2. /\ data_size(i)' = data_size(i) /\ chunk_size(i)' = chunk_size(i)
          /\ WholeWrite(i)' = WholeWrite(i)
      BY <1>0 DEF data_size, chunk_size, WholeWrite
    <2>3. SUFFICES ASSUME WholeWrite(i)
                   PROVE  Whole(i, pos[i])' /\ Whole(i, remain[i])' /\ Pattern(i, pos[i])'
      BY <1>0, <2>1, <2>2 DEF VerifyInv, WriteInv
    <2>4. PICK c \in Nat \ {0} : c = chunk_size(i)
      BY <1>0, SizeFacts
    <2>5. PICK p \in Nat, d \in Seq(Nat), e \in Seq(Nat) : p = pos[i] /\ d = Data /\ e = Data'
      BY <1>0, <1>2, Written
    <2>6. PICK r \in Nat : r = remain[i] /\ r > 0
      BY <1>0
    <2>7. (\E m \in Nat : p = m * c) /\ (\E m \in Nat : r = m * c)
      BY <1>0, <2>3, <2>4, <2>5, <2>6 DEF WriteInv, Whole
    <2>8. ChunkLength(i) = c
      <3>1. r >= c
        BY <2>6, <2>7, WholeLess
      <3>2. Min({r, c}) = c
        BY <3>1, MinOfTwo
      <3> QED
        BY <2>4, <2>6, <3>2 DEF ChunkLength
    <2>9. (\E m \in Nat : p + c = m * c) /\ (\E m \in Nat : r - c = m * c)
      BY <2>6, <2>7, WholeLess, WholeMore
    <2>10. /\ Len(e) = IF Len(d) >= p + c THEN Len(d) ELSE p + c
           /\ \A k \in 1 .. Len(e) : e[k] = IF k \in p + 1 .. p + c THEN chunk_buf[i][k - p] ELSE d[k]
           /\ pos'[i] = p + c /\ remain'[i] = r - c
      BY <1>0, <1>2, <2>5, <2>6, <2>8, Written
    <2>11. \A k \in 1 .. c : chunk_buf[i][k] = k
      BY <1>0, <2>3, <2>4 DEF WriteInv, fill_buffer
    <2>12. /\ p <= Len(d) /\ \A k \in 1 .. p : d[k] = ((k - 1) % c) + 1
      BY <1>0, <2>3, <2>4, <2>5 DEF WriteInv, Pattern
    <2>13. p + c <= Len(e)
      BY <2>10
    <2>14. \A k \in 1 .. p : e[k] = ((k - 1) % c) + 1
      <3> SUFFICES ASSUME NEW k \in 1 .. p PROVE e[k] = d[k]
        BY <2>12
      <3>1. k \in 1 .. Len(e) /\ k \notin p + 1 .. p + c
        BY <2>13
      <3> QED
        BY <2>10, <3>1
    <2>15. \A k \in 1 .. c : e[p + k] = k
      <3> SUFFICES ASSUME NEW k \in 1 .. c PROVE e[p + k] = k
        OBVIOUS
      <3>1. p + k \in 1 .. Len(e) /\ p + k \in p + 1 .. p + c /\ (p + k) - p = k
        BY <2>13
      <3>2. e[p + k] = chunk_buf[i][(p + k) - p]
        BY <2>10, <3>1
      <3> QED
        BY <2>11, <3>1, <3>2
    <2>16. \A k \in 1 .. p + c : e[k] = ((k - 1) % c) + 1
      BY <2>7, <2>13, <2>14, <2>15, PatternGrows
    <2>17. Pattern(i, pos[i])'
      BY <2>2, <2>4, <2>5, <2>10, <2>13, <2>16 DEF Pattern
    <2>18. Whole(i, pos[i])' /\ Whole(i, remain[i])'
      BY <2>2, <2>4, <2>9, <2>10 DEF Whole
    <2> QED
      BY <2>17, <2>18
  <1> QED
    BY <1>0, <1>1, <1>2, WriteFacts

\* The read and the rewrite test say nothing of write tests, and do not verify.
LEMMA PatternOther ==
    ASSUME Ownership, NEW i \in Instances, VerifyInv(i), WriteInv(i), test_read(i) \/ test_rewrite(i)
    PROVE  VerifyInv(i)' /\ WriteInv(i)'
  <1> USE DEF Ownership
  <1>1. arg' = arg /\ arg[i].cmd # "TEST_WRITE" /\ pc[i] \notin Outside /\ object[i] # NULL /\ arg[i] \in Requests[i]
    BY DEF test_read, test_rewrite, RewriteRead, RewriteSeek, RewriteWrite, InTest, Outside, HandleInv,
           Holding, CallInv
  <1>2. ChunkLength(i) \in Nat /\ ChunkLength(i) <= chunk_size(i)
    BY <1>1, ChunkFacts DEF TypeInv
  <1>3. \/ pc'[i] = "remove" /\ res'[i] # "SUCCESS"
        \/ pc'[i] \in {"test", "seek_back", "write_back"}
    <2>1. CASE test_read(i)
      <3>1. CASE ReadFails(i)
        <4>1. ret'[i].res = "STORAGE_NOT_AVAILABLE"
          BY <3>1 DEF ReadFails, Fails, Returns, TypeInv
        <4> QED
          BY <2>1, <4>1 DEF test_read, Keep, After, Goto, TypeInv
      <3>2. CASE ReadInto(i, ChunkLength(i))
        <4>1. ret'[i].res = "SUCCESS"
          BY <1>1, <1>2, <3>2, ReadFacts
        <4> QED
          BY <2>1, <4>1 DEF test_read, After, Goto, TypeInv
      <3> QED
        BY <2>1, <3>1, <3>2 DEF test_read
    <2>2. CASE RewriteRead(i)
      <3>1. CASE ReadFails(i) /\ Keep(i) /\ Goto(i, "remove")
        BY <3>1 DEF ReadFails, Fails, Returns, TypeInv, Keep, Goto
      <3>2. CASE ReadInto(i, ChunkLength(i)) /\ res' = [res EXCEPT ![i] = "CORRUPT_OBJECT"] /\ Goto(i, "remove")
        BY <3>2 DEF TypeInv, Goto
      <3>3. CASE ReadInto(i, ChunkLength(i)) /\ After(i, "seek_back", "remove")
        <4>1. ret'[i].res = "SUCCESS"
          BY <1>1, <1>2, <3>3, ReadFacts
        <4> QED
          BY <3>3, <4>1 DEF After, Goto, TypeInv
      <3> QED
        BY <2>2, <3>1, <3>2, <3>3 DEF RewriteRead
    <2>3. CASE RewriteSeek(i)
      <3>1. PICK q : SeekTo(i, q, "write_back")
        BY <2>3 DEF RewriteSeek
      <3>2. TypeInv /\ HandleInv(i)
        OBVIOUS
      <3> QED
        BY <1>1, <3>1, <3>2, SeekEffect DEF TypeInv
    <2>4. CASE RewriteWrite(i)
      <3>1. ret'[i].res \in {"SUCCESS", "STORAGE_NO_SPACE"}
        BY <1>1, <2>4, WriteFacts DEF RewriteWrite
      <3> QED
        BY <2>4, <3>1 DEF RewriteWrite, Keep, After, Goto, TypeInv
    <2> QED
      BY <2>1, <2>2, <2>3, <2>4 DEF test_rewrite
  <1>4. ~WholeWrite(i)'
    BY <1>1 DEF WholeWrite
  <1> QED
    BY <1>3, <1>4, PatternQuiet

\* After the test: the way to the verification and the way out.
LEMMA PatternAfter ==
    ASSUME Ownership, NEW i \in Instances, ProgressInv(i), VerifyInv(i), WriteInv(i),
           TestDone(i) \/ Rewind(i) \/ RemoveFile(i) \/ FreeChunk(i) \/ Return(i)
    PROVE  VerifyInv(i)' /\ WriteInv(i)'
  <1> USE DEF Ownership
  <1>1. CASE TestDone(i)
    <2>1. /\ pc[i] = "test" /\ remain[i] = 0 /\ object[i] # NULL /\ arg[i] \in Requests[i]
          /\ pc' = [pc EXCEPT ![i] = IF arg[i].do_verify THEN "rewind" ELSE "remove"]
          /\ UNCHANGED <<store, arg, object, chunk_buf, remain, pos, res>>
      BY <1>1 DEF TestDone, Goto, teeVars, localVars, HandleInv, Holding, CallInv
    <2>2. /\ data_size(i)' = data_size(i) /\ chunk_size(i)' = chunk_size(i) /\ Data' = Data
          /\ WholeWrite(i)' = WholeWrite(i) /\ res'[i] = "SUCCESS"
      BY <2>1 DEF data_size, chunk_size, Data, WholeWrite, ResultInv, Testing
    <2>3. WholeWrite(i) => Pattern(i, data_size(i))
      <3> SUFFICES ASSUME WholeWrite(i) PROVE Pattern(i, data_size(i))
        OBVIOUS
      <3>1. pos[i] + remain[i] = data_size(i) /\ pos[i] \in Nat
        BY <2>1 DEF ProgressInv, WholeWrite, TypeInv
      <3>2. pos[i] = data_size(i)
        BY <2>1, <3>1
      <3> QED
        BY <2>1, <3>2 DEF WriteInv
    <2>4. pc'[i] \in {"rewind", "remove"} /\ (pc'[i] = "remove" => ~arg[i].do_verify)
      BY <2>1 DEF TypeInv
    <2> QED
      BY <2>1, <2>2, <2>3, <2>4 DEF VerifyInv, WriteInv, Pattern
  <1>2. CASE Rewind(i)
    <2>1. /\ pc[i] = "rewind" /\ object[i] # NULL /\ arg[i] \in Requests[i]
          /\ arg' = arg /\ object' = object /\ remain'[i] = data_size(i)
          /\ SeekTo(i, 0, "verify")
      BY <1>2 DEF Rewind, HandleInv, Holding, CallInv, TypeInv, RewindPosition
    <2>2. TypeInv /\ HandleInv(i)
      OBVIOUS
    <2>3. /\ store' = store
          /\ \/ pc'[i] = "remove" /\ res'[i] = "OVERFLOW"
             \/ pc'[i] = "verify" /\ res'[i] = "SUCCESS" /\ pos'[i] = 0
      BY <2>1, <2>2, SeekEffect DEF TypeInv
    <2>4. CASE pc'[i] = "remove"
      BY <2>3, <2>4, PatternQuiet
    <2>5. CASE pc'[i] = "verify"
      <3>1. /\ data_size(i)' = data_size(i) /\ chunk_size(i)' = chunk_size(i) /\ Data' = Data
            /\ WholeWrite(i)' = WholeWrite(i)
        BY <2>1, <2>3 DEF data_size, chunk_size, Data, WholeWrite
      <3>2. PICK c \in Nat \ {0}, z \in Nat : c = chunk_size(i) /\ z = data_size(i)
        BY <2>1, SizeFacts
      <3>3. WholeWrite(i) => \E m \in Nat : z = m * c
        BY <3>2, WholeMultiple DEF WholeWrite
      <3>4. 0 = 0 * c /\ 0 \in Nat /\ 0 <= Len(Data)
        BY <2>1, <3>2, HeldFacts
      <3>5. VerifyInv(i)'
        <4>1. Whole(i, pos[i])' /\ Pattern(i, pos[i])'
          BY <2>3, <2>5, <3>1, <3>2, <3>4 DEF Whole, Pattern
        <4>2. pos'[i] <= data_size(i) /\ remain'[i] = data_size(i) - pos'[i]
          BY <2>1, <2>3, <2>5, <3>2
        <4> QED
          BY <2>5, <3>1, <4>1, <4>2 DEF VerifyInv
      <3>6. WriteInv(i)'
        <4>1. WholeWrite(i) => Whole(i, remain[i])' /\ Pattern(i, data_size(i))'
          BY <2>1, <3>1, <3>2, <3>3 DEF Whole, WriteInv, Pattern
        <4>2. pos'[i] + remain'[i] = data_size(i)
          BY <2>1, <2>3, <2>5, <3>2
        <4> QED
          BY <2>3, <2>5, <3>1, <4>1, <4>2 DEF WriteInv
      <3> QED
        BY <3>5, <3>6
    <2> QED
      BY <2>3, <2>4, <2>5
  <1>3. CASE RemoveFile(i) \/ FreeChunk(i) \/ Return(i)
    <2>1. \/ pc'[i] \in {"free", "return"} /\ res' = res /\ arg' = arg
          \/ pc'[i] = "idle" /\ res'[i] = "SUCCESS"
      BY <1>3, RemoveEffect DEF RemoveFile, FreeChunk, Return, Goto, TypeInv
    <2>2. CASE pc'[i] \in {"free", "return"} /\ res' = res /\ arg' = arg
      <3>1. WholeWrite(i)' = WholeWrite(i)
        BY <2>2 DEF data_size, chunk_size, WholeWrite
      <3> QED
        BY <2>2, <3>1, PatternQuiet DEF WriteInv
    <2>3. CASE pc'[i] = "idle" /\ res'[i] = "SUCCESS"
      BY <2>3, PatternQuiet
    <2> QED
      BY <2>1, <2>2, <2>3
  <1> QED
    BY <1>1, <1>2, <1>3

\* How the number of bytes that remain goes down in verify_file_data: z bytes are to be
\* verified, p were, and a size_t has M values.
Count(M, z, p, r) == \/ p <= z /\ r = z - p
                     \/ p > z /\ r = M + z - p

\* A chunk taken from tmp_data_size (benchmark.c:312) keeps the count: below zero it
\* wraps around the size_t once.
LEMMA CountDown ==
    ASSUME NEW M \in Nat, NEW z \in Nat \ {0}, NEW c \in Nat \ {0}, NEW p \in Nat, NEW r \in Nat,
           Count(M, z, p, r), z < M, c < M, p + c < M
    PROVE  Count(M, z, p + c, (r - c) % M)
  <1>1. ASSUME NEW a \in 0 .. M - 1 PROVE a % M = a
    OBVIOUS
  <1>2. ASSUME NEW a \in 0 .. M - 1 PROVE (a - M) % M = a
    OBVIOUS
  <1>3. CASE p <= z /\ r = z - p
    <2>1. CASE p + c <= z
      <3>1. r - c \in 0 .. M - 1 /\ r - c = z - (p + c)
        BY <1>3, <2>1
      <3>2. (r - c) % M = z - (p + c)
        BY <1>1, <3>1
      <3> QED
        BY <2>1, <3>2 DEF Count
    <2>2. CASE p + c > z
      <3>1. PICK a \in 0 .. M - 1 : a = M + z - (p + c)
        BY <1>3, <2>2
      <3>2. r - c = a - M
        BY <1>3, <3>1
      <3>3. (r - c) % M = a
        BY <1>2, <3>2
      <3> QED
        BY <2>2, <3>1, <3>3 DEF Count
    <2> QED
      BY <2>1, <2>2
  <1>4. CASE p > z /\ r = M + z - p
    <2>1. r - c \in 0 .. M - 1 /\ r - c = M + z - (p + c) /\ p + c > z
      BY <1>4
    <2>2. (r - c) % M = M + z - (p + c)
      BY <1>1, <2>1
    <2> QED
      BY <2>1, <2>2 DEF Count
  <1> QED
    BY <1>3, <1>4 DEF Count

\* A chunk is verified: it is the next one of the pattern, or the command fails, which a
\* write test of whole chunks does not.
LEMMA PatternVerify ==
    ASSUME Ownership, LengthInv, NEW i \in Instances, VerifyInv(i), WriteInv(i), VerifyChunk(i)
    PROVE  VerifyInv(i)' /\ WriteInv(i)'
  <1> USE DEF Ownership
  <1>0. /\ pc[i] = "verify" /\ object[i] # NULL /\ pc[i] \notin Outside /\ remain[i] > 0
        /\ arg' = arg /\ object' = object /\ arg[i] \in Requests[i] /\ store[File] # NULL
    BY DEF VerifyChunk, HandleInv, Holding, Outside, CallInv
  <1>1. /\ data_size(i)' = data_size(i) /\ chunk_size(i)' = chunk_size(i)
        /\ WholeWrite(i)' = WholeWrite(i)
    BY <1>0 DEF data_size, chunk_size, WholeWrite
  <1>2. PICK M \in Nat : M = 2^SizeWidth
    BY BenchmarkAssumption
  <1>3. PICK c \in Nat \ {0}, z \in Nat \ {0} : c = chunk_size(i) /\ z = data_size(i) /\ c < M /\ z < M
    BY <1>0, <1>2, SizeFacts
  <1>4. PICK d \in Seq(Nat) : d = Data /\ Len(d) < M
    BY <1>0, <1>2, HeldFacts DEF LengthInv
  <1>5. PICK p \in Nat : p = pos[i] /\ p <= Len(d)
    BY <1>0, <1>4, HeldFacts DEF TypeInv
  <1>6. PICK r \in Nat : r = remain[i] /\ r > 0
    BY <1>0 DEF TypeInv
  <1>7. /\ \E m \in Nat : p = m * c
        /\ \A k \in 1 .. p : d[k] = ((k - 1) % c) + 1
        /\ Count(M, z, p, r)
    BY <1>0, <1>2, <1>3, <1>4, <1>5, <1>6 DEF VerifyInv, Whole, Pattern, Count
  <1>8. Len(Bytes(i, c)) = IF p + c <= Len(d) THEN c ELSE Len(d) - p
    <2>1. pos[i] \in 0 .. Len(Data) /\ Data \in Seq(Nat)
      BY <1>0, HeldFacts
    <2> QED
      BY <1>4, <1>5, <2>1, BytesFacts
  <1>9. CASE ReadFails(i) /\ Keep(i) /\ Goto(i, "remove")
    <2>1. pc'[i] = "remove" /\ res'[i] = "STORAGE_NOT_AVAILABLE"
      BY <1>9 DEF ReadFails, Fails, Returns, Keep, Goto, TypeInv
    <2> QED
      BY <2>1, PatternQuiet
  <1>10. ASSUME ReadInto(i, chunk_size(i))
         PROVE  /\ ret'[i].res = "SUCCESS" /\ Data' = d
                /\ pos'[i] = p + Len(Bytes(i, c))
                /\ chunk_buf'[i] \in Seq(Nat) /\ Len(chunk_buf'[i]) = c
                /\ \A k \in 1 .. Len(Bytes(i, c)) : chunk_buf'[i][k] = d[p + k]
    <2>1. chunk_size(i) \in Nat /\ chunk_size(i) <= chunk_size(i)
      BY <1>3
    <2>2. store' = store
      BY <1>0, <1>10, <2>1, ReadFacts
    <2> QED
      BY <1>0, <1>3, <1>4, <1>5, <1>10, <2>1, <2>2, ReadFacts DEF Data
  <1>11. CASE /\ ReadInto(i, chunk_size(i)) /\ ~(ChunkRead(i) /\ verify_buffer(chunk_buf'[i]))
              /\ res' = [res EXCEPT ![i] = "CORRUPT_OBJECT"] /\ Goto(i, "remove")
    <2>1. pc'[i] = "remove" /\ res'[i] = "CORRUPT_OBJECT"
      BY <1>11 DEF Goto, TypeInv
    <2>2. ~WholeWrite(i)
      <3> SUFFICES ASSUME WholeWrite(i) PROVE FALSE
        OBVIOUS
      <3>1. /\ \E m \in Nat : r = m * c
            /\ z <= Len(d) /\ \A k \in 1 .. z : d[k] = ((k - 1) % c) + 1
            /\ p + r = z
        BY <1>0, <1>3, <1>4, <1>5, <1>6 DEF WriteInv, Whole, Pattern
      <3>2. r >= c
        BY <1>6, <3>1, WholeLess
      <3>3. p + c <= z /\ p + c <= Len(d)
        <4>1. PICK L \in Nat : L = Len(d)
          BY <1>4
        <4>2. p + r = z /\ z <= Len(d)
          BY <3>1, Zenon
        <4>3. p + c <= z
          BY <3>2, <4>2
        <4> QED
          BY <4>1, <4>2, <4>3
      <3>4. Len(Bytes(i, c)) = c
        BY <1>8, <3>3
      <3>5. ASSUME NEW k \in 1 .. c PROVE d[p + k] = k
        <4>1. PICK m \in Nat : p = m * c
          BY <1>7
        <4>2. k - 1 \in 0 .. c - 1 /\ p + k \in 1 .. z /\ (p + k) - 1 = p + (k - 1)
          BY <3>3
        <4>3. (p + (k - 1)) % c = k - 1
          BY <4>1, <4>2, ChunkOffset
        <4>4. d[p + k] = (((p + k) - 1) % c) + 1
          BY <3>1, <4>2
        <4> QED
          BY <4>2, <4>3, <4>4
      <3>6. \A k \in 1 .. c : chunk_buf'[i][k] = k
        BY <1>10, <1>11, <3>4, <3>5
      <3>7. PICK b \in Seq(Nat) : b = chunk_buf'[i] /\ Len(b) = c /\ \A k \in 1 .. c : b[k] = k
        BY <1>10, <1>11, <3>6
      <3>8. b = [k \in 1 .. Len(b) |-> k]
        <4>1. b = [k \in 1 .. Len(b) |-> b[k]]
          OBVIOUS
        <4> QED
          BY <3>7, <4>1
      <3>9. verify_buffer(chunk_buf'[i])
        BY <3>7, <3>8 DEF verify_buffer, fill_buffer
      <3>10. ChunkRead(i)
        BY <1>3, <3>4 DEF ChunkRead
      <3> QED
        BY <1>11, <3>9, <3>10
    <2> QED
      BY <1>1, <2>1, <2>2, PatternQuiet
  <1>12. CASE /\ ReadInto(i, chunk_size(i)) /\ ChunkRead(i) /\ verify_buffer(chunk_buf'[i])
              /\ Keep(i) /\ After(i, "verify", "remove")
              /\ remain' = [remain EXCEPT ![i] = BytesLeft(i)]
    <2>1. pc'[i] = "verify" /\ res'[i] = "SUCCESS"
      BY <1>10, <1>12 DEF Keep, After, Goto, TypeInv
    <2>2. Len(Bytes(i, c)) = c /\ p + c <= Len(d)
      BY <1>3, <1>8, <1>12 DEF ChunkRead
    <2>3. pos'[i] = p + c /\ Data' = d
      BY <1>10, <1>12, <2>2
    <2>4. \A k \in 1 .. c : d[p + k] = k
      <3>1. PICK b \in Seq(Nat) : b = chunk_buf'[i] /\ Len(b) = c
        BY <1>10, <1>12
      <3>2. b = [k \in 1 .. c |-> k]
        BY <1>12, <3>1 DEF verify_buffer, fill_buffer
      <3>3. \A k \in 1 .. c : b[k] = k /\ b[k] = d[p + k]
        BY <1>10, <1>12, <2>2, <3>1, <3>2
      <3> QED
        BY <3>3
    <2>5. /\ \E m \in Nat : p + c = m * c
          /\ \A k \in 1 .. p + c : d[k] = ((k - 1) % c) + 1
      <3>1. \E m \in Nat : p + c = m * c
        BY <1>7, WholeMore
      <3>2. \A k \in 1 .. p + c : d[k] = ((k - 1) % c) + 1
        BY <1>7, <2>2, <2>4, PatternGrows
      <3> QED
        BY <3>1, <3>2
    <2>6. remain'[i] = (r - c) % M
      BY <1>2, <1>3, <1>6, <1>12 DEF BytesLeft, TypeInv
    <2>7. Count(M, z, p + c, (r - c) % M)
      <3>1. p + c < M
        <4>1. PICK L \in Nat : L = Len(d)
          BY <1>4
        <4> QED
          BY <1>4, <2>2, <4>1
      <3> QED
        BY <1>3, <1>7, <3>1, CountDown
    <2>8. VerifyInv(i)'
      BY <1>1, <1>2, <1>3, <2>1, <2>2, <2>3, <2>5, <2>6, <2>7 DEF VerifyInv, Whole, Pattern, Count
    <2>9. ASSUME WholeWrite(i)
          PROVE  /\ Whole(i, remain[i])' /\ Pattern(i, data_size(i))'
                 /\ pos'[i] + remain'[i] = data_size(i)
      <3>1. /\ \E m \in Nat : r = m * c
            /\ Pattern(i, data_size(i))
            /\ p + r = z
        BY <1>0, <1>3, <1>5, <1>6, <2>9 DEF WriteInv, Whole
      <3>2. r >= c /\ \E n \in Nat : r - c = n * c
        BY <1>6, <3>1, WholeLess
      <3>3. r - c \in 0 .. M - 1
        <4>1. r <= z
          BY <3>1
        <4> QED
          BY <1>3, <3>2, <4>1
      <3>4. remain'[i] = r - c
        BY <2>6, <3>3
      <3>5. Pattern(i, data_size(i))'
        BY <1>1, <1>4, <2>3, <3>1 DEF Pattern
      <3>6. pos'[i] + remain'[i] = z
        BY <2>3, <3>1, <3>4
      <3> QED
        BY <1>1, <1>3, <3>2, <3>4, <3>5, <3>6 DEF Whole
    <2>10. WriteInv(i)'
      BY <1>1, <2>1, <2>9 DEF WriteInv
    <2> QED
      BY <2>8, <2>10
  <1> QED
    BY <1>9, <1>11, <1>12 DEF VerifyChunk

\* The end of the verification: no byte is left, so that the count has not wrapped.
LEMMA PatternDone ==
    ASSUME Ownership, LengthInv, NEW i \in Instances, VerifyInv(i), WriteInv(i), VerifyDone(i)
    PROVE  VerifyInv(i)' /\ WriteInv(i)'
  <1> USE DEF Ownership
  <1>1. /\ pc[i] = "verify" /\ remain[i] = 0 /\ object[i] # NULL /\ arg[i] \in Requests[i]
        /\ pc'[i] = "remove" /\ store[File] # NULL /\ res[i] = "SUCCESS"
        /\ UNCHANGED <<store, arg, object, chunk_buf, remain, pos, res>>
    BY DEF VerifyDone, Goto, teeVars, localVars, HandleInv, Holding, CallInv, TypeInv, ResultInv, Testing
  <1>2. /\ data_size(i)' = data_size(i) /\ chunk_size(i)' = chunk_size(i) /\ Data' = Data
        /\ WholeWrite(i)' = WholeWrite(i)
    BY <1>1 DEF data_size, chunk_size, Data, WholeWrite
  <1>3. PICK M \in Nat, z \in Nat : M = 2^SizeWidth /\ z = data_size(i) /\ z < M
    BY <1>1, BenchmarkAssumption, SizeFacts
  <1>4. PICK p \in Nat : p = pos[i] /\ p < M
    <2>1. PICK L \in Nat : L = Len(Data) /\ L < M
      BY <1>1, <1>3, HeldFacts DEF LengthInv
    <2> QED
      BY <1>1, <2>1, HeldFacts DEF TypeInv
  <1>5. p = z
    BY <1>1, <1>3, <1>4 DEF VerifyInv
  <1>6. Whole(i, data_size(i))' /\ Pattern(i, data_size(i))'
    BY <1>1, <1>2, <1>3, <1>4, <1>5 DEF VerifyInv, Whole, Pattern
  <1> QED
    BY <1>1, <1>2, <1>6 DEF VerifyInv, WriteInv

\* The bytes of the file are as the three layers say.
THEOREM BenchmarkPattern == Spec => []PatternLayer
  <1>1. Init => PatternLayer
    BY DEF Init, InstanceInit, NoArg, PatternLayer, VerifyInv, WriteInv, WholeWrite
  <1>2. Ownership /\ Progress /\ PatternLayer /\ [Next]_vars => PatternLayer'
    <2> SUFFICES ASSUME Ownership, Progress, PatternLayer, [Next]_vars PROVE PatternLayer'
      OBVIOUS
    <2>1. CASE UNCHANGED vars
      <3>1. \A j \in Instances : Kept(j)
        BY <2>1 DEF vars, teeVars, callVars, localVars, Kept
      <3> QED
        BY <3>1, PatternKept DEF PatternLayer
    <2>2. CASE Restart
      BY <2>2 DEF Restart, NoArg, PatternLayer, VerifyInv, WriteInv, WholeWrite
    <2>3. ASSUME NEW i \in Instances, Invoke(i) \/ TaStep(i) PROVE PatternLayer'
      <3>1. LengthInv /\ ProgressInv(i) /\ VerifyInv(i) /\ WriteInv(i)
        BY DEF Progress, PatternLayer
      <3>2. VerifyInv(i)' /\ WriteInv(i)'
        BY <2>3, <3>1, PatternBefore, PatternOpen, PatternWrite, PatternOther, PatternAfter,
           PatternVerify, PatternDone
           DEF TaStep, verify_file_data
      <3>3. \A j \in Instances \ {i} : VerifyInv(j)' /\ WriteInv(j)'
        BY <2>3, OthersKept, PatternKept DEF PatternLayer
      <3> QED
        BY <3>2, <3>3 DEF PatternLayer
    <2> QED
      BY <2>1, <2>2, <2>3 DEF Next
  <1> QED
    BY <1>1, <1>2, BenchmarkOwnership, BenchmarkProgress, PTL DEF Spec

\* ResultsTrue: a verified success is one, whole chunks of the pattern and no wrapped
\* count; a write test of whole chunks is never corrupt; and a test that succeeded went
\* through its bytes (verify_file_data and the tests of benchmark.c).
THEOREM BenchmarkResults == Spec => []ResultsTrue
  <1>1. Ownership /\ Progress /\ PatternLayer => ResultsTrue
    <2> SUFFICES ASSUME Ownership, Progress, PatternLayer, NEW i \in Instances
                 PROVE  /\ pc[i] = "remove" /\ res[i] = "SUCCESS" /\ arg[i].do_verify =>
                            /\ data_size(i) % chunk_size(i) = 0
                            /\ Len(Data) >= data_size(i)
                            /\ \A k \in 1 .. data_size(i) : Data[k] = ((k - 1) % chunk_size(i)) + 1
                        /\ WholeWrite(i) => res[i] # "CORRUPT_OBJECT"
                        /\ pc[i] = "test" /\ remain[i] = 0 =>
                            \/ pos[i] = data_size(i)
                            \/ /\ arg[i].cmd = "TEST_READ"
                               /\ Len(opened[i]) < data_size(i)
                               /\ pos[i] = Len(opened[i])
      BY DEF ResultsTrue, Data, WholeWrite
    <2>1. VerifyInv(i) /\ WriteInv(i) /\ ProgressInv(i) /\ CallInv(i) /\ ResultInv(i) /\ TypeInv
      BY DEF Ownership, Progress, PatternLayer
    <2>2. ASSUME pc[i] = "remove", res[i] = "SUCCESS", arg[i].do_verify
          PROVE  /\ data_size(i) % chunk_size(i) = 0
                 /\ Len(Data) >= data_size(i)
                 /\ \A k \in 1 .. data_size(i) : Data[k] = ((k - 1) % chunk_size(i)) + 1
      <3>1. /\ \E m \in Nat : data_size(i) = m * chunk_size(i)
            /\ data_size(i) <= Len(Data)
            /\ \A k \in 1 .. data_size(i) : Data[k] = ((k - 1) % chunk_size(i)) + 1
        BY <2>1, <2>2 DEF VerifyInv, Whole, Pattern
      <3>2. PICK c \in Nat \ {0}, z \in Nat : c = chunk_size(i) /\ z = data_size(i)
        BY <2>1, <2>2, SizeFacts DEF CallInv
      <3>3. z % c = 0
        BY <3>1, <3>2, WholeMultiple
      <3>4. PICK L \in Nat : L = Len(Data)
        BY <2>1, <2>2, HeldFacts DEF Ownership, VerifyInv
      <3> QED
        BY <3>1, <3>2, <3>3, <3>4
    <2>3. WholeWrite(i) => res[i] # "CORRUPT_OBJECT"
      BY <2>1 DEF WriteInv
    <2>4. ASSUME pc[i] = "test", remain[i] = 0
          PROVE  \/ pos[i] = data_size(i)
                 \/ /\ arg[i].cmd = "TEST_READ"
                    /\ Len(opened[i]) < data_size(i)
                    /\ pos[i] = Len(opened[i])
      <3>1. PICK z \in Nat, p \in Nat : z = data_size(i) /\ p = pos[i]
        BY <2>1, <2>4, SizeFacts DEF CallInv, TypeInv
      <3>2. CASE arg[i].cmd # "TEST_READ"
        BY <2>1, <2>4, <3>1, <3>2 DEF ProgressInv
      <3>3. CASE arg[i].cmd = "TEST_READ"
        <4>1. opened[i] \in Seq(Nat)
          BY <2>1, <2>4 DEF ResultInv, Testing, TypeInv
        <4>2. PICK L \in Nat : L = Len(opened[i])
          BY <4>1
        <4>3. p = Min({z - 0, L}) /\ z - 0 = z
          BY <2>1, <2>4, <3>1, <3>3, <4>2 DEF ProgressInv
        <4>4. Min({z, L}) = IF z <= L THEN z ELSE L
          BY MinOfTwo
        <4>5. p = IF z <= L THEN z ELSE L
          BY <4>3, <4>4
        <4>6. CASE z <= L
          BY <3>1, <4>5, <4>6
        <4>7. CASE ~(z <= L)
          BY <3>1, <3>3, <4>2, <4>5, <4>7
        <4> QED
          BY <4>6, <4>7
      <3> QED
        BY <3>2, <3>3
    <2> QED
      BY <2>2, <2>3, <2>4
  <1> QED
    BY <1>1, BenchmarkOwnership, BenchmarkProgress, BenchmarkPattern, PTL
=============================================================================
