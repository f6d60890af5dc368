---------------------------- MODULE MCBenchmark ----------------------------
(* Constants for model-checking the storage benchmark TA. *)
EXTENDS BenchmarkTa, TLC

CONSTANTS i1, i2, h1

MCFile == <<"private", "BenchmarkTestFile">>

Request(cmds, sizes, chunks, verify) ==
    {[cmd |-> c, types |-> TRUE, data_size |-> d, chunk_size |-> k, do_verify |-> v] :
        c \in cmds, d \in sizes, k \in chunks, v \in verify}

BadRequests ==
    {[cmd |-> "TEST_READ", types |-> FALSE, data_size |-> 1, chunk_size |-> 1, do_verify |-> FALSE],
     [cmd |-> "other", types |-> TRUE, data_size |-> 1, chunk_size |-> 1, do_verify |-> FALSE]}

\* One session runs every test with sizes that are a multiple of the chunk and that are
\* not; the other one makes a shorter file and a longer one in other chunks.
MCRequests ==
    i1 :> (Request(Commands, {0}, {0, 1}, {TRUE}) \cup Request(Commands, {3}, {2}, {TRUE})
           \cup Request({"TEST_READ"}, {0}, {0}, {FALSE}) \cup BadRequests)
    @@ i2 :> Request({"TEST_WRITE"}, {1}, {1}, {FALSE}) \cup Request({"TEST_READ"}, {4}, {2}, {FALSE})
=============================================================================
