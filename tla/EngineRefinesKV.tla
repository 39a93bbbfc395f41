--------------------------- MODULE EngineRefinesKV ---------------------------
(* StorageEngine as an implementation of KVStore.                           *)
EXTENDS StorageEngine

\* What a client can observe of a key, now or after a restart.  While the inputs of a
\* compaction are unlinked only get() can observe it: the instances that refine KVStore
\* have no crash there (that crash is what DeletedKeysStayDeleted is about).
Contents == [k \in Key |-> IF pc = "cleanup" THEN Get(k) ELSE Recovered(k)]

OpenCall == IF pc = "append"
            THEN [key |-> op.key, answer |-> Visible(op.val)]
            ELSE NoOp

\* NoOp stands for "no call" in KVStore too.
ASSUME CallConstants == NoOp \notin [key : Key, answer : Value \cup {Absent}]

KV == INSTANCE KVStore WITH NotFound <- Absent, NoCall <- NoOp,
                            db <- Contents, pending <- OpenCall

\* The engine implements a durable key-value store: flush, truncation, compaction, crashes
\* outside the cleanup and restarts change nothing that a client can observe, and a call
\* takes effect at most once.
RefinesKVStore == KV!Spec

-----------------------------------------------------------------------------
\* The environment loses no byte: a file may fail to be created and the log to be truncated,
\* and the process may die anywhere but between two unlinks of maybe_compact().
NothingLost == /\ Faults \subseteq {"build_error", "clear_error"}
               /\ "cleanup" \notin CrashPoints

\* Without torn writes, failing opens and failing unlinks the log is intact, only a crash
\* leaves a call in doubt, and no file leaks from flush, maybe_compact() or load_sstables():
\* every one is open, about to be unlinked, or being written.
Undamaged ==
    /\ \A i \in DOMAIN wal : wal[i] # Torn
    /\ pc # "down" => \A k \in Key : maybe[k] = {}
    /\ pc \in {"install", "swap"} => files[next_seq] # Torn
    /\ pc # "down" => \A n \in DOMAIN files :
                         \/ n \in Range(sstables) \cup Range(old_paths)
                         \/ n = next_seq /\ pc \in {"install", "swap"}
=============================================================================
