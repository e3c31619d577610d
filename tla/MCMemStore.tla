------------------------------ MODULE MCMemStore ------------------------------
(* MemStoreStream for TLC. *)
EXTENDS MemStoreStream

FewContents == {Text, Num(1), Num(MinInt)}

\* Every command, with operands for which its branches differ.
MCCommand ==
  LET any == [name : {"SET", "SETNX", "GETSET"}, key : Key, val : {Text, Num(1)}]
      counters == [name : {"INCRBY", "DECRBY"}, key : Key, val : FewContents]
      keys == [name : {"APPEND", "PERSIST"}, key : Key]
                \cup [name : {"EXPIRE"}, key : Key, val : {Text, Num(1)}]
                \cup [name : {"RENAME"}, key : Key, to : Key]
                \cup [name : {"DEL"}, keys : (SUBSET Key) \ {{}}]
                \cup {[name |-> "FLUSH"], [name |-> "LPUSH"]}
      hashes == [name : {"HSET"}, key : Key, pairs : UNION {[fs -> {Text, Num(1)}] : fs \in (SUBSET Field) \ {{}}}]
                  \cup [name : {"HSETNX"}, key : Key, field : Field, val : {Num(1)}]
                  \cup [name : {"HINCRBY"}, key : Key, field : Field, val : FewContents]
                  \cup [name : {"HDEL"}, key : Key, fields : SUBSET Field]
      sets == [name : {"SADD", "SREM"}, key : Key, members : SUBSET Member]
  IN  any \cup counters \cup keys \cup hashes \cup sets
==============================================================================
