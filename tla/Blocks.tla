------------------------------- MODULE Blocks -------------------------------
(***************************************************************************)
(* How parallel_for_each, parallel_for_each_async, parallel_find and       *)
(* exception_safe_accumulate divide a range into blocks: one for each      *)
(* thread they start, and the rest for the caller.                         *)
(***************************************************************************)
EXTENDS Integers

\* min_per_thread; 25 in the code.
CONSTANT MinPerThread

ASSUME MinAssumption == MinPerThread \in Nat \ {0}

\* thread_num: hardware threads, or 2 if their number is unknown, but not more
\* than it takes to give each min_per_thread elements.
ThreadNum(length, hardware) ==
  LET maxThreads == (length + MinPerThread - 1) \div MinPerThread
      available == IF hardware # 0 THEN hardware ELSE 2
  IN IF available <= maxThreads THEN available ELSE maxThreads

BlockSize(length, hardware) == length \div ThreadNum(length, hardware)

\* Block i, counted from 0: the last one runs to the end of the range.
BlockStart(length, hardware, i) == i * BlockSize(length, hardware)
BlockEnd(length, hardware, i) ==
  IF i = ThreadNum(length, hardware) - 1 THEN length ELSE (i + 1) * BlockSize(length, hardware)
=============================================================================
