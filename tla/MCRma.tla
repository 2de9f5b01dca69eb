------------------------------- MODULE MCRma --------------------------------
(***************************************************************************)
(* A small job for TLC: PEs 0 and 1 on one host, PE 2 on another.  The     *)
(* sync pool takes cells 0 and 1 of the heap, the first allocation cells 2 *)
(* to 13; the second, at 14, is freed and its place taken by the array in  *)
(* cells 14 to 17, of which 14 and 15 are signal words; the aligned block  *)
(* is at 20.                                                               *)
(* The programs call every form of every operation; a PE waits for what it *)
(* posted before it copies again or before others use the data.            *)
(***************************************************************************)
EXTENDS Rma

MCHostOf == [p \in PE |-> IF p = 2 THEN "b" ELSE "a"]

MCRequests == <<Malloc(12), Malloc(1), Calloc(5, 9), Free(2), Calloc(2, 2), Align(4, 2)>>

MCSignals == {14, 15}

Get(api, dst, src, n, sz, q) ==
  [api |-> api, dst |-> dst, src |-> src, n |-> n, sz |-> sz, pe |-> q]
Put(api, dst, src, n, sz, q) == Get(api, dst, src, n, sz, q)

Rows(rows, len, sld, dld) == [rows |-> rows, len |-> len, sld |-> sld, dld |-> dld]
Sig(op, val) == [sig |-> 14, sigop |-> op, val |-> val, stale |-> 4]
Word1(api) == [api |-> api]
At14(api, cmp, val) == [api |-> api, sig |-> 14, cmp |-> cmp, val |-> val]
SignalOp(op, val, q) == [api |-> "signal_op", sigop |-> op, sig |-> 14, val |-> val, pe |-> q]
All(api, n, skip, val) ==
  [api |-> api, sig |-> 14, n |-> n, sz |-> 1, skip |-> skip, cmp |-> "ge", val |-> val]

Quiet == Word1("quiet")
RoceQuiet == Word1("roce_quiet")
K(calls) == [api |-> "kernel", calls |-> calls]
Wait == [api |-> "sync"]

Alone(s) == [p \in PE |-> IF p = 0 THEN s ELSE <<>>]
Both(s, t) == [p \in PE |-> IF p = 0 THEN s ELSE IF p = 1 THEN t ELSE <<>>]

(* Copies by one PE. *)
Copying ==
  {Alone(<<K(c)>>) : c \in {
    <<Get("getmem", 2, 8, 5, 1, 1), Put("putmem", 8, 2, 4, 1, 1)>>,
    <<Get("get_mem", 2, 6, 3, 2, 1), Put("put_mem", 8, 2, 3, 2, 0)>>,
    <<Get("getmem_nbi", 2, 8, 6, 1, 1), Quiet, Put("putmem_nbi", 8, 2, 5, 1, 1), Quiet>>,
    <<Get("get_mem_nbi", 2, 8, 5, 1, 1), Quiet, Put("put_mem_nbi", 8, 2, 3, 2, 1), Quiet>>,
    <<Get("get_mem_nbi", 2, 8, 5, 1, 2), RoceQuiet, Put("put_mem_nbi", 2, 2, 3, 2, 2),
      Put("put_mem_nbi", 8, 8, 3, 1, 2), RoceQuiet>>,
    <<Get("get_mem_tensor_nbi", 2, 8, 5, 1, 1), Quiet,
      Put("put_mem_tensor_nbi", 8, 2, 6, 1, 1), Quiet>>,
    <<Get("get_mem_tensor_nbi", 2, 8, 5, 1, 2), RoceQuiet,
      Put("put_mem_tensor_nbi", 8, 2, 5, 1, 2), RoceQuiet>>,
    <<Get("get_mem_detailed_nbi", 2, 2, 0, 1, 1) @@ Rows(2, 3, 4, 5), Quiet,
      Put("put_mem_detailed_nbi", 3, 2, 0, 2, 1) @@ Rows(2, 1, 2, 3), Quiet>>,
    <<Get("get_mem_tensor_detailed_nbi", 2, 2, 0, 1, 1) @@ Rows(3, 2, 3, 4), Quiet,
      Put("put_mem_tensor_detailed_nbi", 2, 2, 0, 1, 1) @@ Rows(2, 3, 5, 4), Quiet>>,
    <<Get("get_mem_ub_nbi", 4, 2, 5, 1, 1), Quiet,
      Put("put_mem_ub_nbi", 3, 4, 5, 1, 0), Quiet>>,
    <<Get("get_mem_ub_tensor_nbi", 0, 2, 3, 2, 1), Quiet,
      Put("put_mem_ub_tensor_nbi", 7, 2, 4, 1, 1), Quiet>>,
    <<Get("get_mem_ub_detailed_nbi", 4, 2, 0, 1, 1) @@ Rows(2, 3, 5, 4), Quiet,
      Put("put_mem_ub_detailed_nbi", 2, 4, 0, 1, 0) @@ Rows(2, 2, 4, 3), Quiet>>,
    <<Get("get_mem_ub_tensor_detailed_nbi", 0, 2, 0, 1, 1) @@ Rows(2, 3, 6, 8), Quiet,
      Put("put_mem_ub_tensor_detailed_nbi", 2, 0, 0, 1, 1) @@ Rows(2, 4, 8, 6), Quiet>>,
    \* refused: it would leave the unified buffer
    <<Get("get_mem_ub_nbi", 12, 2, 5, 1, 1)>>}}

(* A copy with a signal, and a PE that waits for it and sends the data on. *)
Forwards(cmp, val) ==
  <<K(<<At14("signal_wait_until", cmp, val), Put("put_mem", 8, 2, 5, 1, 0),
        At14("test", cmp, val), [api |-> "g", src |-> 2, pe |-> 1]>>)>>

Signalling ==
  {Both(<<K(<<x[1]>>)>>, Forwards(x[2], x[3])) : x \in {
    <<Put("putmem_signal", 2, 2, 5, 1, 1) @@ Sig("set", 3), "eq", 3>>,
    <<Put("put_mem_signal", 2, 2, 3, 2, 1) @@ Sig("add", 2), "ge", 2>>,
    <<Put("put_mem_signal_tensor", 2, 2, 5, 1, 1) @@ Sig("set", 1), "gt", 0>>,
    <<Put("put_mem_signal_detailed", 2, 2, 0, 1, 1) @@ Rows(2, 2, 3, 3) @@ Sig("set", 1), "ne", 0>>,
    <<Put("put_mem_signal_tensor_detailed", 2, 2, 0, 1, 1) @@ Rows(2, 3, 4, 3) @@ Sig("add", 1),
      "ge", 1>>,
    <<Put("putmem_signal_nbi", 2, 2, 5, 1, 1) @@ Sig("set", -1), "lt", 0>>,
    <<Put("put_mem_signal_nbi", 2, 2, 5, 1, 1) @@ Sig("set", -1), "le", -1>>,
    <<Put("put_mem_signal_tensor_nbi", 2, 2, 3, 2, 1) @@ Sig("add", 1), "eq", 1>>,
    <<Put("put_mem_signal_detailed_nbi", 2, 2, 0, 1, 1) @@ Rows(2, 3, 4, 3) @@ Sig("set", 1),
      "eq", 1>>,
    <<Put("put_mem_signal_tensor_detailed_nbi", 2, 2, 0, 1, 1) @@ Rows(3, 2, 2, 2) @@ Sig("add", 4),
      "gt", 3>>}}
  \cup
  \* the same cells, announced twice
  {Both(<<K(<<Put("put_mem_signal", 2, 2, 3, 1, 1) @@ Sig("set", 1),
              Put("put_mem_signal_detailed", 3, 6, 0, 1, 1) @@ Rows(2, 2, 3, 2) @@ Sig("set", 2)>>)>>,
        Forwards("eq", 2))}

(* Words: two PEs add to the same one; several are waited for at once. *)
Words ==
  {Both(<<K(<<SignalOp("add", 1, 1), Quiet>>)>>,
        <<K(<<SignalOp("add", 1, 1), At14("signal_wait_until", "eq", 2),
              [api |-> "signal_fetch", sig |-> 14]>>)>>),
   Both(<<K(<<[api |-> "p", dst |-> 15, val |-> 1, pe |-> 1], SignalOp("set", 1, 1)>>)>>,
        <<K(<<All("wait_until_all", 2, {}, 1), All("test_all", 2, {1}, 1)>>)>>),
   Both(<<K(<<SignalOp("none", 1, 1)>>)>>,
        <<K(<<At14("signal_wait_until", "any", 1), All("wait_until_all", 2, {0, 1}, 1)>>)>>)}

(* Calls of the host, each a kernel of its own. *)
Hosted ==
  {Alone(<<Put("host_put_mem", 2, 2, 3, 2, 1),
           [api |-> "set_ub_params", at |-> 4, size |-> 3],
           Put("host_put_mem_nbi", 8, 8, 2, 2, 1), Wait,
           [api |-> "host_g", src |-> 9, pe |-> 1]>>),
   Alone(<<Get("host_get_mem", 2, 6, 5, 1, 1), Get("host_get_mem_nbi", 7, 2, 3, 1, 1), Wait,
           [api |-> "host_g", src |-> 9, pe |-> 2]>>),
   Alone(<<Put("host_putmem", 2, 2, 5, 1, 1), Get("host_getmem", 8, 2, 5, 1, 1)>>),
   Alone(<<Put("host_putmem_nbi", 2, 2, 5, 1, 2), Get("host_getmem_nbi", 8, 2, 3, 1, 1)>>),
   Both(<<Put("host_put_mem_signal", 2, 2, 2, 2, 1) @@ Sig("set", 1),
          Put("host_putmem_signal", 8, 8, 3, 1, 1) @@ Sig("add", 1)>>, Forwards("eq", 2)),
   Both(<<Put("host_put_mem_signal_nbi", 2, 2, 3, 1, 1) @@ Sig("set", 1),
          Put("host_putmem_signal_nbi", 6, 6, 4, 1, 1) @@ Sig("add", 1),
          [api |-> "host_p", dst |-> 15, val |-> 1, pe |-> 1]>>, Forwards("ge", 2))}

MCPrograms == Copying \cup Signalling \cup Words \cup Hosted

(* A host that puts a word and reads it back, by synchronous calls. *)
MCSynchronous ==
  {Alone(<<Put("host_put_mem", 2, 2, 1, 1, 1), [api |-> "host_g", src |-> 2, pe |-> 1]>>)}
=============================================================================
