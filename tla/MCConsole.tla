----------------------------- MODULE MCConsole -----------------------------
(* An instance of Console for TLC. *)
EXTENDS Console

CONSTANTS r1, r2, w1, w2, k1

\* Two readers and what is edited; two writers against the kernel's own output;
\* a reader and a writer; a
\* reader that is killed.
MCMixes ==
  {[users |-> {r1, r2}, keys |-> Keys \ {Dump}, victims |-> {}, counts |-> {2}],
   [users |-> {w1, w2, k1}, keys |-> {}, victims |-> {w1}, counts |-> {1}],
   [users |-> {k1, w1}, keys |-> {Dump}, victims |-> {}, counts |-> {0, 1}],
   [users |-> {r1, w1}, keys |-> {Newline}, victims |-> {}, counts |-> {1}],
   [users |-> {r1}, keys |-> {Letter, EndOfFile}, victims |-> {r1}, counts |-> {2}]}

\* Characters that are out of the buffer or the ring are never read again, nor
\* are the counts of a call that has returned.
MCView ==
  <<r, w, e, [k \in 1 .. Edited |-> buf[(r + k - 1) % INPUT_BUF_SIZE]],
    uart_tx_r, uart_tx_w,
    [k \in 1 .. (uart_tx_w - uart_tx_r) % UINT |->
       uart_tx_buf[(uart_tx_r + k - 1) % UART_TX_BUF_SIZE]],
    uart, locks, mix, killed, pc,
    [p \in Procs |-> IF pc[p] = "idle" THEN <<0, 0>> ELSE <<n[p], target[p]>>]>>
=============================================================================
