--------------------------- MODULE DescriptorTable ---------------------------
(***************************************************************************)
(* The descriptors of the process and the kernel's sockets behind them, as *)
(* the socket classes use them: socket() and accept() give the lowest free *)
(* number, close() frees it for the next call of any class.                *)
(***************************************************************************)
EXTENDS Integers

CONSTANT Descriptors   \* the process's limit

ASSUME DescriptorAssumption == Descriptors \subseteq Nat

NoDescriptor == -1

VARIABLE kernel   \* what each descriptor stands for

\* "ready" and "blocking" are raw sockets with IP_HDRINCL.
KernelSocket == {"free", "stream", "listening", "connected",
                 "raw", "ready", "blocking"}

\* The descriptor a call that makes a socket returns, if there is one.
IsNext(fd) == /\ kernel[fd] = "free"
              /\ \A low \in Descriptors : low < fd => kernel[low] # "free"

\* The table once an object has closed the descriptor it holds, if any.
Without(fd) == IF fd = NoDescriptor THEN kernel ELSE [kernel EXCEPT ![fd] = "free"]
=============================================================================
