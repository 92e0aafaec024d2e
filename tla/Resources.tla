------------------------------ MODULE Resources ------------------------------
(***************************************************************************)
(* What the program holds and moves through the I/O workers: the loops that *)
(* transfer a whole buffer, the descriptors of sockets and files, the       *)
(* buffers, and the creation of directories.  The parts do not share state; *)
(* a behaviour is one of one part, which Init chooses.                      *)
(***************************************************************************)
EXTENDS Transfers, Descriptors, Buffers, Directories

VARIABLE part

Parts == {"transfers", "descriptors", "buffers", "directories"}

vars == <<part, transferVars, descriptorVars, bufferVars, directoryVars>>

TypeOK ==
    /\ part \in Parts
    /\ TransferTypeOK /\ DescriptorTypeOK /\ BufferTypeOK /\ DirectoryTypeOK

\* The choices that a part makes in its initial state are made only for the part
\* that runs.
Init ==
    /\ part \in Parts
    /\ TransferInit /\ DescriptorInit /\ BufferInit /\ DirectoryInit
    /\ part # "transfers" => way = CHOOSE w \in Ways : TRUE
    /\ part # "buffers" => where = [h \in Holders |-> CHOOSE e \in Threads : TRUE]
    /\ part # "directories" => target = [m \in Makers |-> CHOOSE p \in Paths : TRUE]

InTransfers(A) == part = "transfers" /\ A /\ UNCHANGED <<part, descriptorVars, bufferVars, directoryVars>>
InDescriptors(A) == part = "descriptors" /\ A /\ UNCHANGED <<part, transferVars, bufferVars, directoryVars>>
InBuffers(A) == part = "buffers" /\ A /\ UNCHANGED <<part, transferVars, descriptorVars, directoryVars>>
InDirectories(A) == part = "directories" /\ A /\ UNCHANGED <<part, transferVars, descriptorVars, bufferVars>>

Next ==
    \/ InTransfers(TransferNext)
    \/ InDescriptors(DescriptorNext)
    \/ InBuffers(BufferNext)
    \/ InDirectories(DirectoryNext)

Spec == Init /\ [][Next]_vars

\* The kernel takes and gives bytes as long as there are any; a request to make a
\* directory is answered and its task polled again.
FairSpec ==
    /\ Spec
    /\ WF_vars(InTransfers(Writing)) /\ WF_vars(InTransfers(Reading))
    /\ \A m \in Makers : WF_vars(InDirectories(MakeDir(m) \/ IsDir(m)))

-----------------------------------------------------------------------------
(* Properties *)

\* Bytes end up where they belong: a transfer that is done has moved each byte of its
\* buffer once and in place, over any number of short answers, and a buffer keeps its
\* content over resize, append and the pools.
DataIsExact == TypeOK /\ TransferIsExact /\ ContentIsKept

\* What is given back is given back once and to its owner: a descriptor has one owner
\* until the kernel has closed it, a fixed buffer is used and returned where it is
\* registered.
OneOwner == DescriptorsHaveOneOwner /\ FixedBuffersStayHome /\ LentTasksStay


\* The loops end: an exact transfer with a peer that goes on, a create_dir_all whose
\* path nobody else completes.
OperationsEnd == TransferEnds /\ CreateReturns

=============================================================================
