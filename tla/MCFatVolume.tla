---------------------------- MODULE MCFatVolume -----------------------------
(***************************************************************************)
(* FatVolume for TLC: one handle over two files, calls of CallSizes units, *)
(* files of up to MaxFile, a directory of up to MaxDir.                    *)
(***************************************************************************)
EXTENDS FatVolume, TLC

CONSTANTS CallSizes, MaxFile, MaxDir

Alike == Permutations(Files) \cup Permutations(Values)

Common ==
    \/ \E f \in Files : fat_open(f)
    \/ \E f \in Files : fat_unlink(f)
    \/ \E p \in 0 .. file.size : fat_lseek(p)
    \/ \E n \in CallSizes : fat_read(n)
    \/ WriteLongName \/ WriteShortName \/ CreateReturns
    \/ fat_chain_unlink \/ UnlinkReturns
    \/ SeekCluster \/ LseekReturns
    \/ WriteInCluster \/ WriteToNext \/ WriteToNew \/ WriteClipped \/ WriteReturns
    \/ ReadPiece \/ ReadReturns

Create == EmptySlot + 2 <= MaxDir /\ \E f \in Files : fat_create(f)

Write == \E n \in CallSizes, v \in Values : file.pos + n <= MaxFile /\ fat_write(n, v)

\* Any caller.
MCSpec == Init /\ [][Common \/ Create \/ Write]_vars

\* A caller that heeds the free space.
MCHeedingSpec == Init /\ [][(Common \/ Create \/ Write) /\ CallerHeeds]_vars

=============================================================================
