------------------------------ MODULE MCLfRef ------------------------------
\* Model-checking instance of LfRef.
EXTENDS LfRef, TLC

\* Pairs of two words on every CPU, with either byte order under LL/SC, and
\* packed ones, all with the byte order declared (for GCC on x86: with
\* -D__LITTLE_ENDIAN__).
MCBuilds ==
    {b \in Build :
        /\ b.little <=> b.low = "ptr"
        /\ b.split <=> b.cpu \in {"gcc_x86", "llvm_x86", "c11"}
        /\ b.cpu # "c11" => b.wide
        /\ b.cpu \in {"gcc_x86", "llvm_x86", "c11"} => b.little}

\* GCC on x86 as it is: the pointer has the lower address, the macro is not
\* defined.
MCGccBuild == {b \in Build : /\ b.cpu = "gcc_x86" /\ b.wide /\ b.split
                            /\ b.low = "ptr" /\ ~b.little}

Symmetry == Permutations(Threads)
=============================================================================
