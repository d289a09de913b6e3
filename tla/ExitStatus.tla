------------------------------ MODULE ExitStatus ------------------------------
(* How a program of the repository ends.                                    *)
EXTENDS Integers

Running     == -1       \* it has not ended
Success     == 0
Failure     == 1
UsageError  == 2        \* argparse
Interrupted == 130      \* KeyboardInterrupt came through
==============================================================================
