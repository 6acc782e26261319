------------------------------ MODULE MCDumpLoad ------------------------------
\* Every start of a file of up to four characters, and those with the known magic
\* and up to four bytes behind it.
EXTENDS DumpLoad

MCKnown == <<1, 2>>
MCFiles == SeqOf(Chars, 4) \cup {Append(MCKnown, NUL) \o b : b \in SeqOf({0, 1}, 4)} \cup {NoFile}
===============================================================================
