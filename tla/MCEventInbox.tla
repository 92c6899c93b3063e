---------------------------- MODULE MCEventInbox ----------------------------
EXTENDS EventInbox

Has(bg, mon) == [k \in {"bg", "mon"} |-> IF k = "bg" THEN bg ELSE mon]

\* The tasks of each process, and how many mails come.
Plan(s, n) == [starts |-> s, mails |-> n]

\* A shell and a monitor; a monitor and a peer that repeats itself; a shell, and a monitor, before
\* the shell of another process, which may have the first one's name; and a third that only restores.
ShellAndMonitor == Plan(<<Has(1, 1), Has(0, 0)>>, 0)
MonitorAndMail == Plan(<<Has(0, 1), Has(0, 0)>>, 2)
ShellAgain == Plan(<<Has(1, 0), Has(1, 0), Has(0, 0)>>, 0)
MonitorThenShell == Plan(<<Has(0, 1), Has(1, 0)>>, 0)
Mixed == {ShellAndMonitor, MonitorAndMail, ShellAgain, MonitorThenShell}

\* A shell in each of two processes; a shell, and a monitor, that one process leaves.
ShellEachTime == Plan(<<Has(1, 0), Has(1, 0)>>, 0)
ShellThenNone == Plan(<<Has(1, 0), Has(0, 0)>>, 0)
MonitorThenNone == Plan(<<Has(0, 1), Has(0, 0)>>, 0)
Findings == {ShellEachTime, ShellThenNone, MonitorThenNone}
=============================================================================
