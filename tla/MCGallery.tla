----------------------------- MODULE MCGallery -----------------------------
(***************************************************************************)
(* Small instances of Gallery: which requests each run sends.              *)
(***************************************************************************)
EXTENDS Gallery

CONSTANTS m1, m2, k1, k2

Ask(op, ks, ms, args) == [op : {op}, key : ks, model : ms, arg : args]

Uploads == Ask("upload", {k1}, {m1}, {"bytes"})

\* Two reporters, and a moderator at the console.
ReportRequests ==
    Uploads \cup Ask("report", {k1, k2}, {m1}, {"reason"})
            \cup Ask("admin", {Cli}, {m1}, {"approve", "unlist"})

\* One key uploads two models and is banned for the first.
BanRequests ==
    Ask("upload", {k1}, {m1, m2}, {"bytes"})
        \cup Ask("admin", {Cli}, {m1}, {"ban", "approve"}) \cup Ask("admin", {k2}, {m1}, {"ban"})

\* A console whose own model gets it banned votes, withdraws, hearts and
\* reports on another console's model, which votes too.
ConsoleRequests ==
    Uploads \cup Ask("upload", {k2}, {m2}, {"bytes"})
        \cup Ask("vote", {k1}, {m2}, {"none", "up"})
        \cup Ask("vote", {k2}, {m2}, {"down"})
        \cup Ask("favourite", {k1}, {m2}, {"on"})
        \cup Ask("report", {k1}, {m2}, {"reason"})
        \cup Ask("admin", {k2}, {m1}, {"ban"})
=============================================================================
