------------------------------ MODULE MCServer ------------------------------
(***************************************************************************)
(* Small instances of Server for TLC: who asks what, in each run.          *)
(***************************************************************************)
EXTENDS ServerProperties, TLC

CONSTANTS c1, c2, c3

NoLength == -1

Ask(method, target) ==
  [method |-> method, target |-> target, length |-> NoLength, close |-> FALSE]
Post(target, n) ==
  [method |-> "POST", target |-> target, length |-> n, close |-> FALSE]
Closing(q) == [q EXCEPT !.close = TRUE]

\* Three clients, two slots: the answers are decided in one turn of the
\* handler and fit in the buffers; at most one of them is malformed.
IsolationScripts ==
  {f \in [{c1, c2, c3} -> {<<Ask("GET", "file")>>, <<Ask("MALFORMED", "file")>>}] :
     \A c, d \in {c1, c2, c3} :
       f[c][1].method = "MALFORMED" /\ f[d][1].method = "MALFORMED" => c = d}

\* One client that asks for one thing after the other: every kind of answer
\* once as the first and once as the second of a pair, with files, bodies and
\* scripts whose output is longer than a buffer.
OneAsks ==
  <<Ask("GET", "file"), Post("cgi", 3), Ask("GET", "missing"), Ask("GET", "cgi"),
    Ask("GET", "noperm"), Post("file", 2), Ask("OTHER", "file"), Post("cgi", 0),
    Ask("HEAD", "file"), Post("file", NoLength)>>

\* Then what the server does not answer: a malformed header, a directory, a body
\* larger than cgi_buffer; and a second client that stops anywhere, in a request
\* of its own, or while its script holds a copy of the socket of the first.
Two(qs, rs) == [c \in {c1, c2} |-> IF c = c1 THEN qs ELSE rs]
OneScripts ==
  {Two(<<OneAsks[i], OneAsks[(i % Len(OneAsks)) + 1]>>, <<>>) : i \in 1 .. Len(OneAsks)}
  \cup {Two(<<Ask("GET", "file"), q>>, <<>>) :
          q \in {Ask("MALFORMED", "file"), Ask("GET", "dir"), Post("cgi", 6)}}
  \cup {Two(<<Ask("HEAD", "file"), Ask("GET", "missing")>>, <<Post("file", NoLength)>>),
        Two(<<Ask("MALFORMED", "file")>>, <<Ask("HEAD", "cgi")>>)}

\* Two clients and everything that can go wrong around the server: bodies
\* that are left in the stream, a directory, scripts that die, clients that
\* leave, a file asked for in the slot of a script, handlers of two slots that take turns on the global request, streams
\* of HEAD requests that use up the descriptors.
FaultScripts ==
  {Two(<<[Ask("OTHER", "file") EXCEPT !.length = 4]>>, <<Ask("GET", "dir")>>),
   Two(<<Post("cgi", 1)>>, <<Closing(Ask("GET", "cgi"))>>),
   Two(<<Ask("GET", "file")>>, <<Post("file", 1)>>),
   Two(<<Ask("GET", "cgi")>>, <<Ask("GET", "file")>>),
   Two([i \in 1 .. 6 |-> Ask("HEAD", "file")], <<Ask("GET", "file")>>)}

\* The scripts of the runs that show a claim of the code violated.
SharedScripts == {Two(<<Post("file", 2)>>, <<Ask("GET", "missing")>>)}
ReuseScripts == {Two(<<Ask("GET", "cgi")>>, <<Ask("HEAD", "cgi")>>)}
PipelineScripts ==
  {[c \in {c1} |-> <<Ask("GET", "file"), Ask("GET", "missing")>>]}
LastScripts == {[c \in {c1} |-> <<Closing(Ask("GET", "file")), Ask("GET", "missing")>>]}
CutScripts == {[c \in {c1} |-> <<Closing(Ask("GET", "cgi"))>>]}
OneByteScripts == {[c \in {c1} |-> <<Post("file", 2)>>]}

Symmetry == Permutations({c1, c2, c3})
=============================================================================
