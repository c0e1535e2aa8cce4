------------------------------- MODULE Streams -------------------------------
(***************************************************************************)
(* Streams to read from: files, which the C library reads, and transfers   *)
(* of libcurl, which deliver what a URL leads to into a buffer, but only   *)
(* while somebody waits for a character (curl_multi_perform).              *)
(*                                                                         *)
(* All transfers go through one multi handle.  A call that waits for one   *)
(* of them makes any of them progress, and what it notes as still_running  *)
(* of its own stream is how many go on altogether.                         *)
(***************************************************************************)
EXTENDS Integers, Sequences, FiniteSets, TLC

CONSTANTS Files, Urls,   \* what may be opened
          MaxArrival     \* bound: characters that arrive in one call of libcurl

ASSUME StreamsAssumption == Files \cap Urls = {} /\ MaxArrival \in Nat \ {0}

VARIABLE io   \* stream: the streams; ungotten: the character pushed back

Inputs == Files \cup Urls

(* What iswblank or iswcntrl holds of, the end of a file, and a character that
   is not ASCII: one in a file, two bytes from a URL.                      *)
Nul     == "NUL"
Space   == " "
Newline == "NL"
White   == {Nul, Space, Newline}
Eof     == "EOF"
Wide    == "wide"
Byte    == "byte"

Unopened(text) ==
  [state |-> "unopened", rest |-> text, buffer |-> <<>>, over |-> FALSE,
   running |-> FALSE, back |-> <<>>, eof |-> FALSE]

(* The transfers that go on. *)
Going(stream) == {t \in Urls : stream[t].state = "open" /\ ~stream[t].over}

(* write_callback: what arrives goes behind what has not been used. *)
Arrive(f, k, over) ==
  [f EXCEPT !.buffer = @ \o SubSeq(f.rest, 1, k),
            !.rest = SubSeq(@, k + 1, Len(@)), !.over = over]

(* curl_multi_perform, once or more often: what it may bring to each transfer
   that goes on is a few characters, or all that are left, and a transfer ends
   when everything has arrived, or some time after.                        *)
Arrivals(f) ==
  {Arrive(f, k, FALSE) : k \in {n \in 0 .. MaxArrival : n <= Len(f.rest)} \cup {Len(f.rest)}}
    \cup {Arrive(f, Len(f.rest), TRUE)}

Perform(stream) ==
  LET going   == Going(stream)
      results == {r \in [going -> UNION {Arrivals(stream[t]) : t \in going}] :
                    \A t \in going : r[t] \in Arrivals(stream[t])}
  IN  {[t \in Inputs |-> IF t \in going THEN r[t] ELSE stream[t]] : r \in results}

(* fill_buffer, as url_fgetwc wants it: until there is one character. *)
Fill(stream, s) ==
  IF ~stream[s].running \/ Len(stream[s].buffer) > 1 THEN {stream}
  ELSE {[n EXCEPT ![s].running = Going(n) # {}] :
          n \in {m \in Perform(stream) : m[s].buffer # <<>> \/ Going(m) = {}}}

-----------------------------------------------------------------------------
(* Faulty form of Feof: what is in the buffer is forgotten. *)
FeofOfTransfer(x, s) == IF s \in Files THEN x.stream[s].eof ELSE ~x.stream[s].running

(* url_feof *)
Feof(x, s) == IF s \in Files THEN x.stream[s].eof
              ELSE x.stream[s].buffer = <<>> /\ ~x.stream[s].running

(* Faulty form of FromFile: the character pushed back stays. *)
FromFileKept(x, s) ==
  LET f == x.stream[s]
  IN  IF f.back # <<>> THEN [io |-> x, char |-> Head(f.back)]
      ELSE IF f.rest = <<>> THEN [io |-> [x EXCEPT !.stream[s].eof = TRUE], char |-> Eof]
      ELSE [io |-> [x EXCEPT !.stream[s].rest = Tail(@)], char |-> Head(f.rest)]

(* fgetwc *)
FromFile(x, s) ==
  LET f == x.stream[s]
  IN  IF f.back # <<>> THEN [io |-> [x EXCEPT !.stream[s].back = Tail(@)], char |-> Head(f.back)]
      ELSE IF f.rest = <<>> THEN [io |-> [x EXCEPT !.stream[s].eof = TRUE], char |-> Eof]
      ELSE [io |-> [x EXCEPT !.stream[s].rest = Tail(@)], char |-> Head(f.rest)]

(* Faulty form of FromBuffer: the buffer is ditched. *)
FromBufferDitched(x, s) ==
  LET f == x.stream[s]
  IN  IF f.buffer = <<>> THEN [io |-> x, char |-> Nul]
      ELSE [io |-> [x EXCEPT !.stream[s].buffer = <<>>],
            char |-> IF Head(f.buffer) = Byte THEN Nul ELSE Head(f.buffer)]

(* url_fgets and use_buffer.  Every byte is taken for a whole character: one of
   a longer sequence converts to nothing.                                  *)
FromBuffer(x, s) ==
  LET f == x.stream[s]
  IN  IF f.buffer = <<>> THEN [io |-> x, char |-> Nul]
      ELSE [io |-> [x EXCEPT !.stream[s].buffer = Tail(@)],
            char |-> IF Head(f.buffer) = Byte THEN Nul ELSE Head(f.buffer)]

(* url_fgetwc: every character that may come, and the streams then. *)
Fgetwc(x, s) ==
  IF x.ungotten # Nul THEN {[io |-> [x EXCEPT !.ungotten = Nul], char |-> x.ungotten]}
  ELSE IF s \in Files THEN {FromFile(x, s)}
  ELSE {FromBuffer([x EXCEPT !.stream = n], s) : n \in Fill(x.stream, s)}

(* Faulty form of Ungetwc: a transfer has no place for a character pushed back. *)
UngetwcAnywhere(x, s, c) ==
  IF c = Eof THEN x ELSE [x EXCEPT !.stream[s].back = <<c>> \o @, !.stream[s].eof = FALSE]

(* url_ungetwc *)
Ungetwc(x, s, c) ==
  IF s \in Urls THEN [x EXCEPT !.ungotten = c]
  ELSE IF c = Eof THEN x
  ELSE [x EXCEPT !.stream[s].back = <<c>> \o @, !.stream[s].eof = FALSE]

-----------------------------------------------------------------------------
(* url_fopen.  A transfer that is over at once and brought nothing is no stream,
   and lisp_open fails: that is left out.                                  *)
Open(s) ==
  /\ io.stream[s].state = "unopened"
  /\ \/ s \in Files /\ io' = [io EXCEPT !.stream[s].state = "open"]
     \/ /\ s \in Urls
        /\ \E n \in Perform([io.stream EXCEPT ![s].state = "open"]) :
             /\ n[s].buffer # <<>> \/ Going(n) # {}
             /\ io' = [io EXCEPT !.stream = [n EXCEPT ![s].running = Going(n) # {}]]

(* url_fclose: a transfer is taken out of the multi handle. *)
Close(s) ==
  /\ io.stream[s].state = "open"
  /\ io' = [io EXCEPT !.stream[s] = [Unopened(<<>>) EXCEPT !.state = "closed"]]
=============================================================================
