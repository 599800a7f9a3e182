---------------------------- MODULE MCAsyncTask ----------------------------
(* Instances of AsyncTask for TLC. *)
EXTENDS AsyncTask

Task(kind, held, quota, perCall, legacy, noId) ==
    [kind |-> kind, held |-> held, quota |-> quota, perCall |-> perCall,
     legacy |-> legacy, noId |-> noId]

\* The tasks whose decisions all go through the compare-and-set; two of them
\* cost more, or less, than the request had reserved.
MCVideo == {Task("video", 2, 2, FALSE, FALSE, FALSE),
            Task("video", 1, 2, FALSE, FALSE, FALSE),
            Task("video", 3, 2, TRUE, FALSE, FALSE),
            Task("video", 0, 0, FALSE, FALSE, FALSE),
            Task("video", 2, 2, FALSE, TRUE, FALSE),
            Task("video", 2, 2, FALSE, FALSE, TRUE)}
MCRealtime == {Task("realtime", 2, 2, FALSE, FALSE, FALSE)}
MCSuno == {Task("suno", 2, 2, FALSE, FALSE, FALSE)}
MCEveryKind == MCVideo \cup MCRealtime \cup MCSuno
============================================================================
