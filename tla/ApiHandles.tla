------------------------------- MODULE ApiHandles -------------------------------
(***************************************************************************)
(* The C interface of the client library: every call returns a handle (or  *)
(* null), which the caller asks for an error, reads, and frees; a client   *)
(* is the value of a handle.  No exception may leave a call: one that does *)
(* ends the process.  The caller keeps to the rules of client_api.h: it    *)
(* uses only handles it holds, of the type the call is for.                *)
(***************************************************************************)
EXTENDS Naturals, FiniteSets

CONSTANTS
    Handles,              \* addresses of allocated objects
    ALLOCATION, UNKNOWN,  \* the two errors that are not allocated
    NullHandle,
    APIUsers

Nobody == "(nobody)"

ASSUME ApiConstants ==
    /\ Handles \cap {ALLOCATION, UNKNOWN} = {} /\ NullHandle \notin Handles \cup {ALLOCATION, UNKNOWN}
    /\ Nobody \notin APIUsers

VARIABLES
    process,    \* "runs" or "terminated"
    objects,    \* address -> the object there, or NoObject
    held,       \* the handles the caller was given and has not freed
    clients,    \* handle of a client -> the client, as far as the calls below tell
    lastCall    \* history: whether the last call that returned a handle failed, the handle,
                \* and whether it was an update whose failure was swallowed
apiVars == <<process, objects, held, clients, lastCall>>

Statics == {ALLOCATION, UNKNOWN}
NoObject == [type |-> "none", allocated |-> FALSE]
StaticError == [type |-> "error", allocated |-> FALSE]
Object(type) == [type |-> type, allocated |-> TRUE]

\* What a client has: whether the unique_ptr still does, a packet handler, a connection
\* under it, the user its profile is of, and the user of the server's session.
NewClient == [there |-> TRUE, handler |-> TRUE, linked |-> TRUE, profile |-> Nobody, session |-> Nobody]
NoClient == [there |-> FALSE, handler |-> FALSE, linked |-> FALSE, profile |-> Nobody, session |-> Nobody]

ApiInit ==
    /\ process = "runs"
    /\ objects = [h \in Handles \cup Statics |-> IF h \in Statics THEN StaticError ELSE NoObject]
    /\ held = {} /\ clients = [h \in Handles |-> NoClient]
    /\ lastCall = [failed |-> FALSE, handle |-> NullHandle, swallowed |-> FALSE]

Fresh == {h \in Handles : objects[h] = NoObject}
TypeOf(h) == objects[h].type
SENC_HasError(h) == h # NullHandle /\ TypeOf(h) = "error"
Allocated(h) == h # NullHandle /\ objects[h].allocated

Give(failed, h) ==
    /\ held' = IF h \in Handles THEN held \cup {h} ELSE held
    /\ lastCall' = [failed |-> failed, handle |-> h, swallowed |-> FALSE]

\* new_instance: an object, or the static error if there is no memory for it.
NewInstance(type, failed) ==
    \/ \E h \in Fresh : objects' = [objects EXCEPT ![h] = Object(type)] /\ Give(failed, h)
    \/ Give(TRUE, ALLOCATION) /\ UNCHANGED objects

\* How the call's own code may end: with a value, with no memory, with an exception.
Outcomes == {"done", "bad_alloc", "exception"}

\* What an exception says is copied outside of any try: with no memory for the copy,
\* bad_alloc leaves a call that is noexcept.
NewError ==
    \/ NewInstance("error", TRUE) /\ UNCHANGED process
    \/ process' = "terminated" /\ UNCHANGED <<objects, held, lastCall>>

RetNew(type, outcome) ==
    \/ outcome = "done" /\ NewInstance(type, FALSE) /\ UNCHANGED process
    \/ outcome = "bad_alloc" /\ Give(TRUE, ALLOCATION) /\ UNCHANGED <<process, objects>>
    \/ outcome = "exception" /\ NewError

RetNullOrErr(outcome) ==
    \/ outcome = "done" /\ Give(FALSE, NullHandle) /\ UNCHANGED <<process, objects>>
    \/ outcome = "bad_alloc" /\ Give(TRUE, ALLOCATION) /\ UNCHANGED <<process, objects>>
    \/ outcome = "exception" /\ NewError

-----------------------------------------------------------------------------
\* ~Client logs out if it has a packet handler; a destructor must not throw.
DestroyClient(c) ==
    process' = IF c.there /\ c.handler /\ ~c.linked THEN "terminated" ELSE process

\* Fault: what was not allocated is deleted too.
MayDeleteAny(h) == h # NullHandle

MayDelete(h) == Allocated(h)

SENC_FreeHandle(h) ==
    /\ IF MayDelete(h)
       THEN /\ objects' = [objects EXCEPT ![h] = NoObject]
            /\ held' = held \ {h}
            /\ IF TypeOf(h) = "client"
               THEN DestroyClient(clients[h]) /\ clients' = [clients EXCEPT ![h] = NoClient]
               ELSE UNCHANGED <<process, clients>>
       ELSE UNCHANGED <<process, objects, held, clients>>
    /\ lastCall' = [failed |-> FALSE, handle |-> NullHandle, swallowed |-> FALSE]

SENC_Disconnect(h) ==
    /\ DestroyClient(clients[h])
    /\ clients' = [clients EXCEPT ![h] = NoClient]
    /\ UNCHANGED <<objects, held, lastCall>>

SENC_Connect(outcome) ==
    /\ RetNew("client", outcome)
    /\ clients' = [h \in Handles |-> IF objects'[h].type = "client" /\ objects[h] = NoObject
                                     THEN NewClient ELSE clients[h]]

\* The calls that make a value of bytes or of a ciphertext.
SENC_GetBytesBase64(outcome) == RetNew("string", outcome) /\ UNCHANGED clients
SENC_NewCiphertext(outcome) == RetNew("ciphertext", outcome) /\ UNCHANGED clients
SENC_GetCiphertextC1(outcome) == RetNew("bytes", outcome) /\ UNCHANGED clients

\* The keys of a profile record, while the caller is called back with it.
SENC_GetProfileRecordBytes(outcome) == RetNew("bytes", outcome) /\ UNCHANGED clients

-----------------------------------------------------------------------------
Client(h) == clients[h]
SetClient(h, c) == clients' = [clients EXCEPT ![h] = c]

\* ensure_connected makes the connection again if the packet handler is gone, not if
\* only the connection is.
Connected(c) == IF c.handler THEN c ELSE [c EXCEPT !.handler = TRUE, !.linked = TRUE]

\* SENC_SignUp, SENC_LogIn: the server may have logged the user in when the response is
\* lost or the profile cannot be loaded.
SENC_LogIn(h, u, outcome) ==
    LET c == Connected(Client(h))
    IN  /\ \/ outcome = "done" /\ c.linked /\ c.session = Nobody
              /\ SetClient(h, [c EXCEPT !.profile = u, !.session = u])
           \/ outcome # "done" /\ SetClient(h, c)
           \/ outcome # "done" /\ ~Client(h).handler /\ UNCHANGED clients
           \/ outcome # "done" /\ c.linked /\ c.session = Nobody
              /\ SetClient(h, [c EXCEPT !.session = u])
        /\ RetNullOrErr(outcome)

LoggedOut(c) == [c EXCEPT !.handler = FALSE, !.linked = FALSE, !.session = Nobody, !.profile = Nobody]

SENC_LogOut(h, outcome) ==
    LET c == Client(h)
    IN  /\ \/ outcome = "done" /\ c.handler /\ c.linked /\ SetClient(h, LoggedOut(c))
           \/ outcome # "done" /\ (~c.handler \/ ~c.linked) /\ UNCHANGED clients
        /\ RetNullOrErr(outcome)

\* Calls that post a request and change no more of the client than this.
Posts(h, outcome) ==
    /\ outcome = "done" => Client(h).handler /\ Client(h).linked /\ Client(h).session # Nobody
    /\ UNCHANGED clients
SENC_GetUserSets(h, outcome) == Posts(h, outcome) /\ RetNullOrErr(outcome)
SENC_GetUserSetMembers(h, outcome) == Posts(h, outcome) /\ RetNullOrErr(outcome)
SENC_Decrypt(h, outcome) == Posts(h, outcome) /\ RetNew("string", outcome)

\* update_callback swallows what the server answers instead of an update, that a login
\* is required, for one: the call returns null.
SENC_ForceUpdate(h, outcome) ==
    /\ outcome = "done" => Client(h).handler /\ Client(h).linked
    /\ \/ (outcome = "done" => Client(h).session # Nobody) /\ RetNullOrErr(outcome)
       \/ /\ outcome = "done"
          /\ lastCall' = [failed |-> TRUE, handle |-> NullHandle, swallowed |-> TRUE]
          /\ UNCHANGED <<process, objects, held>>
    /\ UNCHANGED clients

\* The new userset goes to the profile without a look whether there is one.
SENC_MakeUserSet(h, outcome) ==
    /\ outcome = "done" => Client(h).handler /\ Client(h).linked /\ Client(h).session # Nobody
    /\ IF outcome = "done" /\ Client(h).profile = Nobody
       THEN process' = "terminated" /\ UNCHANGED <<objects, held, lastCall>>
       ELSE RetNew("string", outcome)
    /\ UNCHANGED clients

\* Calls on the profile.
SENC_IterUserProfile(h, outcome) ==
    /\ outcome = "done" => Client(h).profile # Nobody
    /\ RetNullOrErr(outcome) /\ UNCHANGED clients
SENC_Encrypt(h, outcome) ==
    /\ outcome = "done" => Client(h).profile # Nobody
    /\ RetNew("ciphertext", outcome) /\ UNCHANGED clients

\* The network.
LoseLink(h) ==
    /\ Client(h).linked
    /\ SetClient(h, [Client(h) EXCEPT !.linked = FALSE, !.session = Nobody])
    /\ UNCHANGED <<process, objects, held, lastCall>>

ApiNext ==
    /\ process = "runs"
    /\ \/ \E h \in held \cup Statics \cup {NullHandle} : SENC_FreeHandle(h)
       \/ \E o \in Outcomes :
            \/ SENC_Connect(o) \/ SENC_NewCiphertext(o)
            \/ \E h \in held :
                 \/ TypeOf(h) = "bytes" /\ SENC_GetBytesBase64(o)
                 \/ TypeOf(h) = "ciphertext" /\ SENC_GetCiphertextC1(o)
                 \/ /\ TypeOf(h) = "client" /\ Client(h).there
                    /\ \/ \E u \in APIUsers : SENC_LogIn(h, u, o)
                       \/ SENC_LogOut(h, o) \/ SENC_MakeUserSet(h, o) \/ SENC_GetUserSets(h, o)
                       \/ SENC_GetUserSetMembers(h, o) \/ SENC_ForceUpdate(h, o) \/ SENC_IterUserProfile(h, o)
                       \/ SENC_Encrypt(h, o)
                       \/ Client(h).profile # Nobody /\ SENC_GetProfileRecordBytes(o)
                       \/ \E k \in held : TypeOf(k) = "ciphertext" /\ SENC_Decrypt(h, o)
       \/ \E h \in held : TypeOf(h) = "client" /\ Client(h).there /\ (SENC_Disconnect(h) \/ LoseLink(h))

ApiSpec == ApiInit /\ [][ApiNext]_apiVars

-----------------------------------------------------------------------------
\* client_api.h: "true if handle has error, false if has value": a caller that frees
\* what it was given leaks nothing and reads nothing that is gone; a call that returns
\* shows that it failed, also when there is no memory for an error, but for an update
\* that the server refused, which returns null; a profile is of the session's user while
\* both last.  It does not say that a call returns: the process ends in one that frees a
\* client whose connection is lost, in one that makes a userset where the profile could
\* not be loaded, and in one with no memory to copy what an exception says.
HandlesSound ==
    /\ held = {h \in Handles : objects[h] # NoObject}
    /\ lastCall.failed <=> SENC_HasError(lastCall.handle) \/ lastCall.swallowed
    /\ \A h \in Handles : clients[h].there => objects[h].type = "client"
    /\ \A h \in Handles : {clients[h].profile, clients[h].session} \subseteq APIUsers =>
            clients[h].profile = clients[h].session
=============================================================================
