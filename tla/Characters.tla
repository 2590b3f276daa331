----------------------------- MODULE Characters -----------------------------
(***************************************************************************)
(* Accounts, and the characters they own.  A registration looks the email  *)
(* up and inserts in one session, but another may insert in between; a     *)
(* character is ingested frame by frame into storage before its row is     *)
(* written; a restyle and a lip-sync read what is stored and store what    *)
(* the engine makes of it.  Storage is never emptied.                      *)
(***************************************************************************)
EXTENDS Integers, Sequences

CONSTANTS Emails,
          Signups,       \* registrations; each names the account it creates
          Uploads,       \* creations; each names the character it creates
          Works,         \* restyle and lip-sync requests
          MaxFrames,     \* MAX_REFERENCE_FRAMES
          MaxExtracted   \* bound: frames ffmpeg extracts

ASSUME CharacterAssumption ==
    /\ MaxFrames \in Nat \ {0}
    /\ MaxExtracted \in Nat

VARIABLES users,        \* account rows
          signup,       \* registrations
          tokens,       \* the tokens given out, with the email they were given for
          upload,       \* creations
          characters,   \* character rows
          files,        \* ids in storage
          work          \* restyles and lip-syncs

characterVars == <<users, signup, tokens, upload, characters, files, work>>

Accounts == [id : Signups, email : Emails]
Files == (Uploads \X (1 .. MaxFrames)) \union (Works \X {1})
CharacterRows == [id : Uploads, owner : Signups, frames : Seq(Files)]

CharacterInit ==
    /\ users = {} /\ tokens = {} /\ characters = {} /\ files = {}
    /\ signup = [s \in Signups |-> "new"]
    /\ upload = [u \in Uploads |-> [at |-> "new"]]
    /\ work = [w \in Works |-> [at |-> "new"]]

-----------------------------------------------------------------------------
(* api/v1/auth.py *)

AccountsOf(email) == {a \in users : a.email = email}

\* register, up to the check of the email.
Lookup(s) ==
    /\ signup[s] = "new"
    /\ \E email \in Emails :
         signup' = [signup EXCEPT ![s] = IF AccountsOf(email) = {} THEN email ELSE "refused"]
    /\ UNCHANGED <<users, tokens, upload, characters, files, work>>

\* Faulty form: the column has no unique index.
InsertableAlways(email) == TRUE

\* The unique index on users.email; the IntegrityError is an error 500.
Insertable(email) == AccountsOf(email) = {}

\* create_access_token; the email is what it was asked for with.
Token(account) == [id |-> account.id, email |-> account.email]

\* register, the commit, and the token it answers with.
Insert(s) ==
    /\ signup[s] \in Emails
    /\ IF Insertable(signup[s])
       THEN /\ users' = users \union {[id |-> s, email |-> signup[s]]}
            /\ tokens' = tokens \union {Token([id |-> s, email |-> signup[s]])}
            /\ signup' = [signup EXCEPT ![s] = "done"]
       ELSE signup' = [signup EXCEPT ![s] = "lost"] /\ UNCHANGED <<users, tokens>>
    /\ UNCHANGED <<upload, characters, files, work>>

\* login, with the right password; with a wrong one nothing changes.
Login ==
    /\ \E email \in Emails : \E a \in AccountsOf(email) :
         tokens' = tokens \union {Token(a)}
    /\ UNCHANGED <<users, signup, upload, characters, files, work>>

\* decode_token
Subject(token) == token.id

\* get_current_user: the token's account, if its row is there.
Callers == {a.id : a \in users} \intersect {Subject(k) : k \in tokens}

-----------------------------------------------------------------------------
(* CharacterService and CharacterIngestService *)

UploadAt(u, step) == upload[u].at = step

\* Faulty form: as many frames as ffmpeg extracted.
SampledAll(extracted) == extracted

\* The sharpest frames; a photo is one.
Sampled(extracted) == IF extracted < MaxFrames THEN extracted ELSE MaxFrames

\* create, up to ingest: refused for an unknown style or kind, a source that
\* is too large or has no frame; else "left" frames are still to be stored.
Ingest(u) ==
    /\ UploadAt(u, "new")
    /\ \E owner \in Callers, extracted \in 0 .. MaxExtracted :
         upload' = [upload EXCEPT ![u] = [at |-> IF extracted = 0 THEN "refused" ELSE "frames",
                                          owner |-> owner, frames |-> <<>>,
                                          left |-> Sampled(extracted)]]
    /\ UNCHANGED <<users, signup, tokens, characters, files, work>>

\* A frame that is no usable still is skipped.
Frame(u) ==
    /\ UploadAt(u, "frames") /\ upload[u].left > 0
    /\ \/ LET file == <<u, Len(upload[u].frames) + 1>>
          IN  /\ files' = files \union {file}
              /\ upload' = [upload EXCEPT ![u].left = @ - 1, ![u].frames = Append(@, file)]
       \/ upload' = [upload EXCEPT ![u].left = @ - 1] /\ UNCHANGED files
    /\ UNCHANGED <<users, signup, tokens, characters, work>>

\* The row is written when every frame is stored.
Created(u) ==
    /\ UploadAt(u, "frames") /\ upload[u].left = 0
    /\ IF upload[u].frames = <<>>
       THEN upload' = [upload EXCEPT ![u].at = "refused"] /\ UNCHANGED characters
       ELSE /\ upload' = [upload EXCEPT ![u].at = "done"]
            /\ characters' = characters \union
                 {[id |-> u, owner |-> upload[u].owner, frames |-> upload[u].frames]}
    /\ UNCHANGED <<users, signup, tokens, files, work>>

\* A storage or database error: the frames stored so far stay.
UploadBreaks(u) ==
    /\ UploadAt(u, "frames")
    /\ upload' = [upload EXCEPT ![u].at = "lost"]
    /\ UNCHANGED <<users, signup, tokens, characters, files, work>>

\* delete: the row of one's own character; its frames stay in storage.
Delete ==
    /\ \E c \in characters : c.owner \in Callers /\ characters' = characters \ {c}
    /\ UNCHANGED <<users, signup, tokens, upload, files, work>>

-----------------------------------------------------------------------------
(* POST /characters/{id}/restyle and /scene/lipsync *)

\* The first frame of one's own character.
Restyle(w) ==
    /\ work[w].at = "new"
    /\ \E c \in characters : /\ c.owner \in Callers
                             /\ c.frames[1] \in files
                             /\ work' = [work EXCEPT ![w] = [at |-> "engine", source |-> c.frames[1]]]
    /\ UNCHANGED <<users, signup, tokens, upload, characters, files>>

\* Any stored still, with an audio file.
LipSync(w) ==
    /\ work[w].at = "new"
    /\ \E file \in files : work' = [work EXCEPT ![w] = [at |-> "engine", source |-> file]]
    /\ UNCHANGED <<users, signup, tokens, upload, characters, files>>

\* The engine's result is stored; on an error of the engine nothing is.
WorkEnds(w) ==
    /\ work[w].at = "engine"
    /\ \/ files' = files \union {<<w, 1>>} /\ work' = [work EXCEPT ![w].at = "done"]
       \/ UNCHANGED files /\ work' = [work EXCEPT ![w].at = "refused"]
    /\ UNCHANGED <<users, signup, tokens, upload, characters>>

CharacterNext ==
    \/ \E s \in Signups : Lookup(s) \/ Insert(s)
    \/ Login
    \/ \E u \in Uploads : Ingest(u) \/ Frame(u) \/ Created(u) \/ UploadBreaks(u)
    \/ Delete
    \/ \E w \in Works : Restyle(w) \/ LipSync(w) \/ WorkEnds(w)

-----------------------------------------------------------------------------
(* Properties *)

\* Every row and every request keeps its shape.
CharacterType ==
    /\ users \subseteq Accounts /\ tokens \subseteq Accounts
    /\ signup \in [Signups -> Emails \union {"new", "refused", "done", "lost"}]
    /\ characters \subseteq CharacterRows
    /\ files \subseteq Files
    /\ \A u \in Uploads : UploadAt(u, "new") \/ upload[u] \in
         [at : {"frames", "refused", "done", "lost"}, owner : Signups,
          frames : Seq(Files), left : 0 .. MaxFrames]
    /\ \A w \in Works : work[w].at = "new" \/ work[w] \in
         [at : {"engine", "refused", "done"}, source : Files]

\* A character can be rendered and has one owner: whatever failed beside it,
\* its row names between one and MAX_REFERENCE_FRAMES frames, all of its own
\* upload and in storage, its owner's email has that account only, and every
\* token given for the email is of that account (services/character/ingest.py,
\* api/v1/auth.py, models/user.py).
CharactersStand ==
    \A c \in characters :
        /\ Len(c.frames) \in 1 .. MaxFrames
        /\ \A i \in DOMAIN c.frames : c.frames[i] \in files /\ c.frames[i][1] = c.id
        /\ \E a \in users : /\ a.id = c.owner
                            /\ AccountsOf(a.email) = {a}
                            /\ \A k \in tokens : k.email = a.email => k.id = c.owner
=============================================================================
