---------------------------- MODULE StudioProofs ----------------------------
(***************************************************************************)
(* Proofs about the studio's database, for any number of chat turns, kinds *)
(* of memory, acts of the user, registrations, uploads and frames.         *)
(***************************************************************************)
EXTENDS Studio, TLAPS

-----------------------------------------------------------------------------
(* Accounts and characters *)

UploadStates == [at : {"new"}] \union
                [at : {"frames", "refused", "done", "lost"}, owner : Signups,
                 frames : Seq(Files), left : 0 .. MaxFrames]
WorkStates == [at : {"new"}] \union [at : {"engine", "refused", "done"}, source : Files]

Ids(accounts) == {a.id : a \in accounts}

\* The frames of upload u, each of them stored.
Stored(u, frames, stored) == \A i \in 1 .. Len(frames) : frames[i] \in stored /\ frames[i][1] = u

\* A token is the account it was given for, and an email has one account.
Registered(accounts, given) ==
    /\ accounts \subseteq Accounts /\ given \subseteq accounts
    /\ \A a, b \in accounts : a.email = b.email => a = b

\* What an upload has stored, and may still store.
Uploaded(u, r, ids, stored) ==
    r.at # "new" => /\ r.owner \in ids /\ Stored(u, r.frames, stored)
                    /\ r.at = "frames" => Len(r.frames) + r.left <= MaxFrames

Standing(c, ids, stored) ==
    /\ c \in CharacterRows /\ c.owner \in ids
    /\ Len(c.frames) \in 1 .. MaxFrames /\ Stored(c.id, c.frames, stored)

CharacterInv ==
    /\ Registered(users, tokens)
    /\ signup \in [Signups -> Emails \union {"new", "refused", "done", "lost"}]
    /\ files \subseteq Files
    /\ upload \in [Uploads -> UploadStates]
    /\ \A u \in Uploads : Uploaded(u, upload[u], Ids(users), files)
    /\ \A c \in characters : Standing(c, Ids(users), files)
    /\ work \in [Works -> WorkStates]

\* Accounts and files only grow, so what stands on them stands.
LEMMA CharactersGo ==
    ASSUME CharacterInv, Registered(users', tokens'),
           signup' \in [Signups -> Emails \union {"new", "refused", "done", "lost"}],
           Ids(users) \subseteq Ids(users'), files \subseteq files', files' \subseteq Files,
           upload' \in [Uploads -> UploadStates],
           \A u \in Uploads : upload'[u] = upload[u] \/ Uploaded(u, upload'[u], Ids(users'), files'),
           \A c \in characters' : c \in characters \/ Standing(c, Ids(users'), files'),
           work' \in [Works -> WorkStates]
    PROVE  CharacterInv'
<1>1. \A u, f : Stored(u, f, files) => Stored(u, f, files')
  BY DEF Stored
<1>2. \A u, r : Uploaded(u, r, Ids(users), files) => Uploaded(u, r, Ids(users'), files')
  BY <1>1 DEF Uploaded
<1>3. \A c : Standing(c, Ids(users), files) => Standing(c, Ids(users'), files')
  BY <1>1 DEF Standing
<1>4. \A u \in Uploads : Uploaded(u, upload'[u], Ids(users'), files')
  BY <1>2 DEF CharacterInv
<1>5. \A c \in characters' : Standing(c, Ids(users'), files')
  BY <1>3 DEF CharacterInv
<1> QED
  BY <1>4, <1>5 DEF CharacterInv

\* A step of one upload.
LEMMA UploadGoes ==
    ASSUME CharacterInv, NEW u \in Uploads, NEW r \in UploadStates,
           upload' = [upload EXCEPT ![u] = r], Uploaded(u, r, Ids(users), files'),
           files \subseteq files', files' \subseteq Files,
           \A c \in characters' : c \in characters \/ Standing(c, Ids(users), files'),
           UNCHANGED <<users, signup, tokens, work>>
    PROVE  CharacterInv'
<1>1. upload' \in [Uploads -> UploadStates]
  BY DEF CharacterInv
<1>2. \A v \in Uploads : upload'[v] = IF v = u THEN r ELSE upload[v]
  BY DEF CharacterInv
<1>3. \A v \in Uploads : upload'[v] = upload[v] \/ Uploaded(v, upload'[v], Ids(users'), files')
  BY <1>2
<1>4. /\ Registered(users', tokens') /\ Ids(users) \subseteq Ids(users')
      /\ signup' \in [Signups -> Emails \union {"new", "refused", "done", "lost"}]
      /\ work' \in [Works -> WorkStates]
      /\ \A c \in characters' : c \in characters \/ Standing(c, Ids(users'), files')
  BY DEF CharacterInv
<1> QED
  BY <1>1, <1>3, <1>4, CharactersGo

LEMMA InsertKeeps == ASSUME CharacterInv, NEW s \in Signups, Insert(s) PROVE CharacterInv'
<1>1. CASE Insertable(signup[s])
  <2> DEFINE new == [id |-> s, email |-> signup[s]]
  <2>1. /\ new \in Accounts /\ users' = users \union {new} /\ tokens' = tokens \union {new}
        /\ signup' = [signup EXCEPT ![s] = "done"] /\ new.email = signup[s]
        /\ UNCHANGED <<upload, characters, files, work>>
    BY <1>1 DEF Insert, Token, Accounts
  <2>2. \A a \in users : a.email # new.email
    BY <1>1, <2>1 DEF Insertable, AccountsOf
  <2> HIDE DEF new
  <2>3. Registered(users', tokens')
    BY <2>1, <2>2 DEF CharacterInv, Registered
  <2>4. /\ Ids(users) \subseteq Ids(users')
        /\ signup' \in [Signups -> Emails \union {"new", "refused", "done", "lost"}]
    BY <2>1 DEF CharacterInv, Ids
  <2>5. /\ files \subseteq files' /\ files' \subseteq Files /\ work' \in [Works -> WorkStates]
        /\ upload' \in [Uploads -> UploadStates] /\ upload' = upload /\ characters' = characters
    BY <2>1 DEF CharacterInv
  <2> QED
    BY <2>3, <2>4, <2>5, CharactersGo
<1>2. CASE ~Insertable(signup[s])
  <2>1. /\ signup' = [signup EXCEPT ![s] = "lost"]
        /\ UNCHANGED <<users, tokens, upload, characters, files, work>>
    BY <1>2 DEF Insert
  <2> QED
    BY <2>1, CharactersGo DEF CharacterInv
<1> QED
  BY <1>1, <1>2

LEMMA AccountsKeep ==
    ASSUME CharacterInv, Login \/ \E s \in Signups : Lookup(s) \/ Insert(s)
    PROVE  CharacterInv'
<1>1. ASSUME NEW s \in Signups, Lookup(s) PROVE CharacterInv'
  <2>1. PICK email \in Emails :
          signup' = [signup EXCEPT ![s] = IF AccountsOf(email) = {} THEN email ELSE "refused"]
    BY <1>1 DEF Lookup
  <2>2. UNCHANGED <<users, tokens, upload, characters, files, work>>
    BY <1>1 DEF Lookup
  <2>3. signup' \in [Signups -> Emails \union {"new", "refused", "done", "lost"}]
    BY <2>1 DEF CharacterInv
  <2> QED
    BY <2>2, <2>3, CharactersGo DEF CharacterInv
<1>2. CASE Login
  <2>1. PICK email \in Emails : \E a \in AccountsOf(email) : tokens' = tokens \union {Token(a)}
    BY <1>2 DEF Login
  <2>2. PICK a \in AccountsOf(email) : tokens' = tokens \union {Token(a)}
    BY <2>1
  <2>3. a \in users /\ a \in Accounts
    BY DEF AccountsOf, CharacterInv, Registered
  <2>4. Token(a) = a
    BY <2>3 DEF Token, Accounts
  <2>5. UNCHANGED <<users, signup, upload, characters, files, work>>
    BY <1>2 DEF Login
  <2>6. Registered(users', tokens')
    BY <2>2, <2>3, <2>4, <2>5 DEF CharacterInv, Registered
  <2> QED
    BY <2>5, <2>6, CharactersGo DEF CharacterInv
<1> QED
  BY <1>1, <1>2, InsertKeeps

LEMMA IngestKeeps == ASSUME CharacterInv, NEW u \in Uploads, Ingest(u) PROVE CharacterInv'
<1>1. PICK owner \in Callers, extracted \in 0 .. MaxExtracted :
        upload' = [upload EXCEPT ![u] = [at |-> IF extracted = 0 THEN "refused" ELSE "frames",
                                         owner |-> owner, frames |-> <<>>,
                                         left |-> Sampled(extracted)]]
  BY DEF Ingest
<1> DEFINE at == IF extracted = 0 THEN "refused" ELSE "frames"
           r == [at |-> at, owner |-> owner, frames |-> <<>>, left |-> Sampled(extracted)]
<1>2. Sampled(extracted) \in 0 .. MaxFrames
  BY CharacterAssumption DEF Sampled
<1>3. owner \in Ids(users) /\ owner \in Signups
  BY DEF Callers, Ids, CharacterInv, Registered, Accounts
<1>4. r \in UploadStates
  <2>1. at \in {"frames", "refused", "done", "lost"} /\ <<>> \in Seq(Files)
    BY DEF Files
  <2> QED
    BY <1>2, <1>3, <2>1 DEF UploadStates
<1>5. Uploaded(u, r, Ids(users), files)
  BY <1>2, <1>3, CharacterAssumption DEF Uploaded, Stored
<1> HIDE DEF r
<1>6. upload' = [upload EXCEPT ![u] = r] /\ UNCHANGED <<users, signup, tokens, characters, files, work>>
  BY <1>1 DEF Ingest, r
<1>7. files' \subseteq Files
  BY <1>6 DEF CharacterInv
<1> QED
  BY <1>4, <1>5, <1>6, <1>7, UploadGoes

\* An upload that has begun.
LEMMA Begun ==
    ASSUME CharacterInv, NEW u \in Uploads, UploadAt(u, "frames")
    PROVE  /\ upload[u] \in [at : {"frames", "refused", "done", "lost"}, owner : Signups,
                             frames : Seq(Files), left : 0 .. MaxFrames]
           /\ upload[u].owner \in Ids(users) /\ upload[u].owner \in Signups
           /\ upload[u].frames \in Seq(Files) /\ Len(upload[u].frames) \in Nat
           /\ Stored(u, upload[u].frames, files)
           /\ upload[u].left \in 0 .. MaxFrames
           /\ Len(upload[u].frames) + upload[u].left <= MaxFrames
<1>1. upload[u] \in UploadStates /\ upload[u].at = "frames" /\ Uploaded(u, upload[u], Ids(users), files)
  BY DEF CharacterInv, UploadAt
<1>2. upload[u] \in [at : {"frames", "refused", "done", "lost"}, owner : Signups,
                     frames : Seq(Files), left : 0 .. MaxFrames]
  BY <1>1 DEF UploadStates
<1> HIDE DEF Files
<1>3. /\ upload[u].owner \in Signups /\ upload[u].frames \in Seq(Files)
      /\ upload[u].left \in 0 .. MaxFrames
  BY <1>2
<1>4. Len(upload[u].frames) \in Nat
  BY <1>3
<1> QED
  BY <1>1, <1>2, <1>3, <1>4 DEF Uploaded

LEMMA FrameKeeps == ASSUME CharacterInv, NEW u \in Uploads, Frame(u) PROVE CharacterInv'
<1> DEFINE file == <<u, Len(upload[u].frames) + 1>>
           left == upload[u].left - 1
<1>1. UploadAt(u, "frames") /\ upload[u].left > 0
      /\ UNCHANGED <<users, signup, tokens, characters, work>>
  BY DEF Frame
<1>2. /\ upload[u] \in [at : {"frames", "refused", "done", "lost"}, owner : Signups,
                        frames : Seq(Files), left : 0 .. MaxFrames]
      /\ upload[u].at = "frames" /\ upload[u].owner \in Ids(users)
      /\ upload[u].frames \in Seq(Files) /\ Len(upload[u].frames) \in Nat
      /\ Stored(u, upload[u].frames, files)
      /\ left \in 0 .. MaxFrames /\ MaxFrames \in Nat
      /\ Len(upload[u].frames) + 1 + left <= MaxFrames
  BY <1>1, Begun, CharacterAssumption DEF UploadAt
<1>3. ASSUME NEW frames \in Seq(Files), NEW fs, files' = fs, files \subseteq fs, fs \subseteq Files,
             Stored(u, frames, fs), Len(frames) + left <= MaxFrames,
             upload' = [upload EXCEPT ![u].left = @ - 1, ![u].frames = frames]
      PROVE  CharacterInv'
  <2> DEFINE r == [upload[u] EXCEPT !.left = left, !.frames = frames]
  <2>1. /\ r \in UploadStates /\ r.at = "frames" /\ r.owner = upload[u].owner
        /\ r.frames = frames /\ r.left = left
    BY <1>2, <1>3 DEF UploadStates
  <2>2. upload' = [upload EXCEPT ![u] = r]
    BY <1>2, <1>3 DEF CharacterInv
  <2> HIDE DEF r, left
  <2>3. Uploaded(u, r, Ids(users), files')
    BY <1>2, <1>3, <2>1 DEF Uploaded
  <2> QED
    BY <1>1, <1>3, <2>1, <2>2, <2>3, UploadGoes
<1>4. CASE /\ files' = files \union {file}
           /\ upload' = [upload EXCEPT ![u].left = @ - 1, ![u].frames = Append(@, file)]
  <2>1. file \in Files
    BY <1>2 DEF Files
  <2> DEFINE frames == Append(upload[u].frames, file)
  <2> HIDE DEF file, Files
  <2>2. /\ frames \in Seq(Files) /\ Len(frames) = Len(upload[u].frames) + 1
        /\ \A i \in 1 .. Len(upload[u].frames) : frames[i] = upload[u].frames[i]
        /\ frames[Len(upload[u].frames) + 1] = file
    BY <1>2, <2>1
  <2>3. file[1] = u
    BY DEF file
  <2>4. upload' = [upload EXCEPT ![u].left = @ - 1, ![u].frames = frames]
    BY <1>4 DEF CharacterInv
  <2> HIDE DEF frames, left
  <2>5. Stored(u, frames, files \union {file})
    <3> SUFFICES ASSUME NEW i \in 1 .. Len(frames)
                 PROVE  frames[i] \in files \union {file} /\ frames[i][1] = u
      BY DEF Stored
    <3>1. i \in 1 .. Len(upload[u].frames) \/ i = Len(upload[u].frames) + 1
      BY <1>2, <2>2
    <3> QED
      BY <1>2, <2>2, <2>3, <3>1 DEF Stored
  <2>6. files \union {file} \subseteq Files
    BY <2>1 DEF CharacterInv
  <2> QED
    BY <1>2, <1>3, <1>4, <2>2, <2>4, <2>5, <2>6
<1>5. CASE upload' = [upload EXCEPT ![u].left = @ - 1] /\ files' = files
  <2> DEFINE r == [upload[u] EXCEPT !.left = left]
  <2>1. /\ r \in UploadStates /\ r.at = "frames" /\ r.owner = upload[u].owner
        /\ r.frames = upload[u].frames /\ r.left = left
    BY <1>2 DEF UploadStates
  <2>2. upload' = [upload EXCEPT ![u] = r]
    BY <1>5 DEF CharacterInv
  <2> HIDE DEF r, left
  <2>3. Uploaded(u, r, Ids(users), files')
    BY <1>2, <1>5, <2>1 DEF Uploaded
  <2>4. files' \subseteq Files
    BY <1>5 DEF CharacterInv
  <2> QED
    BY <1>1, <1>5, <2>1, <2>2, <2>3, <2>4, UploadGoes
<1> QED
  BY <1>4, <1>5 DEF Frame

LEMMA UploadEnds ==
    ASSUME CharacterInv, NEW u \in Uploads, Created(u) \/ UploadBreaks(u)
    PROVE  CharacterInv'
<1>1. UploadAt(u, "frames") /\ upload[u].at = "frames" /\ UNCHANGED <<users, signup, tokens, files, work>>
  BY DEF Created, UploadBreaks, UploadAt
<1>2. /\ upload[u] \in [at : {"frames", "refused", "done", "lost"}, owner : Signups,
                        frames : Seq(Files), left : 0 .. MaxFrames]
      /\ upload[u].owner \in Ids(users) /\ upload[u].owner \in Signups
      /\ upload[u].frames \in Seq(Files) /\ Len(upload[u].frames) \in Nat
      /\ Stored(u, upload[u].frames, files)
      /\ upload[u].left \in 0 .. MaxFrames
      /\ Len(upload[u].frames) + upload[u].left <= MaxFrames
  BY <1>1, Begun
<1>3. ASSUME NEW at \in {"refused", "done", "lost"}, upload' = [upload EXCEPT ![u].at = at],
             \A c \in characters' : c \in characters \/ Standing(c, Ids(users), files')
      PROVE  CharacterInv'
  <2> DEFINE r == [upload[u] EXCEPT !.at = at]
  <2>1. /\ r \in UploadStates /\ r.at = at /\ r.owner = upload[u].owner
        /\ r.frames = upload[u].frames /\ r.left = upload[u].left
    BY <1>2 DEF UploadStates
  <2>2. upload' = [upload EXCEPT ![u] = r]
    BY <1>3 DEF CharacterInv
  <2> HIDE DEF r
  <2>3. Uploaded(u, r, Ids(users), files')
    BY <1>1, <1>2, <2>1 DEF Uploaded
  <2>4. files' \subseteq Files
    BY <1>1 DEF CharacterInv
  <2> QED
    BY <1>1, <1>3, <2>1, <2>2, <2>3, <2>4, UploadGoes
<1>4. CASE /\ upload[u].frames # <<>> /\ upload' = [upload EXCEPT ![u].at = "done"]
           /\ characters' = characters \union
                {[id |-> u, owner |-> upload[u].owner, frames |-> upload[u].frames]}
  <2> DEFINE c == [id |-> u, owner |-> upload[u].owner, frames |-> upload[u].frames]
  <2>1. /\ c \in CharacterRows /\ c.id = u /\ c.owner = upload[u].owner
        /\ c.frames = upload[u].frames
    BY <1>2 DEF CharacterRows
  <2>2. Len(upload[u].frames) \in 1 .. MaxFrames
    <3> HIDE DEF Files
    <3>1. Len(upload[u].frames) # 0
      BY <1>2, <1>4
    <3> QED
      BY <1>2, <3>1, CharacterAssumption
  <2> HIDE DEF c
  <2>3. Standing(c, Ids(users), files')
    BY <1>1, <1>2, <2>1, <2>2 DEF Standing
  <2> QED
    BY <1>3, <1>4, <2>3 DEF c
<1>5. CASE upload' = [upload EXCEPT ![u].at = "refused"] /\ characters' = characters
  BY <1>3, <1>5
<1>6. CASE upload' = [upload EXCEPT ![u].at = "lost"] /\ characters' = characters
  BY <1>3, <1>6
<1> QED
  BY <1>4, <1>5, <1>6 DEF Created, UploadBreaks

LEMMA DeleteKeeps == ASSUME CharacterInv, Delete PROVE CharacterInv'
<1>1. characters' \subseteq characters /\ UNCHANGED <<users, signup, tokens, upload, files, work>>
  BY DEF Delete
<1> QED
  BY <1>1 DEF CharacterInv

LEMMA WorksKeep ==
    ASSUME CharacterInv, NEW w \in Works, Restyle(w) \/ LipSync(w) \/ WorkEnds(w)
    PROVE  CharacterInv'
<1>1. UNCHANGED <<users, signup, tokens, upload, characters>>
  BY DEF Restyle, LipSync, WorkEnds
<1>2. ASSUME NEW r \in WorkStates, work' = [work EXCEPT ![w] = r],
             files \subseteq files', files' \subseteq Files
      PROVE  CharacterInv'
  <2>1. work' \in [Works -> WorkStates]
    BY <1>2 DEF CharacterInv
  <2>2. /\ Registered(users', tokens') /\ Ids(users) \subseteq Ids(users')
        /\ signup' \in [Signups -> Emails \union {"new", "refused", "done", "lost"}]
        /\ upload' \in [Uploads -> UploadStates] /\ upload' = upload /\ characters' = characters
    BY <1>1 DEF CharacterInv
  <2> QED
    BY <1>2, <2>1, <2>2, CharactersGo
<1>3. ASSUME NEW file \in Files, work' = [work EXCEPT ![w] = [at |-> "engine", source |-> file]],
             files' = files
      PROVE  CharacterInv'
  <2> DEFINE r == [at |-> "engine", source |-> file]
  <2>1. r \in WorkStates
    BY DEF WorkStates
  <2>2. files' \subseteq Files
    BY <1>3 DEF CharacterInv
  <2> QED
    BY <1>2, <1>3, <2>1, <2>2
<1>4. CASE Restyle(w) \/ LipSync(w)
  <2>1. \E file \in files : work' = [work EXCEPT ![w] = [at |-> "engine", source |-> file]]
    BY <1>4 DEF Restyle, LipSync
  <2>2. files' = files
    BY <1>4 DEF Restyle, LipSync
  <2> QED
    BY <1>3, <2>1, <2>2 DEF CharacterInv
<1>5. CASE WorkEnds(w)
  <2>1. work[w] \in WorkStates /\ work[w].at = "engine"
    BY <1>5 DEF CharacterInv, WorkEnds
  <2>2. \A at \in {"refused", "done"} : [work[w] EXCEPT !.at = at] \in WorkStates
    BY <2>1 DEF WorkStates
  <2>3. PICK at \in {"refused", "done"} : work' = [work EXCEPT ![w].at = at]
    BY <1>5 DEF WorkEnds
  <2>4. work' = [work EXCEPT ![w] = [work[w] EXCEPT !.at = at]]
    BY <2>3 DEF CharacterInv
  <2>5. <<w, 1>> \in Files
    BY DEF Files
  <2>6. files' \in {files, files \union {<<w, 1>>}}
    BY <1>5 DEF WorkEnds
  <2>7. files \subseteq files' /\ files' \subseteq Files
    BY <2>5, <2>6 DEF CharacterInv
  <2> QED
    BY <1>2, <2>2, <2>4, <2>7
<1> QED
  BY <1>4, <1>5

LEMMA CharacterBase == CharacterInit => CharacterInv
BY DEF CharacterInit, CharacterInv, Registered, UploadStates, WorkStates, Uploaded

LEMMA CharacterStep == ASSUME CharacterInv, CharacterNext PROVE CharacterInv'
BY AccountsKeep, IngestKeeps, FrameKeeps, UploadEnds, DeleteKeeps, WorksKeep DEF CharacterNext

\* The invariant says what the properties say of accounts and characters.
LEMMA CharacterFacts == ASSUME CharacterInv PROVE CharacterType /\ CharactersStand
<1>1. CharacterType
  <2>1. \A u \in Uploads : UploadAt(u, "new") \/ upload[u] \in
          [at : {"frames", "refused", "done", "lost"}, owner : Signups,
           frames : Seq(Files), left : 0 .. MaxFrames]
    BY DEF CharacterInv, UploadStates, UploadAt
  <2>2. \A w \in Works : work[w].at = "new" \/ work[w] \in
          [at : {"engine", "refused", "done"}, source : Files]
    BY DEF CharacterInv, WorkStates
  <2>3. characters \subseteq CharacterRows
    BY DEF CharacterInv, Standing
  <2> QED
    BY <2>1, <2>2, <2>3 DEF CharacterType, CharacterInv, Registered
<1>2. CharactersStand
  <2> SUFFICES ASSUME NEW c \in characters
               PROVE  /\ Len(c.frames) \in 1 .. MaxFrames
                      /\ \A i \in DOMAIN c.frames : c.frames[i] \in files /\ c.frames[i][1] = c.id
                      /\ \E a \in users : /\ a.id = c.owner
                                          /\ AccountsOf(a.email) = {a}
                                          /\ \A k \in tokens : k.email = a.email => k.id = c.owner
    BY DEF CharactersStand
  <2>1. Standing(c, Ids(users), files)
    BY DEF CharacterInv
  <2>2. c.frames \in Seq(Files)
    BY <2>1 DEF Standing, CharacterRows
  <2>3. DOMAIN c.frames = 1 .. Len(c.frames)
    <3> HIDE DEF Files
    <3> QED
      BY <2>2
  <2>4. PICK a \in users : a.id = c.owner
    BY <2>1 DEF Standing, Ids
  <2>5. AccountsOf(a.email) = {a}
    BY DEF AccountsOf, CharacterInv, Registered
  <2>6. \A k \in tokens : k.email = a.email => k.id = c.owner
    BY <2>4 DEF CharacterInv, Registered
  <2> QED
    BY <2>1, <2>3, <2>4, <2>5, <2>6 DEF Standing, Stored
<1> QED
  BY <1>1, <1>2

-----------------------------------------------------------------------------
(* The chat *)

\* A turn adds at most one memory after the switch is off, and none before the
\* one it was writing.
Counted(r, on) == r.late <= 1 /\ (~on /\ r.at \in {"update", "commit"} => r.late = 0)

\* What a turn deactivates are rows of its kind, and every active one of them
\* unless another turn has committed since.
Prepared(r, rows) ==
    /\ \A i \in r.prior : i \in 1 .. Len(rows) /\ rows[i].kind = r.kind
    /\ r.at = "commit" /\ ~r.raced =>
         \A i \in 1 .. Len(rows) : rows[i].kind = r.kind /\ rows[i].state = "active" => i \in r.prior

Learning(r) == r.at \notin {"reply", "done", "lost"} => r.kind \in Kinds

\* The messages of these turns, of the first Limit ones, are in the history.
Shown(speakers, history, messages) ==
    \A i \in 1 .. Len(messages) :
      i <= Limit /\ messages[i].turn \in speakers => i \in DOMAIN history /\ history[i] = messages[i]

Held(t, r, messages) ==
    r.at \notin {"new", "recall", "rows", "load", "lost"} =>
      Shown(r.before \union (IF r.at = "done" THEN {t} ELSE {}), r.history, messages)

Silent == {"new", "recall", "rows", "load", "ask"}
Asking == {"plan", "answer"}
Answered == {"check", "update", "commit", "reply", "done"}

HasSaid(t, who, messages) == \E i \in 1 .. Len(messages) : messages[i] = [turn |-> t, who |-> who]

Said(t, r, messages) ==
    /\ r.at \in Silent => \A i \in 1 .. Len(messages) : messages[i].turn # t
    /\ r.at \in Asking => /\ HasSaid(t, "user", messages)
                          /\ \A i \in 1 .. Len(messages) : messages[i].turn = t => messages[i].who = "user"
    /\ r.at \in Answered => HasSaid(t, "user", messages) /\ HasSaid(t, "assistant", messages)

InOrder(messages) ==
    \A i, j \in 1 .. Len(messages) : messages[i].turn = messages[j].turn /\ i < j =>
      messages[i].who = "user" /\ messages[j].who = "assistant"

Kept(t, r, on, rows, messages) ==
    /\ Counted(r, on) /\ Prepared(r, rows) /\ Learning(r)
    /\ Held(t, r, messages) /\ Said(t, r, messages)

Past == \A t \in Turns : \A s \in turn[t].before : turn[s].at = "done"

ChatTyped ==
    /\ prefs \in [on : BOOLEAN, chosen : SUBSET Kinds]
    /\ memories \in Seq(Memories)
    /\ thread \in Seq(Messages)
    /\ acts \in Nat
    /\ turn \in [Turns -> TurnStates]

ChatInv ==
    /\ ChatTyped /\ Past /\ InOrder(thread)
    /\ \A t \in Turns : Kept(t, turn[t], prefs.on, memories, thread)

LEMMA Appended ==
    ASSUME NEW S, NEW s \in Seq(S), NEW e \in S
    PROVE  /\ Append(s, e) \in Seq(S) /\ Len(s) \in Nat /\ Len(Append(s, e)) = Len(s) + 1
           /\ \A i \in 1 .. Len(s) : Append(s, e)[i] = s[i]
           /\ Append(s, e)[Len(s) + 1] = e
OBVIOUS

\* A step of one turn that says nothing and adds no memory.
LEMMA TurnGoes ==
    ASSUME ChatInv, NEW t \in Turns, NEW r \in TurnStates, turn' = [turn EXCEPT ![t] = r],
           turn[t].at # "done", \A s \in r.before : turn[s].at = "done",
           Kept(t, r, prefs.on, memories, thread), UNCHANGED <<prefs, memories, thread, acts>>
    PROVE  ChatInv'
<1>1. turn' \in [Turns -> TurnStates] /\ \A s \in Turns : turn'[s] = IF s = t THEN r ELSE turn[s]
  BY DEF ChatInv, ChatTyped
<1>2. Past'
  <2>1. \A s \in Turns : turn[s].at = "done" => turn'[s].at = "done"
    BY <1>1
  <2>2. \A s \in Turns : turn[s].before \subseteq Turns /\ r.before \subseteq Turns
    BY DEF ChatInv, ChatTyped, TurnStates
  <2> QED
    BY <1>1, <2>1, <2>2 DEF Past, ChatInv
<1>3. \A s \in Turns : Kept(s, turn'[s], prefs.on, memories, thread)
  BY <1>1 DEF ChatInv
<1>4. ChatTyped' /\ InOrder(thread)' /\ \A s \in Turns : Kept(s, turn'[s], prefs'.on, memories', thread')
  BY <1>1, <1>3 DEF ChatInv, ChatTyped
<1> QED
  BY <1>2, <1>4 DEF ChatInv

\* A step of one turn to another place, nothing else.
LEMMA TurnMoves ==
    ASSUME ChatInv, NEW t \in Turns, NEW step \in Steps, Proceed(t, step), turn[t].at # "done",
           Kept(t, [turn[t] EXCEPT !.at = step], prefs.on, memories, thread),
           UNCHANGED <<prefs, memories, thread, acts>>
    PROVE  ChatInv'
<1> DEFINE r == [turn[t] EXCEPT !.at = step]
<1>1. turn[t] \in TurnStates
  BY DEF ChatInv, ChatTyped
<1>2. r \in TurnStates /\ r.before = turn[t].before
  BY <1>1 DEF TurnStates
<1>3. turn' = [turn EXCEPT ![t] = r]
  BY DEF Proceed
<1>4. \A s \in r.before : turn[s].at = "done"
  BY <1>2 DEF ChatInv, Past
<1> HIDE DEF r
<1> QED
  BY <1>2, <1>3, <1>4, TurnGoes DEF r

LEMMA TurnFields ==
    ASSUME ChatInv, NEW t \in Turns
    PROVE  /\ turn[t] \in TurnStates /\ turn[t].before \subseteq Turns /\ turn[t].late \in Nat
           /\ turn[t].kind \in Nat /\ turn[t].at \in Steps /\ turn[t].prior \subseteq Nat
           /\ \A s \in turn[t].before : turn[s].at = "done"
           /\ Kept(t, turn[t], prefs.on, memories, thread)
BY DEF ChatInv, ChatTyped, Past, TurnStates

LEMMA BeginKeeps == ASSUME ChatInv, NEW t \in Turns, Begin(t) PROVE ChatInv'
<1> DEFINE r == [turn[t] EXCEPT !.at = "recall", !.chosen = prefs.chosen,
                                !.before = {s \in Turns : TurnAt(s, "done")}]
<1>1. turn' = [turn EXCEPT ![t] = r] /\ UNCHANGED <<prefs, memories, thread, acts>>
  BY DEF Begin
<1>2. /\ r \in TurnStates /\ r.at = "recall" /\ r.before = {s \in Turns : TurnAt(s, "done")}
      /\ r.late = turn[t].late /\ r.prior = turn[t].prior /\ r.kind = turn[t].kind
  <2>1. turn[t] \in TurnStates /\ prefs.chosen \subseteq Kinds
    BY DEF ChatInv, ChatTyped
  <2> QED
    BY <2>1 DEF TurnStates, Steps
<1> HIDE DEF r
<1>3. turn[t].at = "new"
  BY DEF Begin, TurnAt
<1>4. Kept(t, r, prefs.on, memories, thread)
  BY <1>2, <1>3, TurnFields DEF Kept, Counted, Prepared, Learning, Held, Said, Silent, Asking, Answered
<1>5. \A s \in r.before : turn[s].at = "done"
  BY <1>2 DEF TurnAt
<1> QED
  BY <1>1, <1>2, <1>3, <1>4, <1>5, TurnGoes

\* The planner's calls, the reading of the switch, and failures.
LEMMA MovesKeep ==
    ASSUME ChatInv, NEW t \in Turns, Recall(t) \/ Plan(t) \/ Break(t)
    PROVE  ChatInv'
<1> DEFINE r(step) == [turn[t] EXCEPT !.at = step]
<1>1. \A step \in Steps : /\ r(step).at = step /\ r(step).late = turn[t].late /\ r(step).kind = turn[t].kind
                          /\ r(step).prior = turn[t].prior /\ r(step).before = turn[t].before
                          /\ r(step).history = turn[t].history
  BY TurnFields DEF TurnStates
<1> HIDE DEF r
<1>2. PICK step \in Steps : /\ Proceed(t, step) /\ UNCHANGED <<prefs, memories, thread, acts>>
                            /\ \/ turn[t].at = "recall" /\ step \in {"rows", "load"}
                               \/ turn[t].at = "plan" /\ step = "answer"
                               \/ turn[t].at \notin {"new", "done", "lost"} /\ step = "lost"
  BY DEF Recall, Plan, Break, TurnAt, Steps
<1>3. Kept(t, r(step), prefs.on, memories, thread)
  <2>1. Counted(r(step), prefs.on) /\ Prepared(r(step), memories) /\ Learning(r(step))
    BY <1>1, <1>2, TurnFields DEF Kept, Counted, Prepared, Learning
  <2>2. Held(t, r(step), thread)
    BY <1>1, <1>2, TurnFields DEF Kept, Held
  <2>3. Said(t, r(step), thread)
    BY <1>1, <1>2, TurnFields DEF Kept, Said, Silent, Asking, Answered
  <2> QED
    BY <2>1, <2>2, <2>3 DEF Kept
<1> QED
  BY <1>2, <1>3, TurnMoves DEF r

LEMMA RowsKeeps == ASSUME ChatInv, NEW t \in Turns, Rows(t) PROVE ChatInv'
<1> DEFINE r == [turn[t] EXCEPT !.at = "load", !.learned = Applied(t)]
<1>1. turn' = [turn EXCEPT ![t] = r] /\ UNCHANGED <<prefs, memories, thread, acts>> /\ turn[t].at = "rows"
  BY DEF Rows, TurnAt
<1>2. Applied(t) \subseteq Nat
  <2>1. DOMAIN memories = 1 .. Len(memories) /\ Len(memories) \in Nat
    BY DEF ChatInv, ChatTyped
  <2> QED
    BY <2>1 DEF Applied
<1>3. /\ r \in TurnStates /\ r.at = "load" /\ r.before = turn[t].before
      /\ r.late = turn[t].late /\ r.prior = turn[t].prior /\ r.kind = turn[t].kind
  <2>1. turn[t] \in TurnStates
    BY TurnFields
  <2> QED
    BY <1>2, <2>1 DEF TurnStates, Steps
<1> HIDE DEF r
<1>4. Kept(t, r, prefs.on, memories, thread)
  BY <1>1, <1>3, TurnFields DEF Kept, Counted, Prepared, Learning, Held, Said, Silent, Asking, Answered
<1> QED
  BY <1>1, <1>3, <1>4, TurnFields, TurnGoes

\* load_thread returns the first messages, Limit at most.
LEMMA LoadShows ==
    ASSUME ChatInv
    PROVE  /\ Loaded \in Seq(Messages)
           /\ \A speakers : Shown(speakers, Loaded, thread)
<1> DEFINE n == IF Len(thread) < Limit THEN Len(thread) ELSE Limit
<1>1. thread \in Seq(Messages) /\ Len(thread) \in Nat /\ n \in 0 .. Len(thread)
  BY ChatAssumption DEF ChatInv, ChatTyped
<1>2. Loaded = SubSeq(thread, 1, n)
  BY DEF Loaded
<1>3. \A i \in 1 .. Len(thread) : i <= Limit => i \in 1 .. n
  BY <1>1, ChatAssumption
<1> HIDE DEF n
<1>4. /\ Loaded \in Seq(Messages) /\ DOMAIN Loaded = 1 .. n
      /\ \A i \in 1 .. n : Loaded[i] = thread[i]
  <2> HIDE DEF Messages
  <2> QED
    BY <1>1, <1>2
<1> QED
  BY <1>3, <1>4 DEF Shown

LEMMA LoadKeeps == ASSUME ChatInv, NEW t \in Turns, Load(t) PROVE ChatInv'
<1> DEFINE r == [turn[t] EXCEPT !.at = "ask", !.history = Loaded]
<1>1. turn' = [turn EXCEPT ![t] = r] /\ UNCHANGED <<prefs, memories, thread, acts>> /\ turn[t].at = "load"
  BY DEF Load, TurnAt
<1>2. /\ r \in TurnStates /\ r.at = "ask" /\ r.before = turn[t].before /\ r.history = Loaded
      /\ r.late = turn[t].late /\ r.prior = turn[t].prior /\ r.kind = turn[t].kind
  <2>1. turn[t] \in TurnStates /\ Loaded \in Seq(Messages)
    BY LoadShows, TurnFields
  <2> QED
    BY <2>1 DEF TurnStates, Steps
<1> HIDE DEF r
<1>3. Held(t, r, thread)
  BY <1>2, LoadShows DEF Held
<1>4. Kept(t, r, prefs.on, memories, thread)
  BY <1>1, <1>2, <1>3, TurnFields DEF Kept, Counted, Prepared, Learning, Said, Silent, Asking, Answered
<1> QED
  BY <1>1, <1>2, <1>4, TurnFields, TurnGoes

LEMMA ReplyKeeps == ASSUME ChatInv, NEW t \in Turns, Reply(t) PROVE ChatInv'
<1> DEFINE r == [turn[t] EXCEPT !.at = "done", !.history = Loaded]
<1>1. turn' = [turn EXCEPT ![t] = r] /\ UNCHANGED <<prefs, memories, thread, acts>> /\ turn[t].at = "reply"
  BY DEF Reply, TurnAt
<1>2. /\ r \in TurnStates /\ r.at = "done" /\ r.before = turn[t].before /\ r.history = Loaded
      /\ r.late = turn[t].late /\ r.prior = turn[t].prior /\ r.kind = turn[t].kind
  <2>1. turn[t] \in TurnStates /\ Loaded \in Seq(Messages)
    BY LoadShows, TurnFields
  <2> QED
    BY <2>1 DEF TurnStates, Steps
<1> HIDE DEF r
<1>3. Held(t, r, thread)
  BY <1>2, LoadShows DEF Held
<1>4. Kept(t, r, prefs.on, memories, thread)
  BY <1>1, <1>2, <1>3, TurnFields DEF Kept, Counted, Prepared, Learning, Said, Silent, Asking, Answered
<1> QED
  BY <1>1, <1>2, <1>4, TurnFields, TurnGoes

\* What NextKind leaves of a turn.
LEMMA NextKindFields ==
    ASSUME ChatInv, NEW t \in Turns, turn[t].at \in {"check", "commit"}
    PROVE  LET r == NextKind(turn[t])
           IN  /\ r \in TurnStates /\ r.at \in {"check", "reply"} /\ Learning(r)
               /\ r.prior = {} /\ r.late = turn[t].late
               /\ r.before = turn[t].before /\ r.history = turn[t].history
<1>1. turn[t].kind \in Kinds /\ KindCount \in Nat
  BY TurnFields, ChatAssumption DEF Kept, Learning
<1>2. NextKind(turn[t]) = [turn[t] EXCEPT !.kind = turn[t].kind + 1, !.prior = {}, !.raced = FALSE,
                             !.at = IF turn[t].kind = KindCount THEN "reply" ELSE "check"]
  BY TurnFields DEF NextKind, TurnStates
<1> DEFINE r == [turn[t] EXCEPT !.kind = turn[t].kind + 1, !.prior = {}, !.raced = FALSE,
                                !.at = IF turn[t].kind = KindCount THEN "reply" ELSE "check"]
<1>3. /\ r \in TurnStates /\ r.at = IF turn[t].kind = KindCount THEN "reply" ELSE "check"
      /\ r.kind = turn[t].kind + 1 /\ r.prior = {} /\ r.late = turn[t].late
      /\ r.before = turn[t].before /\ r.history = turn[t].history
  <2>1. turn[t] \in TurnStates /\ turn[t].kind + 1 \in Nat
    BY <1>1, TurnFields
  <2> QED
    BY <2>1 DEF TurnStates, Steps
<1> HIDE DEF r
<1>4. Learning(r)
  BY <1>1, <1>3 DEF Learning, Kinds
<1> QED
  BY <1>2, <1>3, <1>4 DEF r

LEMMA NextKindKept ==
    ASSUME ChatInv, NEW t \in Turns, turn[t].at = "check"
    PROVE  Kept(t, NextKind(turn[t]), prefs.on, memories, thread)
<1> DEFINE r == NextKind(turn[t])
<1>1. /\ r \in TurnStates /\ r.at \in {"check", "reply"} /\ Learning(r)
      /\ r.prior = {} /\ r.late = turn[t].late
      /\ r.before = turn[t].before /\ r.history = turn[t].history
  BY NextKindFields
<1> HIDE DEF r
<1>2. Counted(r, prefs.on) /\ Prepared(r, memories)
  BY <1>1, TurnFields DEF Kept, Counted, Prepared
<1>3. Held(t, r, thread) /\ Said(t, r, thread)
  BY <1>1, TurnFields DEF Kept, Held, Said, Silent, Asking, Answered
<1> QED
  BY <1>1, <1>2, <1>3 DEF Kept, r

LEMMA CheckKeeps == ASSUME ChatInv, NEW t \in Turns, Check(t) PROVE ChatInv'
<1>1. turn[t].at = "check" /\ UNCHANGED <<prefs, memories, thread, acts>>
  BY DEF Check, TurnAt
<1>2. CASE prefs.on
  <2> DEFINE r == [turn[t] EXCEPT !.at = "update"]
  <2>1. /\ r.at = "update" /\ r.late = turn[t].late /\ r.kind = turn[t].kind
        /\ r.prior = turn[t].prior /\ r.before = turn[t].before /\ r.history = turn[t].history
    BY TurnFields DEF TurnStates
  <2> HIDE DEF r
  <2>2. Kept(t, r, prefs.on, memories, thread)
    <3>1. Counted(r, prefs.on) /\ Prepared(r, memories) /\ Learning(r)
      BY <1>1, <1>2, <2>1, TurnFields DEF Kept, Counted, Prepared, Learning
    <3>2. Held(t, r, thread)
      BY <1>1, <2>1, TurnFields DEF Kept, Held
    <3>3. Said(t, r, thread)
      BY <1>1, <2>1, TurnFields DEF Kept, Said, Silent, Asking, Answered
    <3> QED
      BY <3>1, <3>2, <3>3 DEF Kept
  <2>3. Proceed(t, "update") /\ "update" \in Steps
    BY <1>2 DEF Check, MayLearn, Steps
  <2> QED
    BY <1>1, <2>2, <2>3, TurnMoves DEF r
<1>3. CASE ~prefs.on
  <2>1. turn' = [turn EXCEPT ![t] = NextKind(turn[t])]
    BY <1>3 DEF Check, MayLearn
  <2>2. NextKind(turn[t]) \in TurnStates /\ NextKind(turn[t]).before = turn[t].before
    BY <1>1, NextKindFields
  <2>3. /\ Kept(t, NextKind(turn[t]), prefs.on, memories, thread)
        /\ \A s \in NextKind(turn[t]).before : turn[s].at = "done"
    BY <1>1, <2>2, NextKindKept, TurnFields
  <2> QED
    BY <1>1, <2>1, <2>2, <2>3, TurnGoes
<1> QED
  BY <1>2, <1>3

LEMMA UpdateKeeps == ASSUME ChatInv, NEW t \in Turns, Update(t) PROVE ChatInv'
<1> DEFINE r == [turn[t] EXCEPT !.at = "commit", !.prior = Prior(t)]
<1>1. turn' = [turn EXCEPT ![t] = r] /\ UNCHANGED <<prefs, memories, thread, acts>> /\ turn[t].at = "update"
  BY DEF Update, TurnAt
<1>2. DOMAIN memories = 1 .. Len(memories) /\ Len(memories) \in Nat
  BY DEF ChatInv, ChatTyped
<1>3. Prior(t) = {i \in 1 .. Len(memories) : memories[i].kind = turn[t].kind /\ memories[i].state = "active"}
  BY <1>2 DEF Prior, Active
<1>4. /\ r \in TurnStates /\ r.at = "commit" /\ r.before = turn[t].before /\ r.history = turn[t].history
      /\ r.late = turn[t].late /\ r.prior = Prior(t) /\ r.kind = turn[t].kind
  <2>1. turn[t] \in TurnStates /\ Prior(t) \subseteq Nat
    BY <1>2, <1>3, TurnFields
  <2> QED
    BY <2>1 DEF TurnStates, Steps
<1> HIDE DEF r
<1>5. Prepared(r, memories)
  BY <1>3, <1>4 DEF Prepared
<1>6. Kept(t, r, prefs.on, memories, thread)
  BY <1>1, <1>4, <1>5, TurnFields DEF Kept, Counted, Learning, Held, Said, Silent, Asking, Answered
<1> QED
  BY <1>1, <1>4, <1>6, TurnFields, TurnGoes

\* A message appended by a turn that is not done: what the other turns know of
\* the thread is as it was, and the turn's own history lacks nothing.
LEMMA TurnSays ==
    ASSUME ChatInv, NEW t \in Turns, NEW who \in {"user", "assistant"}, NEW step \in Steps,
           turn[t].at \in {"ask", "plan", "answer"}, step \in {"plan", "answer", "check"},
           Say(t, who), Proceed(t, step), UNCHANGED <<prefs, memories, acts>>,
           Said(t, [turn[t] EXCEPT !.at = step], thread'), InOrder(thread')
    PROVE  ChatInv'
<1> DEFINE r == [turn[t] EXCEPT !.at = step]
           message == [turn |-> t, who |-> who]
<1>1. /\ r \in TurnStates /\ r.at = step /\ r.before = turn[t].before /\ r.history = turn[t].history
      /\ r.late = turn[t].late /\ r.prior = turn[t].prior /\ r.kind = turn[t].kind
  <2>1. turn[t] \in TurnStates
    BY TurnFields
  <2> QED
    BY <2>1 DEF TurnStates
<1>2. /\ turn' \in [Turns -> TurnStates]
      /\ \A s \in Turns : turn'[s] = IF s = t THEN r ELSE turn[s]
  BY <1>1 DEF ChatInv, ChatTyped, Proceed
<1>3. /\ message \in Messages /\ message.turn = t /\ thread' = Append(thread, message)
      /\ thread \in Seq(Messages)
  BY DEF Messages, Say, ChatInv, ChatTyped
<1> HIDE DEF r, message
<1>4. /\ thread' \in Seq(Messages) /\ Len(thread) \in Nat /\ Len(thread') = Len(thread) + 1
      /\ \A i \in 1 .. Len(thread) : thread'[i] = thread[i]
      /\ thread'[Len(thread) + 1] = message
  BY <1>3, Appended
<1>5. Past'
  BY <1>1, <1>2, TurnFields DEF Past
<1>6. ASSUME NEW s \in Turns PROVE Held(s, turn'[s], thread')
  <2> DEFINE speakers == turn[s].before \union (IF turn[s].at = "done" THEN {s} ELSE {})
  <2>1. t \notin speakers
    BY TurnFields
  <2> HIDE DEF speakers
  <2>2. Shown(speakers, turn[s].history, thread) => Shown(speakers, turn[s].history, thread')
    BY <1>3, <1>4, <2>1 DEF Shown
  <2>3. Held(s, turn[s], thread) => Held(s, turn[s], thread')
    BY <2>2 DEF Held, speakers
  <2>4. Held(s, turn[s], thread') => Held(s, turn'[s], thread')
    BY <1>1, <1>2 DEF Held
  <2> QED
    BY <2>3, <2>4, TurnFields DEF Kept
<1>7. ASSUME NEW s \in Turns, s # t PROVE Said(s, turn[s], thread')
  <2>1. \A w : HasSaid(s, w, thread) => HasSaid(s, w, thread')
    BY <1>4 DEF HasSaid
  <2>2. /\ (\A i \in 1 .. Len(thread) : thread[i].turn # s) =>
             \A i \in 1 .. Len(thread') : thread'[i].turn # s
        /\ (\A i \in 1 .. Len(thread) : thread[i].turn = s => thread[i].who = "user") =>
             \A i \in 1 .. Len(thread') : thread'[i].turn = s => thread'[i].who = "user"
    BY <1>3, <1>4, <1>7
  <2>3. Said(s, turn[s], thread)
    BY TurnFields DEF Kept
  <2> QED
    BY <2>1, <2>2, <2>3 DEF Said
<1>8. ASSUME NEW s \in Turns PROVE Kept(s, turn'[s], prefs.on, memories, thread')
  <2>1. Counted(turn'[s], prefs.on) /\ Prepared(turn'[s], memories) /\ Learning(turn'[s])
    BY <1>1, <1>2, TurnFields DEF Kept, Counted, Prepared, Learning
  <2>2. Said(s, turn'[s], thread')
    BY <1>2, <1>7 DEF r
  <2> QED
    BY <1>6, <2>1, <2>2 DEF Kept
<1>9. ChatTyped'
  BY <1>2, <1>4 DEF ChatInv, ChatTyped
<1> QED
  BY <1>5, <1>8, <1>9 DEF ChatInv

LEMMA AskKeeps == ASSUME ChatInv, NEW t \in Turns, Ask(t) PROVE ChatInv'
<1> DEFINE r == [turn[t] EXCEPT !.at = "plan"]
           message == [turn |-> t, who |-> "user"]
<1>1. r.at = "plan"
  BY TurnFields DEF TurnStates
<1>2. /\ turn[t].at = "ask" /\ Say(t, "user") /\ Proceed(t, "plan")
      /\ UNCHANGED <<prefs, memories, acts>>
  BY DEF Ask, TurnAt
<1>3. /\ message \in Messages /\ message.turn = t /\ message.who = "user"
      /\ thread' = Append(thread, message) /\ thread \in Seq(Messages)
  BY <1>2 DEF Messages, Say, ChatInv, ChatTyped
<1>4. \A i \in 1 .. Len(thread) : thread[i].turn # t
  BY <1>2, TurnFields DEF Kept, Said, Silent
<1> HIDE DEF r, message
<1>5. /\ Len(thread) \in Nat /\ Len(thread') = Len(thread) + 1
      /\ \A i \in 1 .. Len(thread) : thread'[i] = thread[i]
      /\ thread'[Len(thread) + 1] = message
  BY <1>3, Appended
<1>6. Said(t, r, thread')
  <2>1. HasSaid(t, "user", thread')
    BY <1>5 DEF HasSaid, message
  <2> QED
    BY <1>1, <1>3, <1>4, <1>5, <2>1 DEF Said, Silent, Asking, Answered
<1>7. InOrder(thread')
  BY <1>3, <1>4, <1>5 DEF InOrder, ChatInv
<1> QED
  BY <1>2, <1>6, <1>7, TurnSays DEF r, Steps

LEMMA AnswerKeeps == ASSUME ChatInv, NEW t \in Turns, Answer(t) PROVE ChatInv'
<1> DEFINE r == [turn[t] EXCEPT !.at = "check"]
           message == [turn |-> t, who |-> "assistant"]
<1>1. r.at = "check"
  BY TurnFields DEF TurnStates
<1>2. /\ turn[t].at = "answer" /\ Say(t, "assistant") /\ Proceed(t, "check")
      /\ UNCHANGED <<prefs, memories, acts>>
  BY DEF Answer, TurnAt
<1>3. /\ message \in Messages /\ message.turn = t /\ message.who = "assistant"
      /\ thread' = Append(thread, message) /\ thread \in Seq(Messages)
  BY <1>2 DEF Messages, Say, ChatInv, ChatTyped
<1>4. /\ HasSaid(t, "user", thread)
      /\ \A i \in 1 .. Len(thread) : thread[i].turn = t => thread[i].who = "user"
  BY <1>2, TurnFields DEF Kept, Said, Asking
<1> HIDE DEF r, message
<1>5. /\ Len(thread) \in Nat /\ Len(thread') = Len(thread) + 1
      /\ \A i \in 1 .. Len(thread) : thread'[i] = thread[i]
      /\ thread'[Len(thread) + 1] = message
  BY <1>3, Appended
<1>6. Said(t, r, thread')
  <2>1. HasSaid(t, "user", thread') /\ HasSaid(t, "assistant", thread')
    BY <1>4, <1>5 DEF HasSaid, message
  <2> QED
    BY <1>1, <2>1 DEF Said, Silent, Asking, Answered
<1>7. InOrder(thread')
  BY <1>3, <1>4, <1>5 DEF InOrder, ChatInv
<1> QED
  BY <1>2, <1>6, <1>7, TurnSays DEF r, Steps

LEMMA IsSequence ==
    ASSUME NEW S, NEW n \in Nat, NEW f \in [1 .. n -> S]
    PROVE  f \in Seq(S) /\ Len(f) = n
OBVIOUS

\* What deactivating the prior rows of a turn leaves.
LEMMA SupersededRows ==
    ASSUME ChatInv, NEW t \in Turns
    PROVE  /\ Superseded(t) \in Seq(Memories) /\ Len(memories) \in Nat /\ Len(Superseded(t)) = Len(memories)
           /\ \A i \in 1 .. Len(memories) :
                /\ Superseded(t)[i].kind = memories[i].kind /\ Becomes(memories[i], Superseded(t)[i])
                /\ Superseded(t)[i].state = "active" => memories[i].state = "active" /\ i \notin turn[t].prior
<1>1. memories \in Seq(Memories) /\ DOMAIN memories = 1 .. Len(memories) /\ Len(memories) \in Nat
  BY DEF ChatInv, ChatTyped
<1>2. \A i \in 1 .. Len(memories) : memories[i] \in Memories
  BY <1>1
<1>3. \A i \in 1 .. Len(memories) :
        LET row == IF i \in turn[t].prior /\ memories[i].state = "active"
                   THEN [memories[i] EXCEPT !.state = "inactive"] ELSE memories[i]
        IN  /\ row \in Memories /\ row.kind = memories[i].kind /\ Becomes(memories[i], row)
            /\ row.state = "active" => memories[i].state = "active" /\ i \notin turn[t].prior
  BY <1>2 DEF Memories, Becomes
<1>4. /\ Superseded(t) \in [1 .. Len(memories) -> Memories]
      /\ \A i \in 1 .. Len(memories) :
           Superseded(t)[i] = IF i \in turn[t].prior /\ memories[i].state = "active"
                              THEN [memories[i] EXCEPT !.state = "inactive"] ELSE memories[i]
  BY <1>1, <1>3 DEF Superseded
<1> QED
  BY <1>1, <1>3, <1>4, IsSequence

\* The memories a commit leaves.
LEMMA CommittedRows ==
    ASSUME ChatInv, NEW t \in Turns, Commit(t)
    PROVE  /\ memories' \in Seq(Memories) /\ Len(memories) \in Nat /\ Len(memories') = Len(memories) + 1
           /\ \A i \in 1 .. Len(memories) :
                /\ memories'[i].kind = memories[i].kind /\ Becomes(memories[i], memories'[i])
                /\ memories'[i].state = "active" => memories[i].state = "active" /\ i \notin turn[t].prior
           /\ memories'[Len(memories) + 1].kind = turn[t].kind
           /\ memories'[Len(memories) + 1].state = "active"
<1> DEFINE row == [kind |-> turn[t].kind, from |-> t, state |-> "active"]
<1>1. turn[t].at = "commit" /\ memories' = Append(Superseded(t), row)
  BY DEF Commit, TurnAt
<1>2. turn[t].kind \in Kinds
  BY <1>1, TurnFields DEF Kept, Learning
<1>3. row \in Memories /\ row.kind = turn[t].kind /\ row.state = "active"
  BY <1>2 DEF Memories
<1> HIDE DEF row
<1>4. /\ memories' \in Seq(Memories) /\ Len(memories') = Len(Superseded(t)) + 1
      /\ \A i \in 1 .. Len(Superseded(t)) : memories'[i] = Superseded(t)[i]
      /\ memories'[Len(Superseded(t)) + 1] = row
  BY <1>1, <1>3, SupersededRows, Appended
<1> QED
  BY <1>3, <1>4, SupersededRows

\* The turns a commit leaves: another one learns that it was overtaken.
LEMMA CommittedTurns ==
    ASSUME ChatInv, NEW t \in Turns, Commit(t)
    PROVE  /\ turn' \in [Turns -> TurnStates]
           /\ turn'[t].at \in {"check", "reply"} /\ Learning(turn'[t]) /\ turn'[t].prior = {}
           /\ turn'[t].late = IF prefs.on THEN turn[t].late ELSE turn[t].late + 1
           /\ turn'[t].before = turn[t].before /\ turn'[t].history = turn[t].history
           /\ \A s \in Turns : s # t =>
                /\ turn'[s].at = turn[s].at /\ turn'[s].kind = turn[s].kind /\ turn'[s].prior = turn[s].prior
                /\ turn'[s].late = turn[s].late /\ turn'[s].before = turn[s].before
                /\ turn'[s].history = turn[s].history
                /\ turn'[s].raced = (turn[s].raced \/ (turn[s].at = "commit" /\ turn[s].kind = turn[t].kind))
<1> DEFINE q == NextKind(turn[t])
           r == [q EXCEPT !.late = IF prefs.on THEN q.late ELSE q.late + 1]
           o(s) == [turn[s] EXCEPT !.raced =
                      turn[s].raced \/ (TurnAt(s, "commit") /\ turn[s].kind = turn[t].kind)]
<1>1. turn[t].at = "commit" /\ turn' = [s \in Turns |-> IF s = t THEN r ELSE o(s)]
  BY DEF Commit, TurnAt
<1>2. /\ q \in TurnStates /\ q.at \in {"check", "reply"} /\ Learning(q)
      /\ q.prior = {} /\ q.late = turn[t].late
      /\ q.before = turn[t].before /\ q.history = turn[t].history
  BY <1>1, NextKindFields
<1> HIDE DEF q
<1>3. /\ r \in TurnStates /\ r.at = q.at /\ r.kind = q.kind /\ r.prior = q.prior
      /\ r.late = IF prefs.on THEN q.late ELSE q.late + 1
      /\ r.before = q.before /\ r.history = q.history
  BY <1>2 DEF TurnStates
<1>4. ASSUME NEW s \in Turns
      PROVE  /\ o(s) \in TurnStates
             /\ o(s).at = turn[s].at /\ o(s).kind = turn[s].kind /\ o(s).prior = turn[s].prior
             /\ o(s).late = turn[s].late /\ o(s).before = turn[s].before /\ o(s).history = turn[s].history
             /\ o(s).raced = (turn[s].raced \/ (turn[s].at = "commit" /\ turn[s].kind = turn[t].kind))
  <2>1. turn[s] \in TurnStates
    BY TurnFields
  <2> QED
    BY <2>1 DEF TurnStates, TurnAt
<1> HIDE DEF r, o
<1>5. turn' \in [Turns -> TurnStates] /\ turn'[t] = r /\ \A s \in Turns : s # t => turn'[s] = o(s)
  BY <1>1, <1>3, <1>4
<1>6. Learning(turn'[t])
  BY <1>2, <1>3, <1>5 DEF Learning
<1> QED
  BY <1>2, <1>3, <1>4, <1>5, <1>6

LEMMA CommitKeeps == ASSUME ChatInv, NEW t \in Turns, Commit(t) PROVE ChatInv'
<1>1. turn[t].at = "commit" /\ UNCHANGED <<prefs, thread, acts>>
  BY DEF Commit, TurnAt
<1>2. Past'
  BY <1>1, CommittedTurns, TurnFields DEF Past
<1>3. ASSUME NEW s \in Turns, s # t PROVE Kept(s, turn'[s], prefs.on, memories', thread)
  <2>1. Counted(turn'[s], prefs.on)
    BY <1>3, CommittedTurns, TurnFields DEF Kept, Counted
  <2>2. Prepared(turn'[s], memories')
    <3>1. Prepared(turn[s], memories)
      BY TurnFields DEF Kept
    <3>2. \A i \in turn[s].prior : i \in 1 .. Len(memories') /\ memories'[i].kind = turn[s].kind
      BY <3>1, CommittedRows DEF Prepared
    <3>3. ASSUME turn[s].at = "commit", ~turn'[s].raced, NEW i \in 1 .. Len(memories'),
                 memories'[i].kind = turn[s].kind, memories'[i].state = "active"
          PROVE  i \in turn[s].prior
      <4>1. ~turn[s].raced /\ turn[s].kind # turn[t].kind
        BY <1>3, <3>3, CommittedTurns
      <4>2. i \in 1 .. Len(memories)
        BY <3>3, <4>1, CommittedRows
      <4> QED
        BY <3>1, <3>3, <4>1, <4>2, CommittedRows DEF Prepared
    <3> QED
      BY <1>3, <3>2, <3>3, CommittedTurns DEF Prepared
  <2>3. /\ turn'[s].at = turn[s].at /\ turn'[s].kind = turn[s].kind
        /\ turn'[s].before = turn[s].before /\ turn'[s].history = turn[s].history
    BY <1>3, CommittedTurns
  <2>4. Learning(turn[s]) /\ Held(s, turn[s], thread) /\ Said(s, turn[s], thread)
    BY TurnFields DEF Kept
  <2>5. Learning(turn'[s]) /\ Said(s, turn'[s], thread)
    BY <2>3, <2>4 DEF Learning, Said
  <2>6. Held(s, turn'[s], thread)
    BY <2>3, <2>4 DEF Held
  <2> QED
    BY <2>1, <2>2, <2>5, <2>6 DEF Kept
<1>4. Kept(t, turn'[t], prefs.on, memories', thread)
  <2>1. Counted(turn'[t], prefs.on) /\ Prepared(turn'[t], memories') /\ Learning(turn'[t])
    BY <1>1, CommittedTurns, TurnFields DEF Kept, Counted, Prepared
  <2>2. Held(t, turn'[t], thread) /\ Said(t, turn'[t], thread)
    BY <1>1, CommittedTurns, TurnFields DEF Kept, Held, Said, Silent, Asking, Answered
  <2> QED
    BY <2>1, <2>2 DEF Kept
<1>5. ChatTyped' /\ InOrder(thread')
  BY <1>1, CommittedRows, CommittedTurns DEF ChatInv, ChatTyped
<1> QED
  BY <1>1, <1>2, <1>3, <1>4, <1>5 DEF ChatInv

\* The switch starts a new count where it was on.
LEMMA PreferencesKeep == ASSUME ChatInv, SetPreferences PROVE ChatInv'
<1>1. PICK on \in BOOLEAN, more \in {{}} \union {{k} : k \in Kinds} :
        prefs' = [on |-> on, chosen |-> prefs.chosen \union more]
  BY DEF SetPreferences
<1>2. /\ acts' = acts + 1 /\ UNCHANGED <<memories, thread>>
      /\ turn' = [t \in Turns |-> [turn[t] EXCEPT !.late = IF prefs.on THEN 0 ELSE turn[t].late]]
  BY DEF SetPreferences, Act
<1>3. prefs' \in [on : BOOLEAN, chosen : SUBSET Kinds] /\ prefs.on \in BOOLEAN /\ acts' \in Nat
  BY <1>1, <1>2 DEF ChatInv, ChatTyped
<1> DEFINE o(t) == [turn[t] EXCEPT !.late = IF prefs.on THEN 0 ELSE turn[t].late]
<1>4. ASSUME NEW t \in Turns
      PROVE  /\ o(t) \in TurnStates
             /\ o(t).at = turn[t].at /\ o(t).kind = turn[t].kind /\ o(t).prior = turn[t].prior
             /\ o(t).before = turn[t].before /\ o(t).history = turn[t].history
             /\ o(t).raced = turn[t].raced /\ o(t).late = IF prefs.on THEN 0 ELSE turn[t].late
  <2>1. turn[t] \in TurnStates
    BY TurnFields
  <2> QED
    BY <2>1 DEF TurnStates
<1>5. turn' \in [Turns -> TurnStates] /\ \A t \in Turns : turn'[t] = o(t)
  BY <1>2, <1>4
<1> HIDE DEF o
<1>6. Past'
  BY <1>4, <1>5, TurnFields DEF Past
<1>7. ASSUME NEW t \in Turns PROVE Kept(t, turn'[t], prefs'.on, memories, thread)
  <2>1. Counted(turn'[t], prefs'.on)
    BY <1>3, <1>4, <1>5, TurnFields DEF Kept, Counted
  <2>2. Prepared(turn'[t], memories) /\ Learning(turn'[t])
    BY <1>4, <1>5, TurnFields DEF Kept, Prepared, Learning
  <2>3. /\ turn'[t].at = turn[t].at
        /\ turn'[t].before = turn[t].before /\ turn'[t].history = turn[t].history
    BY <1>4, <1>5
  <2>4. Held(t, turn[t], thread) /\ Said(t, turn[t], thread)
    BY TurnFields DEF Kept
  <2>5. Held(t, turn'[t], thread)
    BY <2>3, <2>4 DEF Held
  <2>6. Said(t, turn'[t], thread)
    BY <2>3, <2>4 DEF Said
  <2> QED
    BY <2>1, <2>2, <2>5, <2>6 DEF Kept
<1> QED
  BY <1>2, <1>3, <1>5, <1>6, <1>7 DEF ChatInv, ChatTyped

\* What forgetting leaves.
LEMMA ForgottenRows ==
    ASSUME ChatInv, Forget
    PROVE  /\ memories' \in Seq(Memories) /\ Len(memories') = Len(memories)
           /\ \A i \in 1 .. Len(memories) :
                /\ memories'[i].kind = memories[i].kind /\ Becomes(memories[i], memories'[i])
                /\ memories'[i].state = "active" => memories[i].state = "active"
<1>1. PICK ids \in {{i} : i \in DOMAIN memories} \union {DOMAIN memories} :
        memories' = [i \in DOMAIN memories |->
                       IF i \in ids THEN [memories[i] EXCEPT !.state = "deleted"] ELSE memories[i]]
  BY DEF Forget
<1>2. memories \in Seq(Memories) /\ DOMAIN memories = 1 .. Len(memories) /\ Len(memories) \in Nat
  BY DEF ChatInv, ChatTyped
<1>3. \A i \in 1 .. Len(memories) : memories[i] \in Memories
  BY <1>2
<1>4. \A i \in 1 .. Len(memories) :
        LET row == IF i \in ids THEN [memories[i] EXCEPT !.state = "deleted"] ELSE memories[i]
        IN  /\ row \in Memories /\ row.kind = memories[i].kind /\ Becomes(memories[i], row)
            /\ row.state = "active" => memories[i].state = "active"
  BY <1>3 DEF Memories, Becomes
<1>5. /\ memories' \in [1 .. Len(memories) -> Memories]
      /\ \A i \in 1 .. Len(memories) :
           memories'[i] = IF i \in ids THEN [memories[i] EXCEPT !.state = "deleted"] ELSE memories[i]
  BY <1>1, <1>2, <1>4
<1> QED
  BY <1>2, <1>4, <1>5, IsSequence

LEMMA ForgetKeeps == ASSUME ChatInv, Forget PROVE ChatInv'
<1>1. acts' = acts + 1 /\ UNCHANGED <<prefs, thread, turn>>
  BY DEF Forget, Act
<1>2. ASSUME NEW t \in Turns PROVE Kept(t, turn[t], prefs.on, memories', thread)
  <2>1. Prepared(turn[t], memories')
    BY ForgottenRows, TurnFields DEF Kept, Prepared
  <2> QED
    BY <2>1, TurnFields DEF Kept
<1>3. ChatTyped' /\ Past' /\ InOrder(thread')
  BY <1>1, ForgottenRows DEF ChatInv, ChatTyped, Past
<1> QED
  BY <1>1, <1>2, <1>3 DEF ChatInv

LEMMA ChatBase == ASSUME ChatInit PROVE ChatInv
<1>1. 1 \in Kinds
  BY ChatAssumption DEF Kinds
<1>2. memories \in Seq(Memories)
  <2>1. CASE memories = <<>>
    BY <2>1
  <2>2. CASE memories = [i \in 1 .. 2 |-> [kind |-> 1, from |-> Earlier, state |-> "active"]]
    <3>1. memories \in [1 .. 2 -> Memories]
      BY <1>1, <2>2 DEF Memories
    <3> QED
      BY <3>1, IsSequence
  <2> QED
    BY <2>1, <2>2 DEF ChatInit, Learned
<1>3. thread = <<>> /\ Len(thread) = 0 /\ thread \in Seq(Messages)
  BY DEF ChatInit
<1>4. ChatTyped
  BY <1>2, <1>3 DEF ChatInit, ChatTyped, TurnStates, Steps
<1>5. Past /\ InOrder(thread)
  BY <1>3 DEF ChatInit, Past, InOrder
<1>6. ASSUME NEW t \in Turns PROVE Kept(t, turn[t], prefs.on, memories, thread)
  <2>1. /\ turn[t].at = "new" /\ turn[t].kind = 1 /\ turn[t].late = 0 /\ turn[t].prior = {}
        /\ \A i \in 1 .. Len(thread) : FALSE
    BY <1>3 DEF ChatInit
  <2> QED
    BY <1>1, <2>1 DEF Kept, Counted, Prepared, Learning, Held, Said, Silent, Asking, Answered
<1> QED
  BY <1>4, <1>5, <1>6 DEF ChatInv

LEMMA ChatStep == ASSUME ChatInv, ChatNext PROVE ChatInv'
<1>1. ASSUME NEW t \in Turns, Turn(t) PROVE ChatInv'
  BY <1>1, BeginKeeps, MovesKeep, RowsKeeps, LoadKeeps, AskKeeps, AnswerKeeps, CheckKeeps,
     UpdateKeeps, CommitKeeps, ReplyKeeps DEF Turn
<1> QED
  BY <1>1, PreferencesKeep, ForgetKeeps DEF ChatNext

LEMMA ChatStays == ASSUME ChatInv, UNCHANGED chatVars PROVE ChatInv'
BY DEF ChatInv, ChatTyped, Past, chatVars

LEMMA ChatFacts == ASSUME ChatInv PROVE ChatType /\ OffMeansOff /\ ThreadKept
<1>1. /\ DOMAIN memories = 1 .. Len(memories) /\ DOMAIN thread = 1 .. Len(thread)
      /\ Len(thread) \in Nat
  BY DEF ChatInv, ChatTyped
<1>2. ChatType
  BY <1>1, TurnFields DEF ChatType, ChatInv, ChatTyped, Kept, Prepared
<1>3. OffMeansOff
  BY TurnFields DEF OffMeansOff, Kept, Counted
<1>4. ASSUME NEW t \in Turns, NEW i \in DOMAIN thread,
             turn[t].at \notin {"new", "recall", "rows", "load", "lost"}, Len(thread) <= Limit,
             thread[i].turn \in turn[t].before \union (IF TurnAt(t, "done") THEN {t} ELSE {})
      PROVE  \E j \in DOMAIN turn[t].history : turn[t].history[j] = thread[i]
  <2>1. Held(t, turn[t], thread)
    BY TurnFields DEF Kept
  <2>2. i \in 1 .. Len(thread) /\ i <= Limit
    BY <1>1, <1>4, ChatAssumption
  <2>3. i \in DOMAIN turn[t].history /\ turn[t].history[i] = thread[i]
    BY <1>4, <2>1, <2>2 DEF Held, Shown, TurnAt
  <2> QED
    BY <2>3
<1>5. ASSUME NEW t \in Turns, NEW who \in {"user", "assistant"}, TurnAt(t, "done")
      PROVE  \E i \in DOMAIN thread : thread[i] = [turn |-> t, who |-> who]
  <2>1. Said(t, turn[t], thread) /\ turn[t].at \in Answered
    BY <1>5, TurnFields DEF Kept, TurnAt, Answered
  <2> QED
    BY <1>1, <2>1 DEF Said, HasSaid
<1>6. ThreadKept
  BY <1>1, <1>4, <1>5 DEF ThreadKept, ChatInv, InOrder
<1> QED
  BY <1>2, <1>3, <1>6

-----------------------------------------------------------------------------
(* The studio *)

IInv == ChatInv /\ CharacterInv

LEMMA CharactersStay == ASSUME CharacterInv, UNCHANGED characterVars PROVE CharacterInv'
<1>1. UNCHANGED <<users, tokens, signup, files, upload, characters, work>>
  BY DEF characterVars
<1> QED
  BY <1>1, CharactersGo DEF CharacterInv

LEMMA Step == ASSUME IInv, [Next]_vars PROVE IInv'
<1>1. CASE ChatNext /\ UNCHANGED characterVars
  BY <1>1, ChatStep, CharactersStay DEF IInv
<1>2. CASE CharacterNext /\ UNCHANGED chatVars
  BY <1>2, CharacterStep, ChatStays DEF IInv
<1>3. CASE UNCHANGED vars
  BY <1>3, ChatStays, CharactersStay DEF IInv, vars
<1> QED
  BY <1>1, <1>2, <1>3 DEF Next

\* What the studio's invariants rest on, in every state of every run: what each
\* turn knows of the thread and of the memories it is about to replace, and
\* what each upload has stored.
THEOREM Inductive == Spec => []IInv
<1>1. Init => IInv
  BY ChatBase, CharacterBase DEF Init, IInv
<1>2. IInv /\ [Next]_vars => IInv'
  BY Step
<1> QED
  BY <1>1, <1>2, PTL DEF Spec

\* Every row and request of the chat and of the accounts keeps its shape, and
\* a turn deactivates rows of its own kind only.
THEOREM TypeCorrect == Spec => []TypeOK
<1>1. IInv => TypeOK
  BY ChatFacts, CharacterFacts DEF IInv, TypeOK
<1> QED
  BY <1>1, Inductive, PTL

\* A character has its frames in the store and its owner's account, and the
\* owner's tokens are for that account (characters.py, auth/service.py).
THEOREM Stand == Spec => []CharactersStand
<1>1. IInv => CharactersStand
  BY CharacterFacts DEF IInv
<1> QED
  BY <1>1, Inductive, PTL

\* "When off, nothing is learned" (memory/service.py) but the one memory that
\* was being written.
THEOREM OffIsOff == Spec => []OffMeansOff
<1>1. IInv => OffMeansOff
  BY ChatFacts DEF IInv
<1> QED
  BY <1>1, Inductive, PTL

\* While the thread fits (load_thread), a turn has all that the turns before it
\* said, and the thread has each turn's question before its answer, for any
\* number of overlapping turns and any limit (memory/service.py).
THEOREM ThreadStays == Spec => []ThreadKept
<1>1. IInv => ThreadKept
  BY ChatFacts DEF IInv
<1> QED
  BY <1>1, Inductive, PTL

\* Only a commit adds a row, and only of its own turn.
LEMMA OnlyCommitAdds ==
    ASSUME ChatInv, [Next]_vars, NEW t \in Turns, turn[t].at = "commit",
           Len(memories') > Len(memories), turn'[t].at # "commit"
    PROVE  Commit(t)
<1>1. Len(memories) \in Nat /\ memories' # memories
  BY DEF ChatInv, ChatTyped
<1>2. ChatNext
  BY <1>1 DEF Next, vars, chatVars
<1>3. ~Forget
  <2> SUFFICES ASSUME Forget PROVE FALSE
    OBVIOUS
  <2>1. turn' = turn
    BY DEF Forget
  <2> QED
    BY <2>1
<1>4. PICK s \in Turns : Turn(s)
  BY <1>1, <1>2, <1>3 DEF ChatNext, SetPreferences
<1>5. Commit(s)
  BY <1>1, <1>4 DEF Turn, Begin, Recall, Rows, Load, Ask, Plan, Answer, Check, Update, Reply, Break
<1>6. s = t
  BY <1>5, CommittedTurns
<1> QED
  BY <1>5, <1>6

\* The rows keep their place, and none comes back.
LEMMA RowsStay ==
    ASSUME ChatInv, [Next]_vars, NEW i \in DOMAIN memories
    PROVE  i \in DOMAIN memories' /\ Becomes(memories[i], memories'[i])
<1>1. DOMAIN memories = 1 .. Len(memories) /\ Len(memories) \in Nat
  BY DEF ChatInv, ChatTyped
<1>2. CASE memories' = memories
  BY <1>2 DEF Becomes
<1>3. CASE \E t \in Turns : Commit(t)
  <2>1. PICK t \in Turns : Commit(t)
    BY <1>3
  <2>2. DOMAIN memories' = 1 .. Len(memories) + 1
    BY <2>1, CommittedRows
  <2> QED
    BY <1>1, <2>1, <2>2, CommittedRows
<1>4. CASE Forget
  <2>1. DOMAIN memories' = 1 .. Len(memories)
    BY <1>1, <1>4, ForgottenRows
  <2> QED
    BY <1>1, <1>4, <2>1, ForgottenRows
<1>5. CASE ChatNext
  <2>1. ASSUME NEW t \in Turns, Turn(t) PROVE Commit(t) \/ memories' = memories
    BY <2>1 DEF Turn, Begin, Recall, Rows, Load, Ask, Plan, Answer, Check, Update, Reply, Break
  <2> QED
    BY <1>2, <1>3, <1>4, <1>5, <2>1 DEF ChatNext, SetPreferences
<1> QED
  BY <1>2, <1>5 DEF Next, vars, chatVars

\* "One active value per kind" (memory/service.py): a turn that was not
\* overtaken leaves what it learned as the only active memory of its kind,
\* whatever earlier races had left; and a memory that was superseded or
\* forgotten is never in force again.
THEOREM Supersedes == Spec => MemorySupersedes
<1> DEFINE Current(t) == {i \in DOMAIN memories' : /\ memories'[i].kind = turn[t].kind
                                                   /\ memories'[i].state = "active"}
<1>1. ASSUME IInv, [Next]_vars, NEW t \in Turns, TurnAt(t, "commit"),
             Len(memories') > Len(memories), turn'[t].at # "commit"
      PROVE  Len(memories') \in Current(t) /\ (~turn[t].raced => Current(t) = {Len(memories')})
  <2>1. ChatInv /\ turn[t].at = "commit" /\ Commit(t)
    BY <1>1, OnlyCommitAdds DEF IInv, TurnAt
  <2>2. /\ memories' \in Seq(Memories) /\ Len(memories) \in Nat /\ Len(memories') = Len(memories) + 1
        /\ DOMAIN memories' = 1 .. Len(memories')
    BY <2>1, CommittedRows
  <2>3. Len(memories') \in Current(t)
    BY <2>1, <2>2, CommittedRows
  <2>4. ASSUME ~turn[t].raced, NEW i \in Current(t) PROVE i = Len(memories')
    <3>1. \A j \in 1 .. Len(memories) :
            memories[j].kind = turn[t].kind /\ memories[j].state = "active" => j \in turn[t].prior
      BY <2>1, <2>4, TurnFields DEF Kept, Prepared
    <3>2. i \notin 1 .. Len(memories)
      BY <2>1, <2>4, <3>1, CommittedRows
    <3> QED
      BY <2>2, <3>2
  <2> QED
    BY <2>3, <2>4
<1>2. IInv /\ [Next]_vars =>
        [/\ \A t \in Turns :
              TurnAt(t, "commit") /\ Len(memories') > Len(memories) /\ turn'[t].at # "commit" =>
                LET active == {i \in DOMAIN memories' : /\ memories'[i].kind = turn[t].kind
                                                         /\ memories'[i].state = "active"}
                IN  /\ Len(memories') \in active
                    /\ ~turn[t].raced => active = {Len(memories')}
         /\ \A i \in DOMAIN memories :
              i \in DOMAIN memories' /\ Becomes(memories[i], memories'[i])]_chatVars
  BY <1>1, RowsStay DEF IInv
<1> QED
  BY <1>2, Inductive, PTL DEF Spec, MemorySupersedes

-----------------------------------------------------------------------------
(* How long a turn may last *)

\* The steps a turn has left for one kind of memory, and before the first one.
Rest(step) ==
    IF step = "new" THEN 11 ELSE IF step = "recall" THEN 10 ELSE IF step = "rows" THEN 9
    ELSE IF step = "load" THEN 8 ELSE IF step = "ask" THEN 7 ELSE IF step = "plan" THEN 6
    ELSE IF step = "answer" THEN 5 ELSE IF step = "check" THEN 4
    ELSE IF step = "update" THEN 3 ELSE 2

Left(r) == IF r.at \in {"done", "lost"} THEN 0 ELSE IF r.at = "reply" THEN 1
           ELSE 3 * (KindCount - r.kind) + Rest(r.at)

LEMMA LeftBounds ==
    ASSUME NEW r \in TurnStates, Learning(r)
    PROVE  /\ Left(r) \in 0 .. 3 * KindCount + 8
           /\ r.at \notin {"done", "lost"} => Left(r) > 0
<1>1. /\ r.at \in Steps /\ KindCount \in Nat /\ KindCount > 0
      /\ r.at \notin {"reply", "done", "lost"} => r.kind \in 1 .. KindCount
  BY ChatAssumption DEF TurnStates, Learning, Kinds
<1>2. Rest(r.at) \in 2 .. 11
  BY DEF Rest
<1>3. CASE r.at \in {"reply", "done", "lost"}
  BY <1>1, <1>3 DEF Left
<1>4. CASE r.at \notin {"reply", "done", "lost"}
  <2>1. Left(r) = 3 * (KindCount - r.kind) + Rest(r.at)
    BY <1>4 DEF Left
  <2> QED
    BY <1>1, <1>2, <1>4, <2>1
<1> QED
  BY <1>3, <1>4

\* The next kind is nearer the reply than this one.
LEMMA NextKindNearer ==
    ASSUME ChatInv, NEW t \in Turns, turn[t].at \in {"check", "commit"}
    PROVE  Left(NextKind(turn[t])) < Left(turn[t])
<1> DEFINE r == NextKind(turn[t])
<1>1. turn[t].kind \in 1 .. KindCount /\ KindCount \in Nat
  BY TurnFields, ChatAssumption DEF Kept, Learning, Kinds
<1>2. r.at = (IF turn[t].kind = KindCount THEN "reply" ELSE "check") /\ r.kind = turn[t].kind + 1
  BY TurnFields DEF NextKind, TurnStates
<1> HIDE DEF r
<1>3. Rest("check") = 4 /\ Rest("commit") = 2
  BY DEF Rest
<1>4. Left(turn[t]) = 3 * (KindCount - turn[t].kind) + Rest(turn[t].at)
  BY DEF Left
<1>5. CASE turn[t].kind = KindCount
  <2>1. Left(r) = 1
    BY <1>2, <1>5 DEF Left
  <2> QED
    BY <1>1, <1>3, <1>4, <2>1 DEF r
<1>6. CASE turn[t].kind # KindCount
  <2>1. Left(r) = 3 * (KindCount - (turn[t].kind + 1)) + Rest("check")
    BY <1>2, <1>6 DEF Left
  <2> QED
    BY <1>1, <1>3, <1>4, <2>1 DEF r
<1> QED
  BY <1>5, <1>6

\* What a step of a turn does to it, and to the others.
LEMMA TurnNearer ==
    ASSUME ChatInv, NEW t \in Turns, Turn(t)
    PROVE  Left(turn'[t]) < Left(turn[t]) /\ \A s \in Turns : s # t => Left(turn'[s]) = Left(turn[s])
<1>1. turn \in [Turns -> TurnStates] /\ turn[t] \in TurnStates /\ KindCount \in Nat
      /\ Learning(turn[t]) /\ turn[t].kind \in Nat
  BY TurnFields, ChatAssumption DEF ChatInv, ChatTyped, Kept
<1>2. ASSUME NEW r, turn' = [turn EXCEPT ![t] = r], Left(r) < Left(turn[t])
      PROVE  Left(turn'[t]) < Left(turn[t]) /\ \A s \in Turns : s # t => Left(turn'[s]) = Left(turn[s])
  BY <1>1, <1>2
<1>3. ASSUME NEW r \in TurnStates, turn' = [turn EXCEPT ![t] = r], r.kind = turn[t].kind,
             \/ turn[t].at = "new" /\ r.at = "recall"
             \/ turn[t].at = "recall" /\ r.at \in {"rows", "load"}
             \/ turn[t].at = "rows" /\ r.at = "load"
             \/ turn[t].at = "load" /\ r.at = "ask"
             \/ turn[t].at = "ask" /\ r.at = "plan"
             \/ turn[t].at = "plan" /\ r.at = "answer"
             \/ turn[t].at = "answer" /\ r.at = "check"
             \/ turn[t].at = "check" /\ r.at = "update"
             \/ turn[t].at = "update" /\ r.at = "commit"
      PROVE  Left(turn'[t]) < Left(turn[t]) /\ \A s \in Turns : s # t => Left(turn'[s]) = Left(turn[s])
  <2>1. Rest(r.at) \in Nat /\ Rest(turn[t].at) \in Nat /\ Rest(r.at) < Rest(turn[t].at)
    BY <1>3 DEF Rest
  <2>2. /\ Left(r) = 3 * (KindCount - turn[t].kind) + Rest(r.at)
        /\ Left(turn[t]) = 3 * (KindCount - turn[t].kind) + Rest(turn[t].at)
    BY <1>3 DEF Left
  <2>3. Left(r) < Left(turn[t])
    BY <1>1, <2>1, <2>2
  <2> QED
    BY <1>2, <1>3, <2>3
<1>4. ASSUME NEW r \in TurnStates, turn' = [turn EXCEPT ![t] = r],
             r.at \in {"done", "lost"}, turn[t].at \notin {"done", "lost"}
      PROVE  Left(turn'[t]) < Left(turn[t]) /\ \A s \in Turns : s # t => Left(turn'[s]) = Left(turn[s])
  <2>1. Left(r) = 0 /\ Left(turn[t]) > 0
    BY <1>1, <1>4, LeftBounds DEF Left
  <2> QED
    BY <1>2, <1>4, <2>1
<1>5. CASE Begin(t)
  <2> DEFINE r == [turn[t] EXCEPT !.at = "recall", !.chosen = prefs.chosen,
                                  !.before = {s \in Turns : TurnAt(s, "done")}]
  <2>1. turn' = [turn EXCEPT ![t] = r] /\ turn[t].at = "new"
    BY <1>5 DEF Begin, TurnAt
  <2>2. r \in TurnStates /\ r.at = "recall" /\ r.kind = turn[t].kind
    BY <1>1 DEF ChatInv, ChatTyped, TurnStates, Steps
  <2> HIDE DEF r
  <2> QED
    BY <1>3, <2>1, <2>2
<1>6. CASE Recall(t) \/ Ask(t) \/ Plan(t) \/ Answer(t) \/ Break(t) \/ (Check(t) /\ prefs.on)
  <2> DEFINE r(step) == [turn[t] EXCEPT !.at = step]
  <2>1. \A step \in Steps : r(step) \in TurnStates /\ r(step).at = step /\ r(step).kind = turn[t].kind
    BY <1>1 DEF TurnStates
  <2> HIDE DEF r
  <2>2. PICK step \in Steps :
          /\ turn' = [turn EXCEPT ![t].at = step]
          /\ \/ turn[t].at = "recall" /\ step \in {"rows", "load"}
             \/ turn[t].at = "ask" /\ step = "plan"
             \/ turn[t].at = "plan" /\ step = "answer"
             \/ turn[t].at = "answer" /\ step = "check"
             \/ turn[t].at = "check" /\ step = "update"
             \/ turn[t].at \notin {"done", "lost"} /\ step = "lost"
    BY <1>6 DEF Recall, Ask, Plan, Answer, Break, Check, MayLearn, Proceed, TurnAt, Steps
  <2>3. turn' = [turn EXCEPT ![t] = r(step)] /\ r(step) \in TurnStates /\ r(step).at = step
        /\ r(step).kind = turn[t].kind
    BY <2>1, <2>2 DEF r
  <2>4. CASE step \in {"done", "lost"}
    BY <1>4, <2>2, <2>3, <2>4
  <2>5. CASE step \notin {"done", "lost"}
    BY <1>3, <2>2, <2>3, <2>5
  <2> QED
    BY <2>4, <2>5
<1>7. CASE Check(t) /\ ~prefs.on
  <2>1. turn' = [turn EXCEPT ![t] = NextKind(turn[t])] /\ turn[t].at = "check"
    BY <1>7 DEF Check, MayLearn, TurnAt
  <2> QED
    BY <1>2, <2>1, NextKindNearer
<1>8. CASE Rows(t)
  <2> DEFINE r == [turn[t] EXCEPT !.at = "load", !.learned = Applied(t)]
  <2>1. turn' = [turn EXCEPT ![t] = r] /\ turn[t].at = "rows"
    BY <1>8 DEF Rows, TurnAt
  <2>2. Applied(t) \subseteq Nat
    BY DEF Applied, ChatInv, ChatTyped
  <2>3. r \in TurnStates /\ r.at = "load" /\ r.kind = turn[t].kind
    BY <1>1, <2>2 DEF TurnStates, Steps
  <2> HIDE DEF r
  <2> QED
    BY <1>3, <2>1, <2>3
<1>9. CASE Load(t) \/ Reply(t)
  <2> DEFINE r(step) == [turn[t] EXCEPT !.at = step, !.history = Loaded]
  <2>1. \A step \in Steps : r(step) \in TurnStates /\ r(step).at = step /\ r(step).kind = turn[t].kind
    <3>1. Loaded \in Seq(Messages)
      BY LoadShows
    <3> QED
      BY <1>1, <3>1 DEF TurnStates
  <2> HIDE DEF r
  <2>2. PICK step \in Steps : /\ turn' = [turn EXCEPT ![t].at = step, ![t].history = Loaded]
                              /\ \/ turn[t].at = "load" /\ step = "ask"
                                 \/ turn[t].at = "reply" /\ step = "done"
    BY <1>9 DEF Load, Reply, TurnAt, Steps
  <2>3. turn' = [turn EXCEPT ![t] = r(step)] /\ r(step) \in TurnStates /\ r(step).at = step
        /\ r(step).kind = turn[t].kind
    BY <2>1, <2>2 DEF r
  <2>4. CASE step \in {"done", "lost"}
    BY <1>4, <2>2, <2>3, <2>4
  <2>5. CASE step \notin {"done", "lost"}
    BY <1>3, <2>2, <2>3, <2>5
  <2> QED
    BY <2>4, <2>5
<1>10. CASE Update(t)
  <2> DEFINE r == [turn[t] EXCEPT !.at = "commit", !.prior = Prior(t)]
  <2>1. turn' = [turn EXCEPT ![t] = r] /\ turn[t].at = "update"
    BY <1>10 DEF Update, TurnAt
  <2>2. Prior(t) \subseteq Nat
    BY DEF Prior, Active, ChatInv, ChatTyped
  <2>3. r \in TurnStates /\ r.at = "commit" /\ r.kind = turn[t].kind
    BY <1>1, <2>2 DEF TurnStates, Steps
  <2> HIDE DEF r
  <2> QED
    BY <1>3, <2>1, <2>3
<1>11. CASE Commit(t)
  <2> DEFINE q == NextKind(turn[t])
  <2>1. turn[t].at = "commit" /\ q \in TurnStates
    BY <1>11, NextKindFields DEF Commit, TurnAt
  <2>2. turn'[t] = [q EXCEPT !.late = IF prefs.on THEN @ ELSE @ + 1]
    BY <1>11 DEF Commit
  <2>3. turn'[t].at = q.at /\ turn'[t].kind = q.kind
    BY <2>1, <2>2 DEF TurnStates
  <2>4. Left(turn'[t]) = Left(q)
    BY <2>3 DEF Left
  <2>5. \A s \in Turns : s # t => turn'[s].at = turn[s].at /\ turn'[s].kind = turn[s].kind
    BY <1>11, CommittedTurns
  <2> QED
    BY <2>1, <2>4, <2>5, NextKindNearer DEF Left
<1> QED
  BY <1>5, <1>6, <1>7, <1>8, <1>9, <1>10, <1>11 DEF Turn

\* A turn has at most eleven steps and three for each kind of memory but the
\* first, and neither the user nor a turn it overlaps with gives it one more.
RunDown ==
    [][\A t \in Turns :
         /\ Left(turn[t]) \in 0 .. 3 * KindCount + 8
         /\ Turn(t) => Left(turn'[t]) < Left(turn[t])
         /\ Left(turn'[t]) <= Left(turn[t])]_vars

\* POST /studio/chat comes to an end whatever overlaps with it (studio.py), and
\* extract_from_plan goes once through the kinds of memory (memory/service.py).
THEOREM TurnsRunDown == Spec => RunDown
<1> DEFINE Falls == \A t \in Turns :
                       /\ Left(turn[t]) \in 0 .. 3 * KindCount + 8
                       /\ Turn(t) => Left(turn'[t]) < Left(turn[t])
                       /\ Left(turn'[t]) <= Left(turn[t])
<1>1. ASSUME IInv, [Next]_vars, NEW t \in Turns
      PROVE  /\ Left(turn[t]) \in 0 .. 3 * KindCount + 8
             /\ Turn(t) => Left(turn'[t]) < Left(turn[t])
             /\ Left(turn'[t]) <= Left(turn[t])
  <2>1. ChatInv /\ KindCount \in Nat
    BY <1>1, ChatAssumption DEF IInv
  <2>2. Left(turn[t]) \in 0 .. 3 * KindCount + 8
    BY <2>1, TurnFields, LeftBounds DEF Kept
  <2>3. Turn(t) => Left(turn'[t]) < Left(turn[t])
    BY <2>1, TurnNearer
  <2>4. CASE \E s \in Turns : Turn(s)
    <3>1. PICK s \in Turns : Turn(s)
      BY <2>4
    <3>2. IInv' /\ ChatInv'
      BY <1>1, Step DEF IInv
    <3>3. turn'[t] \in TurnStates /\ Learning(turn'[t])
      BY <3>2 DEF ChatInv, ChatTyped, Kept
    <3>4. Left(turn'[t]) \in Int
      BY <2>1, <3>3, LeftBounds
    <3>5. Left(turn'[t]) < Left(turn[t]) \/ Left(turn'[t]) = Left(turn[t])
      BY <2>1, <3>1, TurnNearer
    <3> QED
      BY <2>1, <2>2, <2>3, <3>4, <3>5
  <2>5. CASE SetPreferences
    <3>1. turn'[t] = [turn[t] EXCEPT !.late = IF prefs.on THEN 0 ELSE @]
      BY <2>5 DEF SetPreferences
    <3>2. turn'[t].at = turn[t].at /\ turn'[t].kind = turn[t].kind
      BY <2>1, <3>1, TurnFields DEF TurnStates
    <3>3. Left(turn'[t]) = Left(turn[t])
      BY <3>2 DEF Left
    <3> QED
      BY <2>2, <2>3, <3>3
  <2>6. CASE turn' = turn
    BY <2>2, <2>3, <2>6
  <2> QED
    BY <1>1, <2>2, <2>3, <2>4, <2>5, <2>6 DEF Next, ChatNext, Forget, vars, chatVars
<1>2. IInv /\ [Next]_vars => Falls
  BY <1>1
<1> HIDE DEF Falls
<1>3. [][Falls]_vars => RunDown
  BY PTL DEF Falls, RunDown
<1> QED
  BY <1>2, <1>3, Inductive, PTL DEF Spec
=============================================================================
