----------------------------- MODULE MobilePage -----------------------------
(***************************************************************************)
(* The page the phone opens (web/app.js, web/index.html): the camera, the  *)
(* capture, the crop, the preview and the upload.  A step is one task of   *)
(* the page's event loop: a tap, or the continuation of one of the promises *)
(* and callbacks that earlier taps left pending, which settle in any order *)
(* and act on the page as it is by then.                                   *)
(*                                                                         *)
(* A photo is its size in bytes: no two photos of the gallery are equally  *)
(* large.                                                                  *)
(***************************************************************************)
EXTENDS SizeLimits

CONSTANTS
    Gallery,        \* the files the picker offers
    Unsupported,    \* those that are no JPEG, PNG or WebP
    Rendered,       \* what a capture or a crop may weigh
    Framings,       \* what the multipart form may add to a payload
    Streams,        \* bound on the camera streams that run or open at once
    MaxPending,     \* bound on captures, and on crops, that are pending
    None            \* null

Photos == Gallery \cup Rendered

ASSUME PageAssumption ==
    /\ Photos \cup Framings \subseteq Nat /\ Unsupported \subseteq Gallery
    /\ MaxPending \in Nat
    /\ None \notin Photos \cup Streams

VARIABLES
    link,           \* "ok", or "nokey" without #k=, or "invalid" without id or token
    selectedFile,   \* the photo in the preview
    cropSource,     \* the photo in the cropper; cropper is null with it
    shown,          \* the panels that are not hidden
    picker,         \* the phone's file picker is open, over the page
    fileValue,      \* what the file input holds
    stream,         \* the page's variable
    live,           \* the streams whose tracks run: the camera is on
    opening,        \* the streams getUserMedia was asked for
    overlapped,     \* the camera was opened while it was on or opening
    taking,         \* takePhoto calls that are pending
    drawing,        \* toBlob calls of captures that are pending
    rendering,      \* toBlob calls of crops that are pending
    sendDisabled,   \* sendBtn.disabled
    sending,        \* where send is; "threw" ended in an exception
    payload,        \* the photo that was encrypted, while it is sent
    framing,        \* what the form adds to it
    status,         \* the status line
    done            \* an upload was answered ok

cameraVars == <<stream, live, opening, overlapped>>
captureVars == <<taking, drawing>>
cropVars == <<cropSource, rendering>>
inputVars == <<picker, fileValue>>
sendVars == <<sendDisabled, sending, payload, framing, done>>
vars == <<link, selectedFile, shown, cameraVars, captureVars, cropVars,
          inputVars, sendVars, status>>

Panels == {"actions", "camera", "crop", "preview"}

MobileTypeOK ==
    /\ link \in {"ok", "nokey", "invalid"}
    /\ selectedFile \in Photos \cup {None} /\ cropSource \in Photos \cup {None}
    /\ shown \subseteq Panels
    /\ picker \in BOOLEAN /\ fileValue \in Gallery \cup {None}
    /\ stream \in Streams \cup {None}
    /\ live \subseteq Streams /\ opening \subseteq Streams
    /\ overlapped \in BOOLEAN
    /\ taking \in 0..MaxPending /\ drawing \in 0..MaxPending
    /\ rendering \in 0..MaxPending
    /\ sendDisabled \in BOOLEAN
    /\ sending \in {"idle", "encrypting", "uploading", "threw"}
    /\ payload \in Photos \cup {None} /\ framing \in Framings \cup {None}
    /\ status \in {"none", "busy", "success", "error", "too_large"}
    /\ done \in BOOLEAN

(* The end of the script: a link without id or token leaves no buttons.    *)
FirstScreen ==
    IF link = "invalid" THEN shown = {} /\ status = "error"
                        ELSE shown = {"actions"} /\ status = "none"

(* A key that is malformed or not 32 bytes long counts as none.            *)
Init ==
    /\ link \in {"ok", "nokey", "invalid"}
    /\ FirstScreen
    /\ selectedFile = None /\ cropSource = None
    /\ picker = FALSE /\ fileValue = None
    /\ stream = None /\ live = {} /\ opening = {} /\ overlapped = FALSE
    /\ taking = 0 /\ drawing = 0 /\ rendering = 0
    /\ sendDisabled = FALSE /\ sending = "idle"
    /\ payload = None /\ framing = None
    /\ done = FALSE

(* Can be tapped: the camera panel covers the page, the crop panel both,   *)
(* and the picker everything.                                              *)
CanTap(panel) ==
    /\ panel \in shown /\ ~picker
    /\ "crop" \in shown => panel = "crop"
    /\ "camera" \in shown => panel \in {"camera", "crop"}
-----------------------------------------------------------------------------
(* Faulty variants of definitions below: one plausible slip each.          *)

(* The page hides the video and leaves the camera running.                 *)
HideCamera ==
    /\ stream' = None
    /\ UNCHANGED live

(* The cropper is closed and the buttons stay hidden.                      *)
PanelsAfterCloseOnly == shown \ {"crop"}

(* The panel is closed and cropSource keeps its photo.                     *)
KeepSource == UNCHANGED cropSource

(* The button comes back only with an answer to the upload.                *)
ReportOnly == UNCHANGED sendDisabled

(* A refused upload is not reported.                                       *)
FailSilently ==
    /\ sending = "uploading"
    /\ sendDisabled' = FALSE
    /\ sending' = "idle" /\ payload' = None /\ framing' = None
    /\ UNCHANGED <<link, selectedFile, shown, cameraVars, captureVars,
                   cropVars, inputVars, status, done>>

(* validateFile is not asked.                                              *)
AnyFile(photo) == photo # None

(* The canvas is drawn and takePhoto is tried once more.                   *)
DrawAndRetry ==
    /\ taking > 0
    /\ drawing' = drawing + 1
    /\ UNCHANGED <<link, selectedFile, shown, cameraVars, taking, cropVars,
                   inputVars, sendVars, status>>
-----------------------------------------------------------------------------
(* What the handlers call.                                                 *)

StopTracks ==
    /\ live' = live \ {stream}
    /\ stream' = None

PanelsAfterCamera(panels) == (panels \ {"camera"}) \cup {"actions"}

StopCamera ==
    /\ StopTracks
    /\ UNCHANGED <<opening, overlapped>>

StartCrop(photo, panels) ==
    /\ cropSource' = photo
    /\ shown' = (panels \ {"actions"}) \cup {"crop"}

DestroyCropper == cropSource' = None

Select(photo) == selectedFile' = photo

(* showPreview, after destroyCropper.                                      *)
ShowPreview(photo) ==
    /\ DestroyCropper
    /\ Select(photo)
    /\ shown' = (shown \ {"actions", "crop"}) \cup {"preview"}
    /\ status' = "none"

Valid(photo) == photo \notin Unsupported /\ photo <= PageLimit
-----------------------------------------------------------------------------
(* "Tirar foto": openCamera up to its await, and the two ways it goes on.  *)

CameraUnavailable ==
    /\ CanTap("actions")
    /\ status' = "error"
    /\ UNCHANGED <<link, selectedFile, shown, cameraVars, captureVars,
                   cropVars, inputVars, sendVars>>

OpenCamera(s) ==
    /\ CanTap("actions") /\ s \notin live \cup opening
    /\ opening' = opening \cup {s}
    /\ overlapped' = (overlapped \/ live \cup opening # {})
    /\ status' = "none"
    /\ UNCHANGED <<link, selectedFile, shown, stream, live, captureVars,
                   cropVars, inputVars, sendVars>>

CameraGranted(s) ==
    /\ s \in opening
    /\ opening' = opening \ {s}
    /\ stream' = s /\ live' = live \cup {s}
    /\ shown' = (shown \ {"actions"}) \cup {"camera"}
    /\ UNCHANGED <<link, selectedFile, overlapped, captureVars, cropVars,
                   inputVars, sendVars, status>>

CameraDenied(s) ==
    /\ s \in opening
    /\ opening' = opening \ {s}
    /\ stream' = None
    /\ status' = "error"
    /\ UNCHANGED <<link, selectedFile, shown, live, overlapped, captureVars,
                   cropVars, inputVars, sendVars>>

CancelCamera ==
    /\ CanTap("camera")
    /\ StopCamera
    /\ shown' = PanelsAfterCamera(shown)
    /\ UNCHANGED <<link, selectedFile, captureVars, cropVars, inputVars,
                   sendVars, status>>
-----------------------------------------------------------------------------
(* "Capturar": takePhoto where the browser has it and there is a stream,   *)
(* or else a canvas, as when takePhoto fails.                              *)

Capture ==
    /\ CanTap("camera") /\ taking + drawing < MaxPending
    /\ \/ stream # None /\ taking' = taking + 1 /\ UNCHANGED drawing
       \/ drawing' = drawing + 1 /\ UNCHANGED taking
    /\ UNCHANGED <<link, selectedFile, shown, cameraVars, cropVars, inputVars,
                   sendVars, status>>

TakePhotoFails ==
    /\ taking > 0
    /\ taking' = taking - 1 /\ drawing' = drawing + 1
    /\ UNCHANGED <<link, selectedFile, shown, cameraVars, cropVars, inputVars,
                   sendVars, status>>

(* The photo goes to the cropper, whatever the user has turned to since.   *)
CropCapture(photo) ==
    /\ StopCamera
    /\ StartCrop(photo, PanelsAfterCamera(shown))
    /\ UNCHANGED <<link, selectedFile, rendering, inputVars, sendVars, status>>

PhotoTaken(photo) ==
    /\ taking > 0
    /\ taking' = taking - 1 /\ UNCHANGED drawing
    /\ CropCapture(photo)

PhotoDrawn(photo) ==
    /\ drawing > 0
    /\ drawing' = drawing - 1 /\ UNCHANGED taking
    /\ CropCapture(photo)

DrawFails ==
    /\ drawing > 0
    /\ drawing' = drawing - 1
    /\ status' = "error"
    /\ UNCHANGED <<link, selectedFile, shown, cameraVars, taking, cropVars,
                   inputVars, sendVars>>
-----------------------------------------------------------------------------
(* The crop panel.                                                         *)

ApplyCrop ==
    /\ CanTap("crop") /\ rendering < MaxPending
    /\ rendering' = rendering + 1
    /\ UNCHANGED <<link, selectedFile, shown, cameraVars, captureVars,
                   cropSource, inputVars, sendVars, status>>

(* toBlob's callback: it closes whatever crop is open by then.  A canvas   *)
(* that could not be encoded leaves a file that is no image.               *)
CropRendered(photo) ==
    /\ rendering > 0
    /\ rendering' = rendering - 1
    /\ ShowPreview(photo)
    /\ UNCHANGED <<link, cameraVars, captureVars, inputVars, sendVars>>

(* "Usar sem cortar", or a cropper that is not ready.                      *)
SkipCrop ==
    /\ CanTap("crop")
    /\ ShowPreview(cropSource)
    /\ UNCHANGED <<link, cameraVars, captureVars, rendering, inputVars,
                   sendVars>>

PanelsAfterCrop == (shown \ {"crop"}) \cup {"actions"}

CancelCrop ==
    /\ CanTap("crop")
    /\ DestroyCropper
    /\ shown' = PanelsAfterCrop
    /\ UNCHANGED <<link, selectedFile, cameraVars, captureVars, rendering,
                   inputVars, sendVars, status>>
-----------------------------------------------------------------------------
(* "Escolher da galeria" and "Escolher outra".                             *)

OpenPicker ==
    /\ CanTap("actions")
    /\ picker' = TRUE
    /\ UNCHANGED <<link, selectedFile, shown, cameraVars, captureVars,
                   cropVars, fileValue, sendVars, status>>

(* Browsers differ in whether the input then keeps what it held.           *)
ClosePicker ==
    /\ picker
    /\ picker' = FALSE
    /\ fileValue' \in {fileValue, None}
    /\ UNCHANGED <<link, selectedFile, shown, cameraVars, captureVars,
                   cropVars, sendVars, status>>

(* The file the input holds already is no change.                          *)
ChooseAgain ==
    /\ picker /\ fileValue # None
    /\ picker' = FALSE
    /\ UNCHANGED <<link, selectedFile, shown, cameraVars, captureVars,
                   cropVars, fileValue, sendVars, status>>

Choose(photo) ==
    /\ picker /\ photo # fileValue
    /\ picker' = FALSE /\ fileValue' = photo
    /\ IF Valid(photo) THEN StartCrop(photo, shown) /\ UNCHANGED status
                       ELSE status' = "error" /\ UNCHANGED <<cropSource, shown>>
    /\ UNCHANGED <<link, selectedFile, cameraVars, captureVars, rendering,
                   sendVars>>

Reset ==
    /\ CanTap("preview")
    /\ selectedFile' = None
    /\ shown' = (shown \ {"preview"}) \cup {"actions"}
    /\ fileValue' = None
    /\ status' = "none"
    /\ UNCHANGED <<link, cameraVars, captureVars, cropVars, picker, sendVars>>
-----------------------------------------------------------------------------
(* "Enviar": send, with its two awaits.                                    *)

CanSend == Valid(selectedFile) /\ link = "ok"

SendRefused ==
    /\ CanTap("preview") /\ ~sendDisabled
    /\ ~CanSend
    /\ status' = "error"
    /\ UNCHANGED <<link, selectedFile, shown, cameraVars, captureVars,
                   cropVars, inputVars, sendVars>>

Send ==
    /\ CanTap("preview") /\ ~sendDisabled
    /\ CanSend
    /\ sendDisabled' = TRUE
    /\ sending' = "encrypting" /\ payload' = selectedFile
    /\ status' = "busy"
    /\ UNCHANGED <<link, selectedFile, shown, cameraVars, captureVars,
                   cropVars, inputVars, framing, done>>

EnableButton == sendDisabled' = FALSE

EncryptFails ==
    /\ sending = "encrypting"
    /\ EnableButton
    /\ sending' = "idle" /\ payload' = None
    /\ status' = "error"
    /\ UNCHANGED <<link, selectedFile, shown, cameraVars, captureVars,
                   cropVars, inputVars, framing, done>>

(* The form takes its name and type from the photo that is selected now.   *)
Encrypted(bytes) ==
    /\ sending = "encrypting" /\ selectedFile # None
    /\ sending' = "uploading" /\ framing' = bytes
    /\ UNCHANGED <<link, selectedFile, shown, cameraVars, captureVars,
                   cropVars, inputVars, sendDisabled, payload, status, done>>

(* None is selected any more: reading its name throws, outside every try.  *)
EncryptedForNothing ==
    /\ sending = "encrypting" /\ selectedFile = None
    /\ sending' = "threw" /\ payload' = None
    /\ UNCHANGED <<link, selectedFile, shown, cameraVars, captureVars,
                   cropVars, inputVars, sendDisabled, framing, status, done>>

(* The end of send after the fetch: its finally.                           *)
SendEnds ==
    /\ sending = "uploading"
    /\ sendDisabled' = FALSE
    /\ sending' = "idle" /\ payload' = None /\ framing' = None
    /\ UNCHANGED <<link, cameraVars, captureVars, cropVars, inputVars>>

UploadOk ==
    /\ SendEnds /\ ~TooLarge(Sealed(payload), framing)
    /\ selectedFile' = None
    /\ shown' = shown \ {"preview", "actions"}
    /\ status' = "success"
    /\ done' = TRUE

UploadTooLarge ==
    /\ SendEnds /\ TooLarge(Sealed(payload), framing)
    /\ status' = "too_large"
    /\ UNCHANGED <<selectedFile, shown, done>>

(* Any other refusal, or no connection.                                    *)
UploadFails ==
    /\ SendEnds
    /\ status' = "error"
    /\ UNCHANGED <<selectedFile, shown, done>>
-----------------------------------------------------------------------------
EncryptionSettles ==
    EncryptFails \/ EncryptedForNothing \/ \E bytes \in Framings : Encrypted(bytes)
UploadSettles == UploadOk \/ UploadTooLarge \/ UploadFails

Next ==
    \/ CameraUnavailable
    \/ \E s \in Streams : OpenCamera(s) \/ CameraGranted(s) \/ CameraDenied(s)
    \/ CancelCamera \/ Capture \/ TakePhotoFails \/ DrawFails
    \/ \E photo \in Rendered :
          PhotoTaken(photo) \/ PhotoDrawn(photo) \/ CropRendered(photo)
    \/ ApplyCrop \/ SkipCrop \/ CancelCrop
    \/ OpenPicker \/ ClosePicker \/ ChooseAgain
    \/ \E photo \in Gallery : Choose(photo)
    \/ Reset \/ SendRefused \/ Send
    \/ EncryptionSettles \/ UploadSettles

Spec == Init /\ [][Next]_vars

(* The browser finishes reading the file and settles the fetch one way or  *)
(* the other; nothing is assumed of the user or of the camera.             *)
FairSpec == Spec /\ WF_vars(EncryptionSettles) /\ WF_vars(UploadSettles)
-----------------------------------------------------------------------------
(* Properties.                                                             *)

(* The preview is shown exactly while a photo is selected, and the crop    *)
(* panel while one is being cropped: late captures, crops and answers      *)
(* never leave a panel without its photo, where "Enviar" or "Usar sem      *)
(* cortar" would do nothing.                                               *)
PanelsShowState ==
    /\ "preview" \in shown <=> selectedFile # None
    /\ "crop" \in shown <=> cropSource # None

(* There is always something to tap until a photo was sent: no order of    *)
(* cancelled captures, crops, resets and answers hides every panel.        *)
NeverAtADeadEnd == shown # {} \/ done \/ link = "invalid"

(* The camera runs exactly while its panel is shown, however captures and  *)
(* gallery photos overtake it, as long as it is not opened a second time   *)
(* before it is closed; after that an earlier stream may be forgotten.     *)
CameraOnlyWhileShown == overlapped \/ ("camera" \in shown <=> live # {})

(* "Enviar" is disabled exactly while a send is under way or was broken by *)
(* an exception, so that two uploads never run at once and every other     *)
(* failure allows a retry.                                                 *)
ButtonGuardsSend == sendDisabled <=> sending # "idle"

(* A photo the page lets through is refused as too large only when the     *)
(* form around it is larger than what the server's limits leave for it.    *)
FittingPhotoAdmitted ==
    [][UploadTooLarge => framing > FramingSlack]_vars

(* "Criptografando e enviando..." ends, by an answer, an error or the user. *)
BusyEnds == status = "busy" ~> status # "busy"

(* index.html:17, "Escolher outra": another photo can be chosen, and sent, *)
(* whenever one is in the preview; "Enviar" comes back.                    *)
SendButtonComesBack == sendDisabled ~> ~sendDisabled
-----------------------------------------------------------------------------
(* The inductive invariant.                                                *)

(* While the camera was never opened twice at once, there is one stream,   *)
(* opening or running, and the page's variable is the one that runs.       *)
OneStream ==
    ~overlapped =>
        /\ live \subseteq {stream}
        /\ opening # {} => live = {}
        /\ \A s, t \in opening : s = t

(* What is under way: captures within the bound, and in send a photo that  *)
(* passed the page's check.                                                *)
PendingInv ==
    /\ taking + drawing <= MaxPending
    /\ sending \in {"encrypting", "uploading"} =>
           payload \in Photos /\ payload <= PageLimit
    /\ sending = "uploading" => framing \in Framings

(* The panels, the camera and send as the handlers find them: between any  *)
(* two tasks of the page all of it holds together, and it is what each     *)
(* handler needs of the others.                                            *)
PageInv ==
    /\ MobileTypeOK
    /\ PanelsShowState
    /\ NeverAtADeadEnd
    /\ CameraOnlyWhileShown /\ OneStream
    /\ ButtonGuardsSend
    /\ PendingInv
============================================================================
