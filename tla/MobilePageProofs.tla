-------------------------- MODULE MobilePageProofs --------------------------
(***************************************************************************)
(* Proofs about the phone's page, for any gallery, any sizes and any       *)
(* number of streams and of captures and crops under way.                  *)
(***************************************************************************)
EXTENDS MobilePage, SizeLimitsProofs

(* The page as it is loaded, from a link of any kind.                      *)
LEMMA PageInit == Init => PageInv
<1>. SUFFICES ASSUME Init PROVE PageInv
  OBVIOUS
<1>. USE PageAssumption DEF Init, FirstScreen
<1>1. MobileTypeOK
  <2>1. shown \subseteq Panels /\ status \in {"none", "error"}
    BY DEF Panels
  <2>2. picker \in BOOLEAN /\ overlapped \in BOOLEAN
    BY Zenon
  <2>3. sendDisabled \in BOOLEAN /\ done \in BOOLEAN
    BY Zenon
  <2>. QED BY <2>1, <2>2, <2>3 DEF MobileTypeOK
<1>2. PanelsShowState /\ NeverAtADeadEnd
  BY DEF PanelsShowState, NeverAtADeadEnd
<1>3. CameraOnlyWhileShown /\ OneStream
  BY DEF CameraOnlyWhileShown, OneStream
<1>4. ButtonGuardsSend /\ PendingInv
  BY DEF ButtonGuardsSend, PendingInv
<1>. QED BY <1>1, <1>2, <1>3, <1>4 DEF PageInv

(* A capture that reaches the cropper closes the camera it came from, or a *)
(* later one.                                                              *)
LEMMA CropCaptureStep ==
  ASSUME PageInv, NEW photo \in Rendered, CropCapture(photo),
         taking' \in 0..MaxPending, drawing' \in 0..MaxPending,
         taking' + drawing' <= MaxPending
  PROVE  PageInv'
<1>. USE PageAssumption
     DEF CropCapture, StopCamera, StopTracks, StartCrop, PanelsAfterCamera
<1>1. MobileTypeOK'
  BY DEF PageInv, MobileTypeOK, Panels, Photos, inputVars, sendVars
<1>2. PanelsShowState' /\ NeverAtADeadEnd'
  BY DEF PageInv, MobileTypeOK, PanelsShowState, NeverAtADeadEnd, Photos, sendVars
<1>3. CameraOnlyWhileShown' /\ OneStream'
  BY DEF PageInv, MobileTypeOK, CameraOnlyWhileShown, OneStream
<1>4. ButtonGuardsSend' /\ PendingInv'
  BY DEF PageInv, ButtonGuardsSend, PendingInv, sendVars
<1>. QED BY <1>1, <1>2, <1>3, <1>4 DEF PageInv

LEMMA PageStep ==
  ASSUME PageInv, [Next]_vars
  PROVE  PageInv'
<1>. USE PageAssumption
     DEF PageInv, MobileTypeOK, Panels, Photos, PanelsShowState, NeverAtADeadEnd,
         CameraOnlyWhileShown, OneStream, ButtonGuardsSend, PendingInv,
         cameraVars, captureVars, cropVars, inputVars, sendVars, CanTap
<1>1. CASE UNCHANGED vars
  BY <1>1 DEF vars
<1>2. CASE CameraUnavailable
  BY <1>2 DEF CameraUnavailable
<1>3. ASSUME NEW s \in Streams, OpenCamera(s) PROVE PageInv'
  <2>. USE <1>3 DEF OpenCamera
  <2>1. MobileTypeOK'
    BY ZenonT(60)
  <2>2. PanelsShowState' /\ NeverAtADeadEnd'
    OBVIOUS
  <2>3. CameraOnlyWhileShown' /\ OneStream'
    OBVIOUS
  <2>4. ButtonGuardsSend' /\ PendingInv'
    OBVIOUS
  <2>. QED BY <2>1, <2>2, <2>3, <2>4
<1>4. ASSUME NEW s \in Streams, CameraGranted(s) PROVE PageInv'
  BY <1>4 DEF CameraGranted
<1>5. ASSUME NEW s \in Streams, CameraDenied(s) PROVE PageInv'
  BY <1>5 DEF CameraDenied
<1>6. CASE CancelCamera
  BY <1>6 DEF CancelCamera, StopCamera, StopTracks, PanelsAfterCamera
<1>7. CASE Capture
  BY <1>7 DEF Capture
<1>8. CASE TakePhotoFails
  BY <1>8 DEF TakePhotoFails
<1>9. CASE DrawFails
  BY <1>9 DEF DrawFails
<1>10. ASSUME NEW photo \in Rendered, PhotoTaken(photo) PROVE PageInv'
  BY <1>10, CropCaptureStep DEF PhotoTaken
<1>11. ASSUME NEW photo \in Rendered, PhotoDrawn(photo) PROVE PageInv'
  BY <1>11, CropCaptureStep DEF PhotoDrawn
<1>12. ASSUME NEW photo \in Rendered, CropRendered(photo) PROVE PageInv'
  <2>. USE <1>12 DEF CropRendered, ShowPreview, DestroyCropper, Select
  <2>1. MobileTypeOK'
    OBVIOUS
  <2>2. PanelsShowState' /\ NeverAtADeadEnd'
    OBVIOUS
  <2>3. CameraOnlyWhileShown' /\ OneStream'
    OBVIOUS
  <2>4. ButtonGuardsSend' /\ PendingInv'
    OBVIOUS
  <2>. QED BY <2>1, <2>2, <2>3, <2>4
<1>13. CASE ApplyCrop
  BY <1>13 DEF ApplyCrop
<1>14. CASE SkipCrop
  <2>. USE <1>14 DEF SkipCrop, ShowPreview, DestroyCropper, Select
  <2>1. MobileTypeOK'
    BY ZenonT(60)
  <2>2. PanelsShowState' /\ NeverAtADeadEnd'
    OBVIOUS
  <2>3. CameraOnlyWhileShown' /\ OneStream'
    OBVIOUS
  <2>4. ButtonGuardsSend' /\ PendingInv'
    OBVIOUS
  <2>. QED BY <2>1, <2>2, <2>3, <2>4
<1>15. CASE CancelCrop
  <2>. USE <1>15 DEF CancelCrop, DestroyCropper, PanelsAfterCrop
  <2>1. MobileTypeOK'
    OBVIOUS
  <2>2. PanelsShowState' /\ NeverAtADeadEnd'
    OBVIOUS
  <2>3. CameraOnlyWhileShown' /\ OneStream'
    OBVIOUS
  <2>4. ButtonGuardsSend' /\ PendingInv'
    OBVIOUS
  <2>. QED BY <2>1, <2>2, <2>3, <2>4
<1>16. CASE OpenPicker
  BY <1>16 DEF OpenPicker
<1>17. CASE ClosePicker
  <2>. USE <1>17 DEF ClosePicker
  <2>1. MobileTypeOK'
    <3>1. picker' = FALSE
      OBVIOUS
    <3>2. picker' \in BOOLEAN
      BY ONLY <3>1, Zenon
    <3>. QED BY <3>2
  <2>2. PanelsShowState' /\ NeverAtADeadEnd'
    OBVIOUS
  <2>3. CameraOnlyWhileShown' /\ OneStream'
    OBVIOUS
  <2>4. ButtonGuardsSend' /\ PendingInv'
    OBVIOUS
  <2>. QED BY <2>1, <2>2, <2>3, <2>4
<1>18. CASE ChooseAgain
  <2>. USE <1>18 DEF ChooseAgain
  <2>1. MobileTypeOK'
    <3>1. picker' = FALSE
      OBVIOUS
    <3>2. picker' \in BOOLEAN
      BY ONLY <3>1, Zenon
    <3>. QED BY <3>2
  <2>2. PanelsShowState' /\ NeverAtADeadEnd'
    OBVIOUS
  <2>3. CameraOnlyWhileShown' /\ OneStream'
    OBVIOUS
  <2>4. ButtonGuardsSend' /\ PendingInv'
    OBVIOUS
  <2>. QED BY <2>1, <2>2, <2>3, <2>4
<1>19. ASSUME NEW photo \in Gallery, Choose(photo) PROVE PageInv'
  <2>. USE <1>19 DEF Choose, StartCrop
  <2>1. MobileTypeOK'
    <3>1. picker' = FALSE
      OBVIOUS
    <3>2. picker' \in BOOLEAN
      BY ONLY <3>1, Zenon
    <3>3. /\ cropSource' \in Photos \cup {None} /\ shown' \subseteq Panels
          /\ status' \in {"none", "busy", "success", "error", "too_large"}
      BY ONLY <1>19, PageInv DEF Choose, StartCrop, PageInv, MobileTypeOK, Photos, Panels
    <3>. QED BY <3>2, <3>3
  <2>2. PanelsShowState' /\ NeverAtADeadEnd'
    OBVIOUS
  <2>3. CameraOnlyWhileShown' /\ OneStream'
    OBVIOUS
  <2>4. ButtonGuardsSend' /\ PendingInv'
    OBVIOUS
  <2>. QED BY <2>1, <2>2, <2>3, <2>4
<1>20. CASE Reset
  <2>. USE <1>20 DEF Reset
  <2>1. MobileTypeOK'
    BY ZenonT(60)
  <2>2. PanelsShowState' /\ NeverAtADeadEnd'
    OBVIOUS
  <2>3. CameraOnlyWhileShown' /\ OneStream'
    OBVIOUS
  <2>4. ButtonGuardsSend' /\ PendingInv'
    OBVIOUS
  <2>. QED BY <2>1, <2>2, <2>3, <2>4
<1>21. CASE SendRefused
  BY <1>21 DEF SendRefused
<1>22. CASE Send
  <2>. USE <1>22 DEF Send, CanSend, Valid
  <2>1. MobileTypeOK'
    BY ZenonT(60)
  <2>2. PanelsShowState' /\ NeverAtADeadEnd'
    OBVIOUS
  <2>3. CameraOnlyWhileShown' /\ OneStream'
    OBVIOUS
  <2>4. ButtonGuardsSend' /\ PendingInv'
    OBVIOUS
  <2>. QED BY <2>1, <2>2, <2>3, <2>4
<1>23. CASE EncryptFails
  <2>. USE <1>23 DEF EncryptFails, EnableButton
  <2>1. MobileTypeOK'
    BY ZenonT(60)
  <2>2. PanelsShowState' /\ NeverAtADeadEnd'
    OBVIOUS
  <2>3. CameraOnlyWhileShown' /\ OneStream'
    OBVIOUS
  <2>4. ButtonGuardsSend' /\ PendingInv'
    OBVIOUS
  <2>. QED BY <2>1, <2>2, <2>3, <2>4
<1>24. CASE EncryptedForNothing
  BY <1>24 DEF EncryptedForNothing
<1>25. ASSUME NEW bytes \in Framings, Encrypted(bytes) PROVE PageInv'
  BY <1>25 DEF Encrypted
<1>26. CASE UploadOk
  <2>. USE <1>26 DEF UploadOk, SendEnds
  <2>1. MobileTypeOK'
    BY ZenonT(60)
  <2>2. PanelsShowState' /\ NeverAtADeadEnd'
    OBVIOUS
  <2>3. CameraOnlyWhileShown' /\ OneStream'
    OBVIOUS
  <2>4. ButtonGuardsSend' /\ PendingInv'
    OBVIOUS
  <2>. QED BY <2>1, <2>2, <2>3, <2>4
<1>27. CASE UploadTooLarge
  <2>. USE <1>27 DEF UploadTooLarge, SendEnds
  <2>1. MobileTypeOK'
    BY ZenonT(60)
  <2>2. PanelsShowState' /\ NeverAtADeadEnd'
    OBVIOUS
  <2>3. CameraOnlyWhileShown' /\ OneStream'
    OBVIOUS
  <2>4. ButtonGuardsSend' /\ PendingInv'
    OBVIOUS
  <2>. QED BY <2>1, <2>2, <2>3, <2>4
<1>28. CASE UploadFails
  <2>. USE <1>28 DEF UploadFails, SendEnds
  <2>1. MobileTypeOK'
    BY ZenonT(60)
  <2>2. PanelsShowState' /\ NeverAtADeadEnd'
    OBVIOUS
  <2>3. CameraOnlyWhileShown' /\ OneStream'
    OBVIOUS
  <2>4. ButtonGuardsSend' /\ PendingInv'
    OBVIOUS
  <2>. QED BY <2>1, <2>2, <2>3, <2>4
<1>. QED
  BY [Next]_vars,
     <1>1, <1>2, <1>3, <1>4, <1>5, <1>6, <1>7, <1>8, <1>9, <1>10, <1>11,
     <1>12, <1>13, <1>14, <1>15, <1>16, <1>17, <1>18, <1>19, <1>20, <1>21,
     <1>22, <1>23, <1>24, <1>25, <1>26, <1>27, <1>28
  DEF Next, EncryptionSettles, UploadSettles

(* What the page relies on holds between any two of its tasks.             *)
THEOREM PageInvariance == Spec => []PageInv
<1>1. PageInv /\ [Next]_vars => PageInv'
  BY PageStep
<1>. QED BY PageInit, <1>1, PTL DEF Spec

(* Type correctness of the page, for any gallery and any bounds.           *)
THEOREM PageTypes == Spec => []MobileTypeOK
<1>1. PageInv => MobileTypeOK
  BY DEF PageInv
<1>. QED BY <1>1, PageInvariance, PTL

(* The preview has its photo and the crop panel has one to crop, however   *)
(* late captures, crops and answers come.                                  *)
THEOREM PanelsAreTrue == Spec => []PanelsShowState
<1>1. PageInv => PanelsShowState
  BY DEF PageInv
<1>. QED BY <1>1, PageInvariance, PTL

(* Some panel is shown until a photo was sent, unless the link was invalid.*)
THEOREM SomethingToTap == Spec => []NeverAtADeadEnd
<1>1. PageInv => NeverAtADeadEnd
  BY DEF PageInv
<1>. QED BY <1>1, PageInvariance, PTL

(* The camera is on exactly while its panel is shown, for any number of    *)
(* captures, as long as it was not opened twice at once.                   *)
THEOREM CameraIsSeen == Spec => []CameraOnlyWhileShown
<1>1. PageInv => CameraOnlyWhileShown
  BY DEF PageInv
<1>. QED BY <1>1, PageInvariance, PTL

(* The button is disabled exactly while send is between its first await    *)
(* and its end, or broken.                                                 *)
THEOREM OneSendAtATime == Spec => []ButtonGuardsSend
<1>1. PageInv => ButtonGuardsSend
  BY DEF PageInv
<1>. QED BY <1>1, PageInvariance, PTL

(* Where the server is configured for no less than the page's 15 MiB and   *)
(* its limit does not wrap, only the form around a photo can be refused as *)
(* too large: whatever is encrypted had passed the page's own check.       *)
THEOREM PageLimitFits ==
    ASSUME PageLimit <= MaxFileSize, MaxFileSize + 1024 <= IntMax
    PROVE  Spec => FittingPhotoAdmitted
<1>1. ASSUME PageInv, UploadTooLarge PROVE framing > FramingSlack
  <2>1. /\ payload \in Nat /\ payload <= PageLimit
        /\ framing \in Nat /\ TooLarge(Sealed(payload), framing)
    BY <1>1, PageAssumption
    DEF UploadTooLarge, SendEnds, PageInv, PendingInv, Photos
  <2>2. payload \in 0..MaxFileSize
    BY <2>1, SizeAssumption DEF PageLimit
  <2>3. framing \notin 0..FramingSlack
    BY <2>1, <2>2, SlackIsEnough
  <2>. QED BY <2>1, <2>3 DEF FramingSlack, CryptoOverhead
<1>2. PageInv /\ [Next]_vars => (UploadTooLarge => framing > FramingSlack)
  BY <1>1
<1>. QED BY <1>2, PageInvariance, PTL DEF Spec, FittingPhotoAdmitted
============================================================================
