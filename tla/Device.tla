------------------------------- MODULE Device -------------------------------
(***************************************************************************)
(* The device side of the library's global state: the CUDA runtime's        *)
(* current device, what gDeviceHandler (a DeviceAPI) remembers of it, and   *)
(* the singleton that measures device memory.  The properties singleton is  *)
(* bound to device 0 before main, when gDeviceHandler is constructed.       *)
(***************************************************************************)
EXTENDS Naturals

CONSTANTS Devices,      \* the devices of the machine, 0 among them
          Ids,          \* the device numbers programs ask for
          NotMeasured

ASSUME DeviceAssumption == 0 \in Devices /\ Devices \subseteq Ids /\ NotMeasured \notin Ids

VARIABLES current,   \* the host thread's current device
          deviceID,  \* gDeviceHandler.m_deviceID
          measured   \* the device whose memory DeviceMemoryState holds

deviceVars == <<current, deviceID, measured>>

DeviceTypeOK == /\ current \in Devices
                /\ deviceID \in Ids
                /\ measured \in Devices \cup {NotMeasured}

DeviceInit == current = 0 /\ deviceID = 0 /\ measured = NotMeasured

\* cudaSetDevice, which refuses a number that is no device.
cudaSetDevice(id) == current' = IF id \in Devices THEN id ELSE current

\* Mutant of SetDevice: only the handler is told.
SetDeviceRecords(id) == deviceID' = id /\ UNCHANGED <<current, measured>>

\* DeviceAPI::setDevice keeps the number even if the runtime refuses it.
SetDevice(id) == /\ deviceID' = id
                 /\ cudaSetDevice(id)
                 /\ UNCHANGED measured

\* InitializeContext goes past the handler; its launch of emptyCall and its wait
\* leave nothing behind.
InitializeContext(id) == cudaSetDevice(id) /\ UNCHANGED <<deviceID, measured>>

\* Mutant of MemoryStatus: the handler's device is measured.
MemoryStatusOfHandler ==
  /\ measured' = IF measured = NotMeasured THEN deviceID ELSE measured
  /\ UNCHANGED <<current, deviceID>>

\* DeviceAPI::getMemoryStatus: the first call measures the current device, whatever
\* the handler's number, and no later one does.
MemoryStatus == /\ measured' = IF measured = NotMeasured THEN current ELSE measured
                /\ UNCHANGED <<current, deviceID>>

\* gDeviceHandler's number stops being the current device only when the runtime
\* refuses a number the handler keeps, or when a change goes past the handler.
PartsOnFailureOnly ==
  [][deviceID = current /\ deviceID' # current' =>
       deviceID' \notin Devices \/ UNCHANGED deviceID]_deviceVars
=============================================================================
